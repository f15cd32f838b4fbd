SPECIFICATION Spec
CONSTANTS
  BufSize = 1
  InCap = 1
  OutCap = 1
  ClientBytes = 1
  BackendBytes = 1
  MaxBytes <- MCMaxBytes
  InitiatorIdle = 0
  TerminatorIdle = 0
INVARIANTS EndToEnd NothingCrosses OneNamesCause ChainInv
PROPERTIES RelaySpec
CHECK_DEADLOCK FALSE
