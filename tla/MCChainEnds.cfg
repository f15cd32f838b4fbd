SPECIFICATION FairSpec
CONSTANTS
  BufSize = 1
  InCap = 1
  OutCap = 1
  ClientBytes = 1
  BackendBytes = 0
  MaxBytes <- MCMaxBytes
  InitiatorIdle = 1
  TerminatorIdle = 1
PROPERTIES EndTogether
CHECK_DEADLOCK FALSE
