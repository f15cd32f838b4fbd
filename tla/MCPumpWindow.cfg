SPECIFICATION Spec
CONSTANTS
  BufSize = 1
  InCap = 1
  OutCap = 1
  IdleSecs = 0
  BytesEach = 5
  MaxBytes <- MCMaxBytes
INVARIANTS BoundedInFlight
CHECK_DEADLOCK FALSE
