SPECIFICATION LiveSpec
CONSTANTS
  BufSize = 2
  InCap = 2
  OutCap = 1
  IdleSecs = 1
  BytesEach = 2
  MaxBytes <- MCMaxBytes
PROPERTIES EndStopsPump IdleStopsPump EndpointsLearn EofDelivers
CHECK_DEADLOCK FALSE
