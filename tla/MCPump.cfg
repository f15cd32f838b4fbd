SPECIFICATION Spec
CONSTANTS
  BufSize = 2
  InCap = 2
  OutCap = 1
  IdleSecs = 2
  BytesEach = 3
  MaxBytes <- MCMaxBytes
INVARIANTS RelayIntegrity EofTruthful StatsExact IdleIsQuiet PumpInv
PROPERTIES RelaySpec
CHECK_DEADLOCK FALSE
