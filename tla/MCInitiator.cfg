SPECIFICATION Spec
CONSTANTS
  a1 = a1
  a2 = a2
  anyport = anyport
  V4 <- MCV4
  V6 = {}
  Unspecified = {}
  NoPort <- MCNoPort
  NoKeys = {"absent"}
  BadKeys = {}
  Word <- MCWord
  Most <- MCMost
  Configs <- MCConfigs
  Keys = {"k1", "k2"}
  Conns = {c1, c2}
  FdLimit = 4
  AcceptFaults = TRUE
  MaxChanges = 1
INVARIANTS SignsFirst RightEntry KeyFresh KeepaliveAsked InitiatorInv
PROPERTIES GateSpec
CHECK_DEADLOCK FALSE
