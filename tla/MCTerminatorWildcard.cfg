SPECIFICATION Spec
CONSTANTS
  a1 = a1
  a2 = a2
  any4 = any4
  b6 = b6
  anyport = anyport
  V4 <- MCV4
  V6 <- MCV6
  Unspecified <- MCUnspecified
  NoPort <- MCNoPort
  NoKeys = {"absent"}
  BadKeys = {"toolong"}
  Word <- MCWord
  Most <- MCMost
  Configs <- MCConfigs
  Conns = {c1, c2}
  FdLimit = 4
  AcceptFaults = TRUE
INVARIANTS WildcardServed
CHECK_DEADLOCK FALSE
