SPECIFICATION FairSpec
CONSTANTS
  a1 = a1
  a2 = a2
  anyport = anyport
  V4 <- MCV4
  V6 = {}
  Unspecified = {}
  NoPort <- MCNoPort
  NoKeys = {"absent"}
  BadKeys = {"toolong"}
  Word <- MCWord
  Most <- MCMost
  Configs <- MCConfigs
  Keys = {"k1"}
  Conns = {c1, c2}
  FdLimit = 8
  AcceptFaults = FALSE
  MaxChanges = 1
PROPERTIES NeverFalls Answered
CHECK_DEADLOCK FALSE
