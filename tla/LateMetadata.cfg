SPECIFICATION Spec
CONSTANTS
  Master = m
  s1 = s1
  s2 = s2
  Standby = {s1, s2}
  NoAddress = none
  Shared <- MCShared
  MaxCuts = 0
  MasterMayExit = FALSE
  MayExit = {}
  EarlyStart = FALSE
INVARIANT JoinIsLocal
CHECK_DEADLOCK FALSE
