SPECIFICATION Spec
CONSTANTS
  Master = m
  s1 = s1
  s2 = s2
  Standby = {s1, s2}
  NoAddress = none
  Shared <- MCClash
  MaxCuts = 0
  MasterMayExit = FALSE
  MayExit = {}
  EarlyStart = FALSE
PROPERTY MergeWithoutConflicts
CHECK_DEADLOCK FALSE
