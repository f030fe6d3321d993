SPECIFICATION FairSpec
CONSTANTS
  Master = m
  s1 = s1
  s2 = s2
  Standby = {s1, s2}
  NoAddress = none
  Shared <- MCShared
  MaxCuts = 0
  MasterMayExit = FALSE
  MayExit = {s1}
  EarlyStart = FALSE
PROPERTY QuitFilesVanish
CHECK_DEADLOCK FALSE
