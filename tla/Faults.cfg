SPECIFICATION Spec
CONSTANTS
  Master = m
  s1 = s1
  s2 = s2
  Standby = {s1, s2}
  NoAddress = none
  Shared <- MCClash
  MaxCuts = 1
  MasterMayExit = TRUE
  MayExit = {s1}
  EarlyStart = FALSE
INVARIANTS
  OwnersRegistered
  HostsResolve
  ViewsCatchUp
  WriteInProgress
  NoLostWakeup
  AloneAfterDisconnect
PROPERTY HostsGrow
CHECK_DEADLOCK FALSE
