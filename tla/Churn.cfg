SPECIFICATION Spec
CONSTANTS
  Master = m
  s1 = s1
  s2 = s2
  Standby = {s1, s2}
  NoAddress = none
  Shared <- MCShared
  MaxCuts = 0
  MasterMayExit = FALSE
  MayExit = {s1, s2}
  EarlyStart = FALSE
INVARIANTS
  TypeOK
  OwnersRegistered
  HostsResolve
  ViewsCatchUp
  WriteInProgress
  NoLostWakeup
  AloneAfterDisconnect
PROPERTIES
  HostsGrow
  ImplementsBroadcast
CHECK_DEADLOCK FALSE
