SPECIFICATION Spec
CONSTANTS
  t1 = t1
  Thread = {t1}
  Size <- MCSize
  Views <- MCViews
  HostId = 2
  Requests <- AllRequests
  MaxCalls = 3
  MaxFaults = 1
  MaxDrops = 1
  MaxGone = 1
  Overlap = FALSE
INVARIANTS
  FileTypeOK
  RightBytes
  
  NoFreedHandle
CHECK_DEADLOCK FALSE
