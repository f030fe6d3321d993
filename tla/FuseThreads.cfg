SPECIFICATION FairSpec
CONSTANTS
  t1 = t1
  t2 = t2
  Thread = {t1, t2}
  Size <- MCSizeLater
  Views <- MCViews
  HostId = 2
  Requests <- Mixed
  MaxCalls = 2
  MaxFaults = 0
  MaxDrops = 1
  MaxGone = 0
  Overlap = TRUE
INVARIANTS
  RightHost
  SessionKept
PROPERTIES
  CallsReturn
CHECK_DEADLOCK FALSE
