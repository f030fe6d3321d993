SPECIFICATION FairSpec
CONSTANTS
  Base = 2
  Trees <- MCTrees
  Tables <- MCTables
  Ids = {5}
  MaxSent = 2
  Window = 9
INVARIANTS
  StreamTypeOK
  JustFits
PROPERTIES
  ImplementsChannel
  Handled
CHECK_DEADLOCK FALSE
