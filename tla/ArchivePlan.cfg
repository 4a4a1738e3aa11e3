SPECIFICATION Spec
CONSTANTS
  Task = {1, 2, 3}
  Gone = Gone
  Fold <- Folded
  Needs <- Waits
  Size <- Sizes
  Policies <- Asked
  Older = 1
  MaxClock = 1
  MaxEvents = 3
  MaxCommits = 3
  MaxChanges = 1
CHECK_DEADLOCK FALSE
PROPERTIES ArchivedAged ArchivedResolved PacksAsPlanned IdsReserved
