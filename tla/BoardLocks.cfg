SPECIFICATION FairSpec
CONSTANTS
  NoProc = NoProc
  Gone = Gone
  Tombstone = Tombstone
  p1 = p1
  p2 = p2
  t1 = t1
  t2 = t2
  x = x
  y = y
  closed = closed
  Marker = closed
  Procs = {p1, p2}
  Task = {t1, t2}
  Status = {"todo", "done"}
  Body = {closed}
  Kinds = {"umbrella", "reconcile"}
  Edits = {}
  Interrupts = "any"
  MaxEvents = 2
CHECK_DEADLOCK FALSE
PROPERTY LocksReleased
