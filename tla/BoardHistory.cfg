SPECIFICATION Spec
CONSTANTS
  NoProc = NoProc
  Gone = Gone
  Tombstone = Tombstone
  p1 = p1
  p2 = p2
  t1 = t1
  t2 = t2
  x = x
  y = y
  closed = closed
  Marker = closed
  Procs = {p1, p2}
  Task = {t1}
  Status = {"todo"}
  Body = {x, y}
  Kinds = {"create", "update", "replace", "delete", "reconcile"}
  Edits = {"body", "add"}
  Interrupts = "apart"
  MaxEvents = 3
CHECK_DEADLOCK FALSE
SYMMETRY ProcSymmetry
INVARIANTS Converged HistoryContinuous IntentRecoverable ChainUnbroken
PROPERTY AppendOnly
