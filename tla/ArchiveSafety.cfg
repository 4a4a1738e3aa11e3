SPECIFICATION Spec
CONSTANTS
  NoProc = NoProc
  p1 = p1
  p2 = p2
  t1 = t1
  t2 = t2
  Procs = {p1, p2}
  Task = {t1, t2}
  FaultKinds = {"error", "copy", "interrupt", "kill", "reset"}
  MaxVersion = 2
  MaxCommits = 1
  MaxFaults = 2
CHECK_DEADLOCK FALSE
SYMMETRY Symmetry
INVARIANTS Kept OneTier ReceiptsTrue
PROPERTY FaultRestores
