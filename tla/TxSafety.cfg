SPECIFICATION Spec
CONSTANTS
  NoWriter = NoWriter
  Absent = Absent
  w1 = w1
  w2 = w2
  task = task
  ledger = ledger
  other = other
  a = a
  b = b
  h1 = h1
  h2 = h2
  Writers = {w1, w2}
  Path = {task, ledger, other}
  Image = {Absent, a}
  Orders <- BatchOrders
  Heads = {h1, h2}
  FaultKinds = {"recover", "stage", "activate", "late", "restore", "cleanup"}
  MaxFaults = 2
  Edits = {"free"}
INVARIANTS NeverDrifts RollbackSound IInv
PROPERTY ImplementsAtomicMutation
CHECK_DEADLOCK FALSE
