SPECIFICATION Spec
CONSTANTS
  FaultKinds = {"error", "undo", "interrupt", "kill"}
  MaxFaults = 2
  MaxCommands = 3
  MaxWrites = 2
CHECK_DEADLOCK FALSE
INVARIANTS HeadWhole Kept HalfFrozen
PROPERTIES FailureRestores ReportsTrue
