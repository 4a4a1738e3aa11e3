SPECIFICATION Spec
CONSTANTS
  Gone = Gone
  NoPlan = NoPlan
  a = a
  b = b
  Name <- Names
  Tries = 2
  MaxSegment = 5
  Targets <- TargetBoards
  Sources <- SourceBoards
  FaultKinds = {"error", "interrupt", "kill"}
  MaxCommands = 3
  MaxWrites = 1
CHECK_DEADLOCK FALSE
INVARIANTS PlanFaithful BoardSound AppliedOnce
PROPERTIES AppliedWhole FailureRestores
