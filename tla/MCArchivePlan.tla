--------------------------- MODULE MCArchivePlan ---------------------------
(***************************************************************************)
(* Instances of ArchivePlan for TLC: task 1, a task 2 that waits for it,   *)
(* and a task 3 whose ID is that of 1 in other letters.                    *)
(***************************************************************************)
EXTENDS ArchivePlan

Folded == [t \in Task |-> IF t = 3 THEN 1 ELSE t]
Waits == [t \in Task |-> IF t = 2 THEN {1} ELSE {}]
Sizes == [t \in Task |-> t]
Asked ==
    { [statuses |-> Terminal, maxTasks |-> 2, target |-> 3, hardMax |-> 3],
      [statuses |-> {"done"}, maxTasks |-> 2, target |-> 1, hardMax |-> 1] }
=============================================================================
