----------------------- MODULE MCMutationTransaction -----------------------
(***************************************************************************)
(* Instances of MutationTransaction for TLC: tasks t and u, each with its  *)
(* ledger segment; one mutation of a task, and one batch over both.        *)
(***************************************************************************)
EXTENDS MutationTransaction, TLC

CONSTANTS w1, w2, task, ledger, other, a, b, h1, h2

\* A mutation of one task: its file, then its ledger segment.
TaskOrders == {<<task, ledger>>}

\* A batch next to a single mutation, sharing files, in caller order.
BatchOrders == {<<task, ledger, other>>, <<other>>}

Symmetry == Permutations(Writers) \cup Permutations(Image \ {Absent})
=============================================================================
