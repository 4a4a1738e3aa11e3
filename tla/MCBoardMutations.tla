-------------------------- MODULE MCBoardMutations --------------------------
(***************************************************************************)
(* Instances of BoardMutations for TLC.                                    *)
(***************************************************************************)
EXTENDS BoardMutations

CONSTANTS p1, p2, t1, t2, x, y, closed

Symmetry == Permutations(Task) \cup Permutations(Procs)
ProcSymmetry == Permutations(Procs)

\* A state without the ledgers.  Where nothing is edited, ledgers decide about
\* nothing but the recovery of an intent, and Completed and Drifted say how.
DependencyView ==
    <<md, board, taskLock, pc,
      [p \in Procs |-> <<req[p].kind, req[p].main, req[p].tasks, req[p].expected,
                         req[p].read, req[p].after>>],
      [w \in intent.tasks |-> <<intent.before[w].md, intent.after[w].md>>],
      Completed, Drifted>>
=============================================================================
