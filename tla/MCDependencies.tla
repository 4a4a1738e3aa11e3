--------------------------- MODULE MCDependencies ---------------------------
(***************************************************************************)
(* Instances of DependencyCommands and DependencyGraph for TLC, side by    *)
(* side: commands build up a board of their own from nothing, or a query   *)
(* is put to any board, one with cycles or missing tasks included.         *)
(***************************************************************************)
EXTENDS DependencyGraph, DependencyCommands, TLC

CONSTANTS p1, p2, t, u, v, w

SideBySideInit == Init /\ CommandsInit

\* A query is put where no command has run, and a command runs where there is no
\* board to put queries to.
SideBySideNext ==
    \/ exists = {} /\ Next /\ UNCHANGED commandsVars
    \/ Board = {} /\ query.kind = "none" /\ CommandsNext /\ UNCHANGED vars

SideBySide == SideBySideInit /\ [][SideBySideNext]_<<vars, commandsVars>>

Symmetry == Permutations(Task) \cup Permutations(Procs)
=============================================================================
