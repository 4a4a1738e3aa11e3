--------------------------- MODULE MCArchivePack ---------------------------
(***************************************************************************)
(* Instances of ArchivePack for TLC.                                       *)
(***************************************************************************)
EXTENDS ArchivePack, TLC

CONSTANTS p1, p2, t1, t2

Symmetry == Permutations(Procs) \cup Permutations(Task)
=============================================================================
