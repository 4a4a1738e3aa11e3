---------------------------- MODULE MCQueryCache ----------------------------
(***************************************************************************)
(* Instances of QueryCache for TLC.                                        *)
(***************************************************************************)
EXTENDS QueryCache, TLC

CONSTANTS p1, p2

\* All tasks, and those of one status.
ListFilters == {Version, {CHOOSE v \in Version : TRUE}}

Paging == \E p \in Listers : script[p] # <<>> \/ page[p] # NoPage

\* A listing begins on a board that has not changed yet, and while it lasts files
\* are written and edited, but Git is left alone.
PagesApart == Paging' => head' = head /\ index' = index /\ (Paging \/ changes = 0)
=============================================================================
