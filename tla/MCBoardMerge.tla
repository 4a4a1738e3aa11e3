---------------------------- MODULE MCBoardMerge ----------------------------
(***************************************************************************)
(* Instances of BoardMerge for TLC: two names; of the second task it       *)
(* matters whether it waits for the first.                                 *)
(***************************************************************************)
EXTENDS BoardMerge, TLC

CONSTANTS a, b

Names == {a, b}
A == <<a>>
B == <<b>>
Tasks(needs) == [at : {0, 1}, status : {"todo", "done"}, needs : needs]
One == { A :> t : t \in Tasks({{}}) }
Two == { (A :> t) @@ (B :> u) : t \in [at : {1}, status : {"todo", "done"}, needs : {{}}],
                                u \in [at : {0}, status : {"todo", "done"}, needs : {{A}}] }

\* The first number for a copy is taken, or both that are tried.
Numbered(n) ==
    [id \in {A} \cup { Append(A, i) : i \in 1..n } |-> [at |-> Len(id) - 1, status |-> "todo", needs |-> {}]]
Taken == { Numbered(1), Numbered(2) }

TargetBoards == { t \in {NoTasks} \cup One \cup Two \cup Taken : ~Contradictory(t) }
SourceBoards ==
    { <<t>> : t \in { s \in One \cup Two : ~Contradictory(s) } }
        \cup { <<s, t>> : s \in { A :> t : t \in [at : {1}, status : {"done"}, needs : {{}}] },
                          t \in { A :> t : t \in [at : {0}, status : {"todo"}, needs : {{}}] } }
=============================================================================
