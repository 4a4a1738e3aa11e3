--------------------------- MODULE AtomicMutation ---------------------------
(***************************************************************************)
(* What the storage promises its callers: a mutation is one atomic step.   *)
(*                                                                         *)
(* A writer submits a request that names a set of files, the images it     *)
(* read there (before) and the images it wants there (after).  The request *)
(* then either takes effect on all its files in a single step, against     *)
(* exactly the images it was computed from, or takes no effect at all.  A  *)
(* writer is told "ok" only after its request took effect.  A writer that  *)
(* dies or gives up may leave its request orphaned: it still takes effect  *)
(* as a whole or not at all, and until then nothing else is computed.      *)
(* There are no locks, plans or recovery here: MutationTransaction, the    *)
(* protocol of the code, is shown to implement this module.                *)
(***************************************************************************)

CONSTANTS Writers, Path

VARIABLES
    board,      \* file -> image
    phase,      \* writer -> "closed", "open", "committed" or "orphaned"
    request,    \* writer -> [paths, before, after]; no meaning while closed
    reply       \* writer -> what its last call was told

vars == <<board, phase, request, reply>>

Init ==
    /\ phase = [w \in Writers |-> "closed"]
    /\ reply = [w \in Writers |-> "none"]

\* Requests of the other writers are not disturbed.
OwnRequest(w) == \A v \in Writers \ {w} : request'[v] = request[v]

Close(w) ==
    /\ phase' = [phase EXCEPT ![w] = "closed"]
    /\ OwnRequest(w)

Call(w) ==
    /\ phase[w] \in {"closed", "orphaned"}
    /\ reply' = [reply EXCEPT ![w] = "none"]
    /\ UNCHANGED <<board, phase, request>>

\* A call may be turned away before it submits anything.
Refuse(w) ==
    /\ phase[w] \in {"closed", "orphaned"}
    /\ reply' = [reply EXCEPT ![w] = "refused"]
    /\ UNCHANGED <<board, phase, request>>

\* A request is computed from the files as they are, none of them in doubt.
Submit(w) ==
    /\ phase[w] = "closed"
    /\ \A v \in Writers : phase[v] \notin {"open", "orphaned"}
    /\ phase' = [phase EXCEPT ![w] = "open"]
    /\ OwnRequest(w)
    /\ \A p \in request'[w].paths : request'[w].before[p] = board[p]
    /\ UNCHANGED <<board, reply>>

\* The files still hold what the request was computed from, and all of them
\* change at once.
TakesEffect(w) ==
    /\ \A p \in request[w].paths : board[p] = request[w].before[p]
    /\ board' = [p \in Path |-> IF p \in request[w].paths
                                THEN request[w].after[p] ELSE board[p]]

Commit(w) ==
    /\ phase[w] = "open"
    /\ TakesEffect(w)
    /\ phase' = [phase EXCEPT ![w] = "committed"]
    /\ UNCHANGED <<request, reply>>

\* The writer of a request that took effect returns, fails late or dies.
Acknowledge(w) ==
    /\ phase[w] = "committed"
    /\ Close(w)
    /\ reply' \in {reply} \cup {[reply EXCEPT ![w] = r] : r \in {"ok", "error"}}
    /\ UNCHANGED board

Abort(w) ==
    /\ phase[w] = "open"
    /\ Close(w)
    /\ reply' \in {reply, [reply EXCEPT ![w] = "error"]}
    /\ UNCHANGED board

\* The writer dies, or fails to undo its work, with the request undecided.
Orphan(w) ==
    /\ phase[w] = "open"
    /\ phase' = [phase EXCEPT ![w] = "orphaned"]
    /\ reply' \in {reply, [reply EXCEPT ![w] = "error"]}
    /\ UNCHANGED <<board, request>>

\* Somebody decides an orphaned request, either way.
Settle(w) ==
    /\ phase[w] = "orphaned"
    /\ TakesEffect(w) \/ UNCHANGED board
    /\ Close(w)
    /\ UNCHANGED reply

\* Files that no request names any more change independently.
Elsewhere ==
    /\ \A w \in Writers : phase[w] # "closed" =>
          \A p \in request[w].paths : board'[p] = board[p]
    /\ UNCHANGED <<phase, request, reply>>

Next ==
    \/ \E w \in Writers :
          \/ Call(w) \/ Refuse(w) \/ Submit(w) \/ Commit(w) \/ Acknowledge(w)
          \/ Abort(w) \/ Orphan(w) \/ Settle(w)
    \/ Elsewhere

Spec == Init /\ [][Next]_vars
=============================================================================
