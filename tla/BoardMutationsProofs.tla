------------------------ MODULE BoardMutationsProofs ------------------------
(***************************************************************************)
(* First the dependencies of a board, then its ledgers.                    *)
(*                                                                         *)
(* No done task ever has an unmet blocker, whatever the number of tasks    *)
(* and of processes, whoever is killed and whatever people write into the  *)
(* bodies of the files.  Nothing is deleted and no file added by hand.     *)
(*                                                                         *)
(* DoneResolved is about the board as it is when an intent is rolled back. *)
(* Recovery may keep the intent instead, and a mutation is checked some    *)
(* steps before it writes: the invariant claims the same of the board that *)
(* an intent leads to, and of those that the mutations under way lead to.  *)
(***************************************************************************)
EXTENDS BoardMutations, SequenceTheorems, TLAPS

Boards == [Task -> Record \cup {Gone}]

Resolved(b) ==
    \A t \in Task : b[t] # Gone /\ b[t].status = "done" =>
        \A u \in b[t].blockers : b[u] # Gone /\ b[u].status \in Terminal

\* The board if the intent is rolled back, if it is kept, and if the mutation
\* of p is carried out.
RolledBack == [t \in Task |-> Effective(t)]
Kept == [t \in Task |-> IF t \in intent.tasks THEN intent.after[t].md ELSE md[t]]
Planned(p) == [t \in Task |-> IF t \in req[p].tasks THEN req[p].after[t] ELSE md[t]]

(***************************************************************************)
(* The inductive invariant.                                                *)
(***************************************************************************)

Writing == {"checked", "ready", "prepared"}
Holding == {"board", "locked"} \cup Writing
Calling == {"waiting"} \cup Holding

IsCall(c) ==
    c = [kind |-> c.kind, main |-> c.main, tasks |-> c.tasks, expected |-> c.expected,
         read |-> c.read, after |-> c.after, tip |-> c.tip, events |-> c.events]

\* Calls that are under way.
CallsOK ==
    /\ pc = [p \in Procs |-> pc[p]] /\ req = [p \in Procs |-> req[p]]
    /\ \A p \in Procs :
          /\ IsCall(req[p])
          /\ pc[p] \in Calling =>
                /\ req[p].kind \in Kinds \cap {"create", "update", "replace", "delete", "umbrella"}
                /\ req[p].tasks \subseteq Task
                /\ req[p].kind # "umbrella" => req[p].tasks = {req[p].main}

\* The board lock is held by one process, and only where there is no intent.
Exclusive == \A p \in Procs : pc[p] \in Holding => board = p /\ intent = NoIntent

PlansResolved ==
    \A p \in Procs : pc[p] \in Writing => Planned(p) \in Boards /\ Resolved(Planned(p))

BoardsResolved ==
    /\ md \in Boards /\ RolledBack \in Boards /\ Kept \in Boards
    /\ Resolved(RolledBack) /\ Resolved(Kept)

IInv == CallsOK /\ Exclusive /\ PlansResolved /\ BoardsResolved

(***************************************************************************)
(* Boards.                                                                 *)
(***************************************************************************)

\* Without an intent there is one board.
LEMMA NoIntentOneBoard ==
    ASSUME intent = NoIntent, md \in Boards
    PROVE  RolledBack = md /\ Kept = md
<1>1. intent.tasks = {}
  BY DEF NoIntent
<1> QED
  BY <1>1 DEF RolledBack, Kept, Effective, Boards

\* Bodies do not matter.
Alike(b, c) ==
    \A t \in Task :
        /\ b[t] = Gone <=> c[t] = Gone
        /\ b[t] # Gone => b[t].status = c[t].status /\ b[t].blockers = c[t].blockers

LEMMA AlikeResolved ==
    ASSUME NEW b \in Boards, NEW c \in Boards, Alike(b, c), Resolved(b)
    PROVE  Resolved(c)
<1>1. SUFFICES ASSUME NEW t \in Task, c[t] # Gone, c[t].status = "done", NEW u \in c[t].blockers
               PROVE  c[u] # Gone /\ c[u].status \in Terminal
  BY DEF Resolved
<1>2. b[t] # Gone /\ b[t].status = "done" /\ u \in b[t].blockers
  BY <1>1 DEF Alike
<1>3. b[u] # Gone /\ b[u].status \in Terminal
  BY <1>2 DEF Resolved
<1>4. u \in Task
  BY <1>1 DEF Boards, Record
<1> QED
  BY <1>3, <1>4 DEF Alike

\* A task of b is written as r, with its blockers resolved, and not reopened
\* under a done task.
LEMMA OneWritten ==
    ASSUME md \in Boards, Resolved(md), NEW t \in Task, NEW r \in Record, t \notin r.blockers,
           Completable(r, {}),
           md[t] # Gone /\ Reopens(t, r) => DoneDependents(t) = {}
    PROVE  Resolved([u \in Task |-> IF u = t THEN r ELSE md[u]])
<1> DEFINE c == [u \in Task |-> IF u = t THEN r ELSE md[u]]
<1>1. SUFFICES ASSUME NEW x \in Task, c[x] # Gone, c[x].status = "done", NEW u \in c[x].blockers
               PROVE  c[u] # Gone /\ c[u].status \in Terminal
  BY DEF Resolved
<1>2. u \in Task
  BY <1>1 DEF Boards, Record
<1>3. CASE x = t
  <2>1. u \in r.blockers /\ u # t /\ r.status = "done"
    BY <1>1, <1>3
  <2>2. u \notin Unmet(r, {})
    BY <2>1 DEF Completable
  <2> QED
    BY <1>2, <2>1, <2>2 DEF Unmet
<1>4. CASE x # t
  <2>1. md[x] # Gone /\ md[x].status = "done" /\ u \in md[x].blockers
    BY <1>1, <1>4
  <2>2. md[u] # Gone /\ md[u].status \in Terminal
    BY <2>1 DEF Resolved
  <2>3. CASE u = t
    <3>1. DoneDependents(t) # {}
      BY <2>1, <2>3 DEF DoneDependents
    <3>2. r.status \in Terminal
      BY <2>2, <2>3, <3>1 DEF Reopens
    <3>3. r # Gone
      BY RecordAssumption
    <3> QED
      BY <1>2, <2>3, <3>2, <3>3
  <2> QED
    BY <1>2, <2>2, <2>3
<1> QED
  BY <1>3, <1>4

\* An umbrella and its children are finished together.
LEMMA AllFinished ==
    ASSUME md \in Boards, Resolved(md), NEW S \in SUBSET Task, Marker \in Body, "done" \in Status,
           \A t \in S : md[t] # Gone /\ Completable(Finished(md[t]), S)
    PROVE  LET c == [u \in Task |-> IF u \in S THEN Finished(md[u]) ELSE md[u]]
           IN  c \in Boards /\ Resolved(c)
<1> DEFINE c == [u \in Task |-> IF u \in S THEN Finished(md[u]) ELSE md[u]]
<1>1. \A t \in S : /\ Finished(md[t]) \in Record
                   /\ Finished(md[t]).status = "done"
                   /\ Finished(md[t]).blockers = md[t].blockers
  BY DEF Finished, Record, Boards
<1>2. c \in Boards
  BY <1>1 DEF Boards
<1>3. ASSUME NEW x \in Task, c[x] # Gone, c[x].status = "done", NEW u \in c[x].blockers
      PROVE  c[u] # Gone /\ c[u].status \in Terminal
  <2>1. u \in Task
    BY <1>2, <1>3 DEF Boards, Record
  <2>2. CASE u \in S
    BY <1>1, <2>1, <2>2, RecordAssumption DEF Terminal
  <2>3. CASE u \notin S /\ x \in S
    <3>1. u \in Finished(md[x]).blockers \ S /\ Unmet(Finished(md[x]), S) = {}
      BY <1>1, <1>3, <2>3 DEF Completable
    <3> QED
      BY <2>1, <2>3, <3>1 DEF Unmet
  <2>4. CASE u \notin S /\ x \notin S
    BY <1>3, <2>1, <2>4 DEF Resolved
  <2> QED
    BY <2>2, <2>3, <2>4
<1> QED
  BY <1>2, <1>3 DEF Resolved

(***************************************************************************)
(* Steps that write nothing.                                               *)
(***************************************************************************)

\* The plans of q are what they were.
SamePlan(q) ==
    pc'[q] \in Writing =>
        pc[q] \in Writing /\ req'[q].tasks = req[q].tasks /\ req'[q].after = req[q].after

\* A step that neither writes a file, nor settles an intent, nor plans anything.
Quiet ==
    UNCHANGED <<md, intent>> /\ CallsOK' /\ Exclusive' /\ \A q \in Procs : SamePlan(q)

LEMMA NothingWritten ==
    ASSUME IInv, Quiet
    PROVE  IInv'
<1> USE DEF Quiet
<1>1. BoardsResolved'
  BY DEF IInv, BoardsResolved, Boards, Resolved, RolledBack, Kept, Effective
<1>2. ASSUME NEW q \in Procs, pc'[q] \in Writing
      PROVE  Planned(q)' \in Boards' /\ Resolved(Planned(q))'
  <2>1. Planned(q)' = Planned(q)
    BY <1>2 DEF SamePlan, Planned
  <2>2. Planned(q) \in Boards /\ Resolved(Planned(q))
    BY <1>2 DEF SamePlan, IInv, PlansResolved
  <2> QED
    BY <2>1, <2>2 DEF Boards, Resolved
<1> QED
  BY <1>1, <1>2 DEF IInv, PlansResolved

\* A process gives its locks back, whatever it leaves.
Left(p) == Return(p) \/ (Goto(p, "dead") /\ Unlock(p) /\ UNCHANGED req)

LEMMA Leaving ==
    ASSUME CallsOK, Exclusive, NEW p \in Procs, Left(p), intent' = intent \/ board = p
    PROVE  /\ CallsOK' /\ Exclusive'
           /\ pc'[p] \notin Calling
           /\ \A q \in Procs \ {p} : pc'[q] = pc[q] /\ req'[q] = req[q]
           /\ \A q \in Procs : SamePlan(q)
<1>1. pc'[p] \notin Calling /\ \A q \in Procs \ {p} : pc'[q] = pc[q] /\ req'[q] = req[q]
  BY DEF Left, Return, Goto, CallsOK, Calling, Holding, Writing
<1>2. pc' = [q \in Procs |-> pc'[q]] /\ req' = [q \in Procs |-> req'[q]] /\ IsCall(req'[p])
  BY DEF Left, Return, Goto, CallsOK, IsCall, NoCall
<1>3. CallsOK'
  <2>1. ASSUME NEW q \in Procs
        PROVE  /\ IsCall(req'[q])
               /\ pc'[q] \in Calling =>
                     /\ req'[q].kind \in Kinds \cap {"create", "update", "replace", "delete", "umbrella"}
                     /\ req'[q].tasks \subseteq Task
                     /\ req'[q].kind # "umbrella" => req'[q].tasks = {req'[q].main}
    <3>1. CASE q = p
      BY <1>1, <1>2, <3>1
    <3>2. CASE q # p
      BY <1>1, <3>2 DEF CallsOK
    <3> QED
      BY <3>1, <3>2
  <2> QED
    BY <1>2, <2>1 DEF CallsOK, IsCall
<1>4. Exclusive'
  <2>1. SUFFICES ASSUME NEW q \in Procs, pc'[q] \in Holding PROVE board' = q /\ intent' = NoIntent
    BY DEF Exclusive
  <2>2. q # p /\ pc[q] \in Holding
    BY <1>1, <2>1 DEF Calling
  <2>3. board = q /\ intent = NoIntent
    BY <2>2 DEF Exclusive
  <2>4. board' = board
    BY <2>2, <2>3 DEF Left, Return, Unlock
  <2> QED
    BY <2>2, <2>3, <2>4
<1>5. \A q \in Procs : SamePlan(q)
  BY <1>1 DEF SamePlan, Calling, Holding
<1> QED
  BY <1>1, <1>3, <1>4, <1>5

\* A process goes on, with the same call.
LEMMA GoingOn ==
    ASSUME CallsOK, NEW p \in Procs, NEW label, pc' = [pc EXCEPT ![p] = label],
           req' = [req EXCEPT ![p] = req'[p]], IsCall(req'[p]),
           req'[p].kind = req[p].kind, req'[p].main = req[p].main, req'[p].tasks = req[p].tasks,
           label \in Calling => pc[p] \in Calling
    PROVE  CallsOK'
<1>1. ASSUME NEW q \in Procs
      PROVE  /\ IsCall(req'[q])
             /\ pc'[q] \in Calling =>
                   /\ req'[q].kind \in Kinds \cap {"create", "update", "replace", "delete", "umbrella"}
                   /\ req'[q].tasks \subseteq Task
                   /\ req'[q].kind # "umbrella" => req'[q].tasks = {req'[q].main}
  <2>1. CASE q = p
    BY <2>1 DEF CallsOK
  <2>2. CASE q # p
    <3>1. pc'[q] = pc[q] /\ req'[q] = req[q]
      BY <2>2 DEF CallsOK
    <3> QED
      BY <3>1 DEF CallsOK
  <2> QED
    BY <2>1, <2>2
<1>2. pc' = [q \in Procs |-> pc'[q]] /\ req' = [q \in Procs |-> req'[q]]
  BY DEF CallsOK
<1> QED
  BY <1>1, <1>2 DEF CallsOK, IsCall

\* A process that held nothing begins.
LEMMA Beginning ==
    ASSUME CallsOK, Exclusive, NEW p \in Procs, Begin(p)
    PROVE  Quiet
<1>1. PICK label \in {"waiting", "reconcile"} : pc[p] = "idle" /\ Goto(p, label)
  BY DEF Begin, CallOne, CallUmbrella, Call, ReconcileRead
<1>2. req' = [req EXCEPT ![p] = req'[p]] /\ IsCall(req'[p])
  <2>1. CASE \E kind, main, tasks, expected : Call(p, kind, main, tasks, expected)
    BY ZenonT(30), <2>1 DEF Call, CallsOK, NoCall, IsCall
  <2>2. CASE \E t \in Task : ReconcileRead(p, t)
    BY ZenonT(30), <2>2 DEF ReconcileRead, CallsOK, NoCall, IsCall
  <2> QED
    BY <2>1, <2>2 DEF Begin, CallOne, CallUmbrella
<1>3. /\ UNCHANGED <<md, intent, board>>
      /\ label = "waiting" =>
            /\ req'[p].kind \in Kinds \cap {"create", "update", "replace", "delete", "umbrella"}
            /\ req'[p].tasks \subseteq Task
            /\ req'[p].kind # "umbrella" => req'[p].tasks = {req'[p].main}
  <2>0. ASSUME NEW kind, NEW main, NEW tasks, NEW expected, Call(p, kind, main, tasks, expected)
        PROVE  /\ UNCHANGED <<md, intent, board>> /\ kind \in Kinds
               /\ req'[p].kind = kind /\ req'[p].main = main /\ req'[p].tasks = tasks
    BY <2>0 DEF Call, CallsOK, NoCall
  <2>1. CASE \E kind \in {"create", "update", "replace", "delete"}, t \in Task : CallOne(p, kind, t)
    <3>1. PICK kind \in {"create", "update", "replace", "delete"}, t \in Task :
             \E expected : Call(p, kind, t, {t}, expected)
      BY <2>1 DEF CallOne
    <3>2. /\ UNCHANGED <<md, intent, board>> /\ kind \in Kinds
          /\ req'[p].kind = kind /\ req'[p].main = t /\ req'[p].tasks = {t}
      BY <2>0, <3>1
    <3> QED
      BY <3>2
  <2>2. CASE \E u \in Task, children \in SUBSET Task : CallUmbrella(p, u, children)
    <3>1. PICK u \in Task, children \in SUBSET Task :
             \E expected : Call(p, "umbrella", u, children \cup {u}, expected)
      BY <2>2 DEF CallUmbrella
    <3>2. /\ UNCHANGED <<md, intent, board>> /\ "umbrella" \in Kinds
          /\ req'[p].kind = "umbrella" /\ req'[p].tasks = children \cup {u}
      BY <2>0, <3>1
    <3> QED
      BY <3>2
  <2>3. CASE \E t \in Task : ReconcileRead(p, t)
    <3>1. label = "reconcile"
      BY <1>1, <2>3 DEF ReconcileRead, Goto, CallsOK
    <3> QED
      BY <2>3, <3>1 DEF ReconcileRead
  <2> QED
    BY <2>1, <2>2, <2>3 DEF Begin
<1>4. pc'[p] = label /\ \A q \in Procs \ {p} : pc'[q] = pc[q] /\ req'[q] = req[q]
  BY <1>1, <1>2 DEF Goto, CallsOK
<1>5. CallsOK'
  <2>1. ASSUME NEW q \in Procs
        PROVE  /\ IsCall(req'[q])
               /\ pc'[q] \in Calling =>
                     /\ req'[q].kind \in Kinds \cap {"create", "update", "replace", "delete", "umbrella"}
                     /\ req'[q].tasks \subseteq Task
                     /\ req'[q].kind # "umbrella" => req'[q].tasks = {req'[q].main}
    <3>1. CASE q = p
      BY <1>1, <1>2, <1>3, <1>4, <3>1 DEF Calling, Holding, Writing
    <3>2. CASE q # p
      BY <1>4, <3>2 DEF CallsOK
    <3> QED
      BY <3>1, <3>2
  <2>2. pc' = [q \in Procs |-> pc'[q]] /\ req' = [q \in Procs |-> req'[q]]
    BY <1>1, <1>2 DEF Goto, CallsOK
  <2> QED
    BY <2>1, <2>2 DEF CallsOK, IsCall
<1>6. Exclusive' /\ \A q \in Procs : SamePlan(q)
  BY <1>3, <1>4 DEF Exclusive, SamePlan, Holding, Writing
<1> QED
  BY <1>3, <1>5, <1>6 DEF Quiet

\* A process stops without having written.
LEMMA Stopping ==
    ASSUME CallsOK, Exclusive, NEW p \in Procs,
           \/ RefuseFrozen(p) \/ RecoverRefuse(p) \/ LockTimeout(p) \/ Replay(p) \/ RefuseLate(p)
           \/ \E after : Refuse(p, after)
           \/ ReconcileAppend(p) \/ ReconcileStale(p) \/ Fail(p) \/ Crash(p)
    PROVE  Quiet
<1>1. Left(p) /\ UNCHANGED <<md, intent>>
  BY DEF RefuseFrozen, RecoverRefuse, LockTimeout, Replay, RefuseLate, Refuse, ReconcileAppend,
         ReconcileStale, Fail, Crash, Left
<1>2. CallsOK' /\ Exclusive' /\ \A q \in Procs : SamePlan(q)
  BY <1>1, Leaving
<1> QED
  BY <1>1, <1>2 DEF Quiet

\* A process that takes its locks, or prepares what it will write.
LEMMA Advancing ==
    ASSUME CallsOK, Exclusive, NEW p \in Procs,
           \/ TakeBoard(p) \/ \E t \in Task : TakeLock(p, t)
           \/ Reconcile(p) \/ Prepare(p) \/ ReconcilePrepare(p)
    PROVE  Quiet
<1>1. UNCHANGED <<md, intent>>
  BY DEF TakeBoard, TakeLock, Reconcile, Prepare, ReconcilePrepare
<1>2. PICK label : pc' = [pc EXCEPT ![p] = label] /\ (label \in Calling => pc[p] \in Calling)
  <2>1. CASE TakeBoard(p)
    BY <2>1 DEF TakeBoard, Goto, Calling
  <2>2. CASE \E t \in Task : TakeLock(p, t)
    <3>1. pc[p] \in Calling /\ pc = [pc EXCEPT ![p] = pc[p]]
      BY <2>2 DEF TakeLock, Calling, Holding, CallsOK
    <3> QED
      BY <2>2, <3>1 DEF TakeLock, Goto
  <2>3. CASE Reconcile(p) \/ Prepare(p)
    BY <2>3 DEF Reconcile, Prepare, Goto, Calling, Holding, Writing
  <2>4. CASE ReconcilePrepare(p)
    BY <2>4 DEF ReconcilePrepare, Goto, Calling, Holding, Writing
  <2> QED
    BY <2>1, <2>2, <2>3, <2>4
<1>3. /\ req' = [req EXCEPT ![p] = req'[p]] /\ IsCall(req'[p])
      /\ req'[p].kind = req[p].kind /\ req'[p].main = req[p].main
      /\ req'[p].tasks = req[p].tasks /\ req'[p].after = req[p].after
  <2>1. req = [q \in Procs |-> req[q]] /\ IsCall(req[p])
    BY DEF CallsOK
  <2>2. CASE req' = req
    BY <2>1, <2>2 DEF IsCall
  <2>3. CASE Prepare(p)
    <3>1. PICK x : req' = [req EXCEPT ![p].tip = x]
      BY <2>3 DEF Prepare
    <3> QED
      BY <2>1, <3>1 DEF IsCall
  <2>4. CASE ReconcilePrepare(p)
    <3>1. PICK x : req' = [req EXCEPT ![p].events = x]
      BY <2>4 DEF ReconcilePrepare
    <3> QED
      BY <2>1, <3>1 DEF IsCall
  <2> QED
    BY <2>2, <2>3, <2>4 DEF TakeBoard, TakeLock, Reconcile
<1>4. CallsOK'
  BY <1>2, <1>3, GoingOn
<1>5. pc'[p] = label /\ \A q \in Procs \ {p} : pc'[q] = pc[q] /\ req'[q] = req[q]
  BY <1>2, <1>3 DEF CallsOK
<1>6. Exclusive'
  <2>1. CASE TakeBoard(p)
    <3>1. \A q \in Procs : pc[q] \notin Holding
      BY <2>1, ProcsAssumption DEF TakeBoard, Exclusive
    <3> QED
      BY <1>5, <2>1, <3>1 DEF TakeBoard, Exclusive
  <2>2. CASE UNCHANGED board /\ (pc'[p] \in Holding => pc[p] \in Holding)
    BY <1>1, <1>5, <2>2 DEF Exclusive
  <2>3. CASE \E t \in Task : TakeLock(p, t)
    BY <2>2, <2>3 DEF TakeLock, Holding
  <2>4. CASE Reconcile(p) \/ Prepare(p)
    BY <2>2, <2>4 DEF Reconcile, Prepare, Holding, Writing
  <2>5. CASE ReconcilePrepare(p)
    <3>1. pc'[p] = "append"
      BY <2>5 DEF ReconcilePrepare, Goto, CallsOK
    <3> QED
      BY <2>2, <2>5, <3>1 DEF ReconcilePrepare, Holding, Writing
  <2> QED
    BY <2>1, <2>3, <2>4, <2>5
<1>7. ASSUME NEW q \in Procs PROVE SamePlan(q)
  <2>1. CASE q # p
    BY <1>5, <2>1 DEF SamePlan
  <2>2. CASE q = p /\ (Reconcile(p) \/ Prepare(p))
    BY <1>3, <2>2 DEF SamePlan, Reconcile, Prepare, Writing
  <2>3. CASE q = p /\ (TakeBoard(p) \/ (\E t \in Task : TakeLock(p, t)) \/ ReconcilePrepare(p))
    <3>1. pc'[p] \notin Writing
      BY <2>3 DEF TakeBoard, TakeLock, ReconcilePrepare, Goto, Writing, CallsOK
    <3> QED
      BY <2>3, <3>1 DEF SamePlan
  <2> QED
    BY <2>1, <2>2, <2>3
<1> QED
  BY <1>1, <1>4, <1>6, <1>7 DEF Quiet
\* A process has checked what it will write.
LEMMA Checked ==
    ASSUME CallsOK, Exclusive, NEW p \in Procs, NEW after, Check(p, after)
    PROVE  /\ CallsOK' /\ Exclusive' /\ pc'[p] \in Writing
           /\ req'[p].tasks = req[p].tasks /\ req'[p].after = after
           /\ \A q \in Procs \ {p} : pc'[q] = pc[q] /\ req'[q] = req[q]
<1>1. /\ pc[p] = "locked" /\ UNCHANGED <<intent, board>>
      /\ \E label \in {"checked", "ready"} : pc' = [pc EXCEPT ![p] = label]
  BY DEF Check, Goto
<1>2. /\ req' = [req EXCEPT ![p] = req'[p]] /\ IsCall(req'[p])
      /\ req'[p].kind = req[p].kind /\ req'[p].main = req[p].main
      /\ req'[p].tasks = req[p].tasks /\ req'[p].after = after
  <2>1. req = [q \in Procs |-> req[q]] /\ IsCall(req[p])
    BY DEF CallsOK
  <2>2. PICK x : req' = [req EXCEPT ![p] = [@ EXCEPT !.read = x, !.after = after]]
    BY DEF Check
  <2> QED
    BY <2>1, <2>2 DEF IsCall
<1>3. CallsOK'
  BY <1>1, <1>2, GoingOn DEF Calling, Holding
<1>4. pc'[p] \in Writing /\ \A q \in Procs \ {p} : pc'[q] = pc[q] /\ req'[q] = req[q]
  BY <1>1, <1>2 DEF CallsOK, Writing
<1>5. Exclusive'
  BY <1>1, <1>4 DEF Exclusive, Holding
<1> QED
  BY <1>2, <1>3, <1>4, <1>5

\* A process has written, all or a part of it.
LEMMA Written ==
    ASSUME CallsOK, Exclusive, NEW p \in Procs,
           Commit(p) \/ \E mds, ledgers \in SUBSET req[p].tasks : Interrupt(p, mds, ledgers)
    PROVE  /\ CallsOK' /\ Exclusive' /\ pc[p] = "prepared" /\ intent = NoIntent
           /\ \A q \in Procs : pc'[q] \notin Holding
           /\ \A q \in Procs \ {p} : pc'[q] = pc[q] /\ req'[q] = req[q]
<1>1. pc[p] = "prepared" /\ Left(p)
  BY DEF Commit, Interrupt, Left
<1>2. board = p /\ intent = NoIntent
  BY <1>1 DEF Exclusive, Holding, Writing
<1>3. /\ CallsOK' /\ Exclusive' /\ pc'[p] \notin Calling
      /\ \A q \in Procs \ {p} : pc'[q] = pc[q] /\ req'[q] = req[q]
  BY <1>1, <1>2, Leaving
<1>4. \A q \in Procs : pc'[q] \notin Holding
  BY <1>2, <1>3 DEF Exclusive, Calling
<1> QED
  BY <1>1, <1>2, <1>3, <1>4

\* A process has settled an intent.
LEMMA Settled ==
    ASSUME CallsOK, Exclusive, NEW p \in Procs, Recover(p)
    PROVE  /\ CallsOK' /\ Exclusive' /\ pc'[p] = "board"
           /\ \A q \in Procs : pc[q] \notin Holding /\ pc'[q] \notin Writing
           /\ \A q \in Procs \ {p} : pc'[q] = pc[q] /\ req'[q] = req[q]
<1>1. pc[p] = "waiting" /\ board = NoProc /\ board' = p /\ intent' = NoIntent
      /\ pc' = [pc EXCEPT ![p] = "board"] /\ req' = req
  BY DEF Recover, Goto
<1>2. \A q \in Procs : pc[q] \notin Holding
  BY <1>1, ProcsAssumption DEF Exclusive
<1>3. pc'[p] = "board" /\ \A q \in Procs \ {p} : pc'[q] = pc[q] /\ req'[q] = req[q]
  BY <1>1 DEF CallsOK
<1>4. CallsOK'
  <2>1. req' = [req EXCEPT ![p] = req'[p]] /\ IsCall(req'[p])
    BY <1>1 DEF CallsOK, IsCall
  <2> QED
    BY <1>1, <2>1, GoingOn DEF Calling
<1>5. Exclusive' /\ \A q \in Procs : pc'[q] \notin Writing
  BY <1>1, <1>2, <1>3 DEF Exclusive, Holding, Writing
<1> QED
  BY <1>2, <1>3, <1>4, <1>5

\* Whatever happens, one process at a time holds the board lock.
LEMMA LockKept ==
    ASSUME CallsOK, Exclusive, [Next]_vars
    PROVE  CallsOK' /\ Exclusive'
<1>1. ASSUME NEW p \in Procs, Begin(p) PROVE CallsOK' /\ Exclusive'
  BY <1>1, Beginning DEF Quiet
<1>2. ASSUME NEW p \in Procs, Progress(p) PROVE CallsOK' /\ Exclusive'
  BY <1>2, Stopping, Advancing, Checked, Settled, Written DEF Progress, Quiet
<1>3. ASSUME NEW p \in Procs, Failure(p) PROVE CallsOK' /\ Exclusive'
  BY <1>3, Stopping, Written DEF Failure, Quiet
<1>4. CASE UNCHANGED <<board, pc, req, intent>>
  BY <1>4 DEF CallsOK, Exclusive, IsCall
<1> QED
  BY <1>1, <1>2, <1>3, <1>4 DEF Next, Edit, vars

(***************************************************************************)
(* Checking, writing, recovering, editing.                                 *)
(***************************************************************************)

\* What the commands accept keeps done tasks resolved.
LEMMA Accepted ==
    ASSUME IInv, "delete" \notin Kinds, NEW p \in Procs, pc[p] = "locked",
           NEW after \in Wanted(p), May(p, after)
    PROVE  LET c == [t \in Task |-> IF t \in req[p].tasks THEN after[t] ELSE md[t]]
           IN  c \in Boards /\ Resolved(c)
<1> DEFINE c == [t \in Task |-> IF t \in req[p].tasks THEN after[t] ELSE md[t]]
           m == req[p].main
<1>1. md \in Boards /\ Resolved(md)
  <2>1. intent = NoIntent
    BY DEF IInv, Exclusive, Holding
  <2> QED
    BY <2>1, NoIntentOneBoard DEF IInv, BoardsResolved
<1>2. /\ req[p].kind \in Kinds \cap {"create", "update", "replace", "delete", "umbrella"}
      /\ req[p].tasks \subseteq Task
      /\ req[p].kind # "umbrella" => req[p].tasks = {m}
  BY DEF IInv, CallsOK, Calling, Holding
<1>3. CASE req[p].kind \in {"create", "update", "replace"}
  <2>1. PICK r \in Record : m \notin r.blockers /\ after = [u \in {m} |-> r]
    BY <1>3 DEF Wanted
  <2>2. m \in Task /\ after[m] = r /\ req[p].tasks = {m}
    BY <1>2, <1>3, <2>1
  <2>3. Completable(r, {}) /\ (md[m] # Gone /\ Reopens(m, r) => DoneDependents(m) = {})
    BY <1>3, <2>2 DEF May, MayCreate, MayUpdate, MayReplace
  <2>4. c = [u \in Task |-> IF u = m THEN r ELSE md[u]]
    BY <2>2
  <2>5. Resolved([u \in Task |-> IF u = m THEN r ELSE md[u]])
    BY <1>1, <2>1, <2>2, <2>3, OneWritten
  <2>6. [u \in Task |-> IF u = m THEN r ELSE md[u]] \in Boards
    BY <1>1 DEF Boards
  <2> QED
    BY <2>4, <2>5, <2>6
<1>4. CASE req[p].kind = "umbrella"
  <2>1. MayFinish(p)
    BY <1>4 DEF May
  <2>2. \A t \in req[p].tasks : md[t] # Gone /\ Completable(Finished(md[t]), req[p].tasks)
    BY <2>1 DEF MayFinish
  <2>3. after = [u \in req[p].tasks |-> IF md[u] = Gone THEN Gone ELSE Finished(md[u])]
    BY <1>4 DEF Wanted
  <2>4. c = [u \in Task |-> IF u \in req[p].tasks THEN Finished(md[u]) ELSE md[u]]
    BY <2>2, <2>3
  <2>5. Marker \in Body /\ "done" \in Status
    BY <1>2, <1>4, MarkerAssumption
  <2> QED
    BY <1>1, <1>2, <2>2, <2>4, <2>5, AllFinished
<1> QED
  BY <1>2, <1>3, <1>4

LEMMA Checking ==
    ASSUME IInv, "delete" \notin Kinds, NEW p \in Procs, NEW after \in Wanted(p), Check(p, after)
    PROVE  IInv'
<1>1. pc[p] = "locked" /\ UNCHANGED <<md, intent>> /\ May(p, after)
  BY DEF Check
<1>2. /\ CallsOK' /\ Exclusive' /\ pc'[p] \in Writing
      /\ req'[p].tasks = req[p].tasks /\ req'[p].after = after
  BY Checked DEF IInv
<1>3. PlansResolved'
  <2>1. ASSUME NEW q \in Procs, pc'[q] \in Writing
        PROVE  Planned(q)' \in Boards /\ Resolved(Planned(q)')
    <3>1. q = p
      BY <1>2, <2>1 DEF Exclusive, Holding
    <3>2. Planned(p)' = [t \in Task |-> IF t \in req[p].tasks THEN after[t] ELSE md[t]]
      BY <1>1, <1>2 DEF Planned
    <3> QED
      BY <1>1, <3>1, <3>2, Accepted
  <2> QED
    BY <2>1 DEF PlansResolved, Boards, Resolved
<1>4. BoardsResolved'
  BY <1>1 DEF IInv, BoardsResolved, Boards, Resolved, RolledBack, Kept, Effective
<1> QED
  BY <1>2, <1>3, <1>4 DEF IInv

\* The files a mutation replaces, all of them or some when it is interrupted.
LEMMA Replacing ==
    ASSUME IInv, NEW p \in Procs,
           Commit(p) \/ \E mds, ledgers \in SUBSET req[p].tasks : Interrupt(p, mds, ledgers)
    PROVE  IInv'
<1>1. /\ pc[p] = "prepared" /\ intent = NoIntent /\ CallsOK' /\ Exclusive'
      /\ \A q \in Procs : pc'[q] \notin Holding
  BY Written DEF IInv
<1>2. Planned(p) \in Boards /\ Resolved(Planned(p))
  BY <1>1 DEF IInv, PlansResolved, Writing
<1>3. md \in Boards /\ Resolved(md)
  BY <1>1, NoIntentOneBoard DEF IInv, BoardsResolved
<1>4. CallsOK' /\ Exclusive' /\ PlansResolved'
  BY <1>1 DEF PlansResolved, Holding
<1>5. req[p].tasks \subseteq Task /\ \A t \in Task : t \in req[p].tasks => After(p)[t].md = Planned(p)[t]
  BY <1>1 DEF IInv, CallsOK, Calling, Holding, Writing, After, Planned
<1>6. BoardsResolved'
  <2>1. CASE Commit(p)
    <3>1. md' = Planned(p)
      BY <1>3, <1>5, <2>1 DEF Commit, Activate, Planned, Boards
    <3>2. RolledBack' = md' /\ Kept' = md'
      <4>1. intent' = NoIntent /\ md' \in Boards'
        BY <1>1, <1>2, <2>1, <3>1 DEF Commit, Boards
      <4>2. intent'.tasks = {}
        BY <4>1 DEF NoIntent
      <4> QED
        BY <4>1, <4>2 DEF RolledBack, Kept, Effective, Boards
    <3> QED
      BY <1>2, <3>1, <3>2 DEF BoardsResolved, Boards, Resolved
  <2>2. CASE \E mds, ledgers \in SUBSET req[p].tasks : Interrupt(p, mds, ledgers)
    <3>1. PICK mds \in SUBSET req[p].tasks, ledgers \in SUBSET req[p].tasks :
             Interrupt(p, mds, ledgers)
      BY <2>2
    <3>2. md' = [t \in Task |-> IF t \in mds THEN Planned(p)[t] ELSE md[t]]
      BY <1>5, <3>1 DEF Interrupt, Activate
    <3>3. /\ intent'.tasks = req[p].tasks
          /\ \A t \in req[p].tasks :
                intent'.before[t].md = md[t] /\ intent'.after[t].md = Planned(p)[t]
      BY <1>5, <3>1 DEF Interrupt, Before, After, Planned
    <3>4. RolledBack' = md
      BY <1>3, <3>2, <3>3 DEF RolledBack, Effective, Boards
    <3>5. Kept' = Planned(p)
      BY <3>2, <3>3 DEF Kept, Planned
    <3>6. md' \in Boards
      BY <1>2, <1>3, <3>2 DEF Boards
    <3> QED
      BY <1>2, <1>3, <3>4, <3>5, <3>6 DEF BoardsResolved, Boards, Resolved
  <2> QED
    BY <2>1, <2>2
<1> QED
  BY <1>4, <1>6 DEF IInv

LEMMA Recovering ==
    ASSUME IInv, NEW p \in Procs, Recover(p)
    PROVE  IInv'
<1>1. intent' = NoIntent
  BY DEF Recover
<1>2. CallsOK' /\ Exclusive' /\ PlansResolved'
  BY Settled DEF IInv, PlansResolved
<1>3. md' \in Boards /\ Resolved(md')
  <2>1. CASE Completed
    <3>1. md' = md /\ md = Kept
      BY <2>1 DEF Recover, Completed, Kept, IInv, BoardsResolved, Boards
    <3> QED
      BY <3>1 DEF IInv, BoardsResolved
  <2>2. CASE ~Completed
    <3>1. md' = RolledBack
      BY <2>2 DEF Recover, RolledBack, Effective
    <3> QED
      BY <3>1 DEF IInv, BoardsResolved
  <2> QED
    BY <2>1, <2>2
<1>4. RolledBack' = md' /\ Kept' = md'
  <2>1. intent'.tasks = {}
    BY <1>1 DEF NoIntent
  <2> QED
    BY <1>3, <2>1 DEF RolledBack, Kept, Effective, Boards
<1> QED
  BY <1>2, <1>3, <1>4 DEF IInv, BoardsResolved, Boards, Resolved

\* People write what they like into the body of a file.
LEMMA Editing ==
    ASSUME IInv, "add" \notin Edits, NEW t \in Task, NEW r \in Record, Edit(t, r)
    PROVE  IInv'
<1>1. /\ md[t] # Gone /\ r = [md[t] EXCEPT !.body = r.body] /\ t \notin intent.tasks
      /\ md' = [md EXCEPT ![t] = r] /\ UNCHANGED <<board, pc, req, intent>>
  BY DEF Edit
<1>2. md \in Boards /\ md' \in Boards /\ r # Gone
  BY <1>1, RecordAssumption DEF IInv, BoardsResolved, Boards
<1>3. r.status = md[t].status /\ r.blockers = md[t].blockers
  BY <1>1, <1>2 DEF Boards, Record
<1>4. CallsOK' /\ Exclusive'
  BY <1>1 DEF IInv, CallsOK, Exclusive, IsCall
<1>5. PlansResolved'
  <2>1. ASSUME NEW q \in Procs, pc'[q] \in Writing
        PROVE  Planned(q)' \in Boards /\ Resolved(Planned(q)')
    <3>1. Planned(q) \in Boards /\ Resolved(Planned(q))
      BY <1>1, <2>1 DEF IInv, PlansResolved
    <3>2. \A u \in Task : Planned(q)'[u] = IF u = t /\ t \notin req[q].tasks THEN r ELSE Planned(q)[u]
      BY <1>1, <1>2 DEF Planned, Boards
    <3>3. Planned(q)' \in Boards
      BY <3>1, <3>2 DEF Boards, Planned
    <3>4. t \notin req[q].tasks => Planned(q)[t] = md[t]
      BY DEF Planned
    <3>5. Alike(Planned(q), Planned(q)')
      BY <1>1, <1>2, <1>3, <3>2, <3>4 DEF Alike
    <3> QED
      BY <3>1, <3>3, <3>5, AlikeResolved
  <2> QED
    BY <2>1 DEF PlansResolved, Boards, Resolved
<1>6. BoardsResolved'
  <2>1. /\ \A u \in Task : RolledBack'[u] = IF u = t THEN r ELSE RolledBack[u]
        /\ \A u \in Task : Kept'[u] = IF u = t THEN r ELSE Kept[u]
        /\ RolledBack[t] = md[t] /\ Kept[t] = md[t]
    BY <1>1, <1>2 DEF RolledBack, Kept, Effective, Boards
  <2>2. RolledBack \in Boards /\ Resolved(RolledBack) /\ Kept \in Boards /\ Resolved(Kept)
    BY DEF IInv, BoardsResolved
  <2>3. RolledBack' \in Boards /\ Kept' \in Boards
    BY <2>1, <2>2 DEF Boards, RolledBack, Kept
  <2>4. Alike(RolledBack, RolledBack') /\ Alike(Kept, Kept')
    BY <1>1, <1>2, <1>3, <2>1 DEF Alike
  <2>5. Resolved(RolledBack') /\ Resolved(Kept')
    BY <2>2, <2>3, <2>4, AlikeResolved
  <2> QED
    BY <1>2, <2>3, <2>5 DEF BoardsResolved, Boards, Resolved
<1> QED
  BY <1>4, <1>5, <1>6 DEF IInv

(***************************************************************************)
(* The theorem.                                                            *)
(***************************************************************************)

\* DoneResolved holds in every reachable state: whatever creations, updates,
\* replacements and umbrella finalizations run at the same time and are killed,
\* recovered or reconciled, no done task has a blocker that is missing or open.
THEOREM DoneStaysResolved ==
    ASSUME "delete" \notin Kinds, "add" \notin Edits
    PROVE  Spec => []DoneResolved
<1>1. Init => IInv
  <2> SUFFICES ASSUME Init PROVE IInv
    OBVIOUS
  <2>1. CallsOK
    <3>1. IsCall(NoCall)
      BY DEF IsCall, NoCall
    <3>2. pc = [p \in Procs |-> "idle"] /\ req = [p \in Procs |-> NoCall]
      BY DEF Init
    <3> QED
      BY <3>1, <3>2 DEF CallsOK, Calling, Holding, Writing
  <2>2. Exclusive /\ PlansResolved
    BY DEF Init, Exclusive, PlansResolved, Holding, Writing
  <2>3. md \in Boards /\ Resolved(md)
    <3>1. md \in Boards /\ \A t \in Task : md[t] # Gone => Completable(md[t], {})
      BY DEF Init, Boards
    <3>2. ASSUME NEW t \in Task, md[t] # Gone, md[t].status = "done", NEW u \in md[t].blockers
          PROVE  md[u] # Gone /\ md[u].status \in Terminal
      BY <3>1, <3>2 DEF Completable, Unmet
    <3> QED
      BY <3>1, <3>2 DEF Resolved
  <2>4. BoardsResolved
    BY <2>3, NoIntentOneBoard DEF Init, BoardsResolved
  <2> QED
    BY <2>1, <2>2, <2>4 DEF IInv
<1>2. IInv /\ [Next]_vars => IInv'
  <2> SUFFICES ASSUME IInv, [Next]_vars PROVE IInv'
    OBVIOUS
  <2>1. ASSUME NEW p \in Procs, Begin(p) PROVE IInv'
    BY <2>1, Beginning, NothingWritten DEF IInv
  <2>2. ASSUME NEW p \in Procs, Progress(p) PROVE IInv'
    <3>1. CASE Quiet
      BY <3>1, NothingWritten
    <3>2. CASE ~Quiet
      BY <2>2, <3>2, Stopping, Advancing, Checking, Recovering, Replacing DEF Progress, IInv
    <3> QED
      BY <3>1, <3>2
  <2>3. ASSUME NEW p \in Procs, Failure(p) PROVE IInv'
    BY <2>3, Stopping, NothingWritten, Replacing DEF Failure, IInv
  <2>4. ASSUME NEW t \in Task, NEW r \in Record, Edit(t, r) PROVE IInv'
    BY <2>4, Editing
  <2>5. CASE UNCHANGED vars
    <3>1. UNCHANGED <<md, board, pc, req, intent>>
      BY <2>5 DEF vars
    <3>2. CallsOK' /\ Exclusive'
      BY <3>1 DEF IInv, CallsOK, Exclusive, IsCall
    <3>3. Quiet
      BY <3>1, <3>2 DEF Quiet, SamePlan
    <3> QED
      BY <3>3, NothingWritten
  <2> QED
    BY <2>1, <2>2, <2>3, <2>4, <2>5 DEF Next
<1>3. IInv => DoneResolved
  <2> SUFFICES ASSUME IInv, NEW t \in Task, Effective(t) # Gone, Effective(t).status = "done",
                      NEW b \in Effective(t).blockers
               PROVE  Effective(b) # Gone /\ Effective(b).status \in Terminal
    BY DEF DoneResolved
  <2>1. RolledBack \in Boards /\ Resolved(RolledBack) /\ RolledBack[t] = Effective(t)
    BY DEF IInv, BoardsResolved, RolledBack
  <2>2. b \in Task
    BY <2>1 DEF Boards, Record
  <2> QED
    BY <2>1, <2>2 DEF Resolved, RolledBack
<1> QED
  BY <1>1, <1>2, <1>3, PTL DEF Spec

(***************************************************************************)
(* The ledgers of a board, for any number of tasks and processes, where no *)
(* writer is interrupted while a reconcile command is under way: every     *)
(* ledger is an unbroken history that ends in what its file says, nothing  *)
(* is ever taken out of one, and every intent can be recovered.            *)
(*                                                                         *)
(* An event is right when it is prepared.  It is still right when it is    *)
(* appended because its ledger has not changed since: whoever appends to a *)
(* ledger holds the lock of its task, and an intent is settled only when   *)
(* nobody is about to append.                                              *)
(***************************************************************************)

Reconcilers == {"reconcile", "append"}

\* A history without a fork, in which updates and reconciliations start where
\* the event before ended.
Sound(s) ==
    \A i \in 1..Len(s) :
        /\ s[i].prev = i - 1
        /\ i > 1 /\ s[i].op \in {"update", "reconcile"} => s[i].before = s[i - 1].after

\* e may follow s.
Follows(s, e) ==
    /\ e.prev = Len(s)
    /\ s # <<>> /\ e.op \in {"update", "reconcile"} => e.before = Last(s).after

(***************************************************************************)
(* The inductive invariant.                                                *)
(***************************************************************************)

\* Files, and the images of an intent.
FilesOK ==
    /\ md \in Boards /\ ledger \in [Task -> Seq(Event)] /\ intent.tasks \subseteq Task
    /\ \A t \in Task : Sound(ledger[t])
    /\ \A t \in intent.tasks :
          /\ intent.before[t] \in Image /\ intent.after[t] \in Image
          /\ md[t] \in {intent.before[t].md, intent.after[t].md}
          /\ ledger[t] \in {intent.before[t].ledger, intent.after[t].ledger}
          /\ Sound(intent.before[t].ledger) /\ Sound(intent.after[t].ledger)
          /\ IsPrefix(intent.before[t].ledger, intent.after[t].ledger)

\* Where there is an intent, no reconcile command is under way.
Apart == intent # NoIntent => Interrupts = "apart" /\ \A p \in Procs : pc[p] \notin Reconcilers

\* What p has read and means to write.
Typed(p) ==
    /\ pc[p] \in Writing =>
          /\ req[p].read \in [req[p].tasks -> Record \cup {Gone}]
          /\ req[p].after \in [req[p].tasks -> Record \cup {Gone}]
    /\ pc[p] \in {"checked"} \cup Reconcilers =>
          req[p].main \in Task /\ req[p].read[req[p].main] \in Record
    /\ pc[p] = "checked" => req[p].kind # "umbrella"

\* The locks of the tasks that p works on are its own.
Locked(p) ==
    /\ pc[p] \in {"locked"} \cup Writing => \A t \in req[p].tasks : taskLock[t] = p
    /\ pc[p] \in Reconcilers => taskLock[req[p].main] = p

\* What p has prepared still follows the ledgers.
UpToDate(p) ==
    /\ pc[p] \in {"ready", "prepared"} =>
          \A t \in req[p].tasks : Operation(p, t) = "update" => LastAfter(t) = req[p].read[t]
    /\ pc[p] = "prepared" => \A t \in req[p].tasks : req[p].tip[t] = Len(ledger[t])
    /\ pc[p] = "append" =>
          req[p].events = ReconcileEvents(req[p].main, req[p].read[req[p].main])

Works(p) == Typed(p) /\ Locked(p) /\ UpToDate(p)

LedgerInv ==
    /\ CallsOK /\ Exclusive
    /\ taskLock \in [Task -> Procs \cup {NoProc}]
    /\ FilesOK /\ Apart
    /\ \A p \in Procs : Works(p)

\* No ledger loses an event, whether or not the intent is rolled back.
Grows == \A t \in Task : IsPrefix(EffectiveLedger(t), EffectiveLedger(t)')

(***************************************************************************)
(* Histories.                                                              *)
(***************************************************************************)

LEMMA PrefixItself ==
    ASSUME NEW S, NEW s \in Seq(S)
    PROVE  IsPrefix(s, s)
  BY DEF IsPrefix

LEMMA PrefixAppended ==
    ASSUME NEW S, NEW s \in Seq(S), NEW e \in S
    PROVE  /\ Append(s, e) \in Seq(S) /\ Append(s, e) # <<>>
           /\ IsPrefix(s, Append(s, e)) /\ Last(Append(s, e)) = e
<1>1. /\ Append(s, e) \in Seq(S) /\ Len(Append(s, e)) = Len(s) + 1
      /\ Append(s, e)[Len(s) + 1] = e
      /\ \A i \in 1..Len(s) : Append(s, e)[i] = s[i]
  OBVIOUS
<1>2. SubSeq(s, 1, Len(s)) = SubSeq(Append(s, e), 1, Len(s))
  <2>1. SubSeq(s, 1, Len(s)) = s
    BY SubSeqFull
  <2>2. Append(s, e) = s \o <<e>> /\ <<e>> \in Seq(S)
    BY AppendIsConcat
  <2>3. SubSeq(s \o <<e>>, 1, Len(s)) = SubSeq(s, 1, Len(s))
    BY <2>2, SubSeqOfConcat1
  <2> QED
    BY <2>2, <2>3
<1> QED
  BY <1>1, <1>2 DEF IsPrefix, Last

LEMMA SoundAppended ==
    ASSUME NEW s \in Seq(Event), NEW e \in Event, Sound(s), Follows(s, e)
    PROVE  Sound(Append(s, e))
<1> DEFINE u == Append(s, e)
<1>1. /\ u \in Seq(Event) /\ Len(u) = Len(s) + 1 /\ u[Len(s) + 1] = e /\ Len(s) \in Nat
      /\ \A i \in 1..Len(s) : u[i] = s[i]
  OBVIOUS
<1>2. SUFFICES ASSUME NEW i \in 1..Len(u)
               PROVE  /\ u[i].prev = i - 1
                      /\ i > 1 /\ u[i].op \in {"update", "reconcile"} => u[i].before = u[i - 1].after
  BY DEF Sound
<1>3. CASE i \in 1..Len(s)
  <2>1. u[i] = s[i] /\ (i > 1 => u[i - 1] = s[i - 1])
    BY <1>1, <1>3
  <2> QED
    BY <1>3, <2>1 DEF Sound
<1>4. CASE i = Len(s) + 1
  <2>1. u[i] = e /\ (i > 1 => s # <<>> /\ u[i - 1] = Last(s))
    BY <1>1, <1>4 DEF Last
  <2> QED
    BY <1>1, <1>4, <2>1 DEF Follows
<1> QED
  BY <1>1, <1>2, <1>3, <1>4

\* What reconciliation appends to a ledger makes it say what the file says.
LEMMA ReconciledSound ==
    ASSUME FilesOK, NEW t \in Task, NEW r \in Record
    PROVE  LET s == ledger[t] \o ReconcileEvents(t, r)
           IN  s \in Seq(Event) /\ Sound(s) /\ IsPrefix(ledger[t], s) /\ s # <<>> /\ Last(s).after = r
<1> DEFINE s == ledger[t]
<1>1. s \in Seq(Event) /\ Sound(s)
  BY DEF FilesOK
<1>2. ASSUME NEW e \in Event, Follows(s, e), e.after = r, ReconcileEvents(t, r) = <<e>>
      PROVE  LET u == s \o ReconcileEvents(t, r)
             IN  u \in Seq(Event) /\ Sound(u) /\ IsPrefix(s, u) /\ u # <<>> /\ Last(u).after = r
  <2>1. s \o ReconcileEvents(t, r) = Append(s, e)
    <3>1. s \o <<e>> = Append(s, e)
      BY <1>1, AppendIsConcat
    <3> QED
      BY <1>2, <3>1
  <2>2. /\ Append(s, e) \in Seq(Event) /\ IsPrefix(s, Append(s, e))
        /\ Append(s, e) # <<>> /\ Last(Append(s, e)) = e
    BY <1>1, PrefixAppended
  <2>3. Sound(Append(s, e))
    BY <1>1, <1>2, SoundAppended
  <2> HIDE DEF s
  <2> QED
    BY <1>2, <2>1, <2>2, <2>3
<1>3. CASE s = <<>>
  <2> DEFINE e == NewEvent("recovery", Gone, r, 0)
  <2>1. ReconcileEvents(t, r) = <<e>>
    BY <1>3 DEF ReconcileEvents
  <2>2. e \in Event /\ e.after = r /\ Follows(s, e)
    BY <1>3 DEF NewEvent, Event, Follows
  <2> QED
    BY <1>2, <2>1, <2>2
<1>4. CASE s # <<>> /\ LastAfter(t) # r
  <2> DEFINE e == NewEvent("reconcile", LastAfter(t), r, Len(s))
  <2>1. ReconcileEvents(t, r) = <<e>>
    BY <1>4 DEF ReconcileEvents
  <2>2. LastAfter(t) = Last(s).after /\ Last(s) \in Event /\ Len(s) \in Nat
    BY <1>1, <1>4 DEF LastAfter, Last
  <2>3. Last(s).after \in Record \cup {Tombstone}
    BY <2>2 DEF Event
  <2>4. e \in Event /\ e.after = r /\ Follows(s, e)
    BY <2>2, <2>3 DEF NewEvent, Event, Follows
  <2> QED
    BY <1>2, <2>1, <2>4
<1>5. CASE s # <<>> /\ LastAfter(t) = r
  <2>1. ReconcileEvents(t, r) = <<>>
    BY <1>5 DEF ReconcileEvents
  <2>2. s \o ReconcileEvents(t, r) = s
    BY <1>1, <2>1, ConcatEmptySeq
  <2> QED
    BY <1>1, <1>5, <2>2, PrefixItself DEF LastAfter
<1> QED
  BY <1>3, <1>4, <1>5

\* The event that a mutation has prepared may follow the ledger of its task.
LEMMA PreparedSound ==
    ASSUME LedgerInv, NEW p \in Procs, pc[p] = "prepared", NEW t \in req[p].tasks
    PROVE  LET s == Append(ledger[t], PreparedEvent(p, t))
           IN  t \in Task /\ s \in Seq(Event) /\ Sound(s) /\ IsPrefix(ledger[t], s)
<1>1. t \in Task
  BY DEF LedgerInv, CallsOK, Calling, Holding, Writing
<1>2. ledger[t] \in Seq(Event) /\ Sound(ledger[t])
  BY <1>1 DEF LedgerInv, FilesOK
<1>3. /\ req[p].read[t] \in Record \cup {Gone} /\ req[p].after[t] \in Record \cup {Gone}
      /\ req[p].tip[t] = Len(ledger[t])
      /\ Operation(p, t) = "update" => LastAfter(t) = req[p].read[t]
  BY DEF LedgerInv, Works, Typed, UpToDate, Writing
<1>4. Operation(p, t) \in {"create", "archive", "umbrella-finalize", "update"}
  BY DEF Operation
<1>5. PreparedEvent(p, t) \in Event
  BY <1>2, <1>3, <1>4 DEF PreparedEvent, NewEvent, Event
<1>6. Follows(ledger[t], PreparedEvent(p, t))
  <2>1. ledger[t] # <<>> => LastAfter(t) = Last(ledger[t]).after
    BY DEF LastAfter
  <2> QED
    BY <1>3, <1>4, <2>1 DEF PreparedEvent, NewEvent, Follows
<1> QED
  BY <1>1, <1>2, <1>5, <1>6, PrefixAppended, SoundAppended

(***************************************************************************)
(* Who changes what.                                                       *)
(***************************************************************************)

\* A process changes neither the call nor the locks of another.
LEMMA OthersSame ==
    ASSUME LedgerInv, NEW p \in Procs, Begin(p) \/ Progress(p) \/ Failure(p)
    PROVE  /\ taskLock' \in [Task -> Procs \cup {NoProc}]
           /\ \A q \in Procs \ {p} : pc'[q] = pc[q] /\ req'[q] = req[q]
           /\ \A q \in Procs \ {p}, t \in Task : taskLock[t] = q => taskLock'[t] = q
<1>1. \A q \in Procs \ {p} : pc'[q] = pc[q] /\ req'[q] = req[q]
  <2>1. CASE Begin(p)
    BY <2>1 DEF Begin, CallOne, CallUmbrella, Call, ReconcileRead, Goto, LedgerInv, CallsOK
  <2>2. CASE Progress(p)
    BY <2>2 DEF Progress, RefuseFrozen, TakeBoard, Recover, RecoverRefuse, LockTimeout, TakeLock,
                Check, Refuse, Replay, Reconcile, RefuseLate, Prepare, Commit, ReconcilePrepare,
                ReconcileAppend, ReconcileStale, Goto, Return, LedgerInv, CallsOK
  <2>3. CASE Failure(p)
    BY <2>3 DEF Failure, Fail, Interrupt, Crash, Goto, Return, LedgerInv, CallsOK
  <2> QED
    BY <2>1, <2>2, <2>3
<1>2. \/ taskLock' = taskLock
      \/ taskLock' = [t \in Task |-> IF taskLock[t] = p THEN NoProc ELSE taskLock[t]]
      \/ \E t \in Task : taskLock[t] = NoProc /\ taskLock' = [taskLock EXCEPT ![t] = p]
  <2>1. CASE Begin(p)
    BY <2>1 DEF Begin, CallOne, CallUmbrella, Call, ReconcileRead
  <2>2. CASE Progress(p)
    BY <2>2 DEF Progress, RefuseFrozen, TakeBoard, Recover, RecoverRefuse, LockTimeout, TakeLock,
                Check, Refuse, Replay, Reconcile, RefuseLate, Prepare, Commit, ReconcilePrepare,
                ReconcileAppend, ReconcileStale, Return, Unlock
  <2>3. CASE Failure(p)
    BY <2>3 DEF Failure, Fail, Interrupt, Crash, Return, Unlock
  <2> QED
    BY <2>1, <2>2, <2>3
<1>3. taskLock \in [Task -> Procs \cup {NoProc}]
  BY DEF LedgerInv
<1>4. /\ taskLock' \in [Task -> Procs \cup {NoProc}]
      /\ \A q \in Procs \ {p}, t \in Task : taskLock[t] = q => taskLock'[t] = q
  BY <1>2, <1>3, ProcsAssumption
<1> QED
  BY <1>1, <1>4

\* A process at which nothing happens, while its ledgers stay as they are.
LEMMA Bystander ==
    ASSUME LedgerInv, NEW q \in Procs, pc'[q] = pc[q], req'[q] = req[q],
           \A t \in Task : taskLock[t] = q => taskLock'[t] = q /\ ledger'[t] = ledger[t]
    PROVE  Works(q)'
<1>1. Works(q)
  BY DEF LedgerInv
<1>2. Typed(q)'
  BY <1>1 DEF Works, Typed
<1>3. pc[q] \in {"locked"} \cup Writing =>
         \A t \in req[q].tasks : t \in Task /\ taskLock[t] = q
  BY <1>1 DEF LedgerInv, CallsOK, Calling, Holding, Works, Locked
<1>4. pc[q] \in Reconcilers => req[q].main \in Task /\ taskLock[req[q].main] = q
  BY <1>1 DEF Works, Locked, Typed
<1>5. Locked(q)'
  BY <1>3, <1>4 DEF Locked
<1>6. UpToDate(q)'
  <2>1. ASSUME pc[q] \in {"ready", "prepared"}, NEW t \in req[q].tasks
        PROVE  ledger'[t] = ledger[t]
    BY <1>3, <2>1 DEF Writing
  <2>2. ASSUME pc[q] = "append" PROVE ledger'[req[q].main] = ledger[req[q].main]
    BY <1>4, <2>2 DEF Reconcilers
  <2>3. pc[q] \in {"ready", "prepared"} =>
           \A t \in req[q].tasks : Operation(q, t)' = "update" => LastAfter(t)' = req[q].read[t]
    BY <1>1, <2>1 DEF Works, UpToDate, Operation, LastAfter
  <2>4. pc[q] = "prepared" => \A t \in req[q].tasks : req[q].tip[t] = Len(ledger'[t])
    BY <1>1, <2>1 DEF Works, UpToDate
  <2>5. pc[q] = "append" =>
           req[q].events = ReconcileEvents(req[q].main, req[q].read[req[q].main])'
    BY <1>1, <2>2 DEF Works, UpToDate, ReconcileEvents, LastAfter
  <2> QED
    BY <2>3, <2>4, <2>5 DEF UpToDate
<1> QED
  BY <1>2, <1>5, <1>6 DEF Works

\* Nothing is claimed of a process that has no lock of a task.
LEMMA Resting ==
    ASSUME NEW p, pc'[p] \notin {"locked"} \cup Writing \cup Reconcilers
    PROVE  Works(p)'
  BY DEF Works, Typed, Locked, UpToDate, Writing, Reconcilers

LEMMA FilesSame ==
    ASSUME FilesOK, UNCHANGED <<md, ledger, intent>>
    PROVE  FilesOK' /\ Grows
<1>1. FilesOK'
  BY DEF FilesOK, Boards, Sound
<1>2. ASSUME NEW t \in Task PROVE IsPrefix(EffectiveLedger(t), EffectiveLedger(t)')
  <2>1. EffectiveLedger(t)' = EffectiveLedger(t) /\ EffectiveLedger(t) \in Seq(Event)
    BY DEF EffectiveLedger, FilesOK, Image
  <2> QED
    BY <2>1, PrefixItself
<1> QED
  BY <1>1, <1>2 DEF Grows

\* What is left to show of a step: about the files, and about the process itself.
LEMMA Stepping ==
    ASSUME LedgerInv, NEW p \in Procs, Begin(p) \/ Progress(p) \/ Failure(p),
           FilesOK', Apart', Works(p)',
           \A t \in Task : ledger'[t] = ledger[t] \/ taskLock[t] = p
    PROVE  LedgerInv'
<1>1. CallsOK' /\ Exclusive'
  BY LockKept DEF LedgerInv, Next
<1>2. ASSUME NEW q \in Procs, q # p PROVE Works(q)'
  BY <1>2, OthersSame, Bystander
<1> QED
  BY <1>1, <1>2, OthersSame DEF LedgerInv

LEMMA NoIntentNoFiles ==
    ASSUME intent = NoIntent
    PROVE  intent.tasks = {} /\ \A t \in Task : EffectiveLedger(t) = ledger[t]
  BY DEF NoIntent, EffectiveLedger

(***************************************************************************)
(* Steps that write no file.                                               *)
(***************************************************************************)

\* They leave the intent, and only ReconcileRead begins a reconciliation.
LEMMA NoFileWritten ==
    ASSUME LedgerInv, NEW p \in Procs, Begin(p) \/ Progress(p) \/ Failure(p),
           UNCHANGED <<md, ledger, intent>>, Works(p)',
           pc'[p] \in Reconcilers => pc[p] \in Reconcilers \/ intent = NoIntent
    PROVE  LedgerInv' /\ Grows
<1>1. FilesOK' /\ Grows
  BY FilesSame DEF LedgerInv
<1>2. Apart'
  BY OthersSame DEF LedgerInv, Apart
<1> QED
  BY <1>1, <1>2, Stepping

LEMMA StoppingKeeps ==
    ASSUME LedgerInv, NEW p \in Procs, Progress(p) \/ Failure(p),
           \/ RefuseFrozen(p) \/ RecoverRefuse(p) \/ LockTimeout(p) \/ Replay(p) \/ RefuseLate(p)
           \/ \E after : Refuse(p, after)
           \/ ReconcileStale(p) \/ Fail(p) \/ Crash(p)
    PROVE  LedgerInv' /\ Grows
<1>1. UNCHANGED <<md, ledger, intent>>
  BY DEF RefuseFrozen, RecoverRefuse, LockTimeout, Replay, RefuseLate, Refuse, ReconcileStale,
         Fail, Crash
<1>2. pc'[p] \in {"idle", "dead"}
  BY DEF RefuseFrozen, RecoverRefuse, LockTimeout, Replay, RefuseLate, Refuse, ReconcileStale,
         Fail, Crash, Return, Goto, LedgerInv, CallsOK
<1>3. Works(p)' /\ pc'[p] \notin Reconcilers
  BY <1>2, Resting DEF Writing, Reconcilers
<1> QED
  BY <1>1, <1>3, NoFileWritten

LEMMA BeginningKeeps ==
    ASSUME LedgerInv, NEW p \in Procs, Begin(p)
    PROVE  LedgerInv' /\ Grows
<1>1. CASE \E kind, main, tasks, expected : Call(p, kind, main, tasks, expected)
  <2>1. UNCHANGED <<md, ledger, intent>> /\ pc'[p] = "waiting"
    BY <1>1 DEF Call, Goto, LedgerInv, CallsOK
  <2>2. Works(p)' /\ pc'[p] \notin Reconcilers
    BY <2>1, Resting DEF Writing, Reconcilers
  <2> QED
    BY <2>1, <2>2, NoFileWritten
<1>2. CASE \E t \in Task : ReconcileRead(p, t)
  <2>1. PICK t \in Task : ReconcileRead(p, t)
    BY <1>2
  <2>2. /\ UNCHANGED <<md, ledger, intent>> /\ pc'[p] = "reconcile"
        /\ req'[p].main = t /\ req'[p].read[t] = md[t] /\ taskLock'[t] = p
    BY <2>1 DEF ReconcileRead, Goto, LedgerInv, CallsOK, NoCall
  <2>3. md[t] \in Record
    BY <2>1 DEF ReconcileRead, LedgerInv, FilesOK, Boards
  <2>4. Works(p)'
    BY <2>2, <2>3 DEF Works, Typed, Locked, UpToDate, Writing, Reconcilers
  <2>5. intent = NoIntent
    BY <2>1 DEF ReconcileRead, LedgerInv, Apart
  <2> QED
    BY <2>2, <2>4, <2>5, NoFileWritten
<1> QED
  BY <1>1, <1>2 DEF Begin, CallOne, CallUmbrella

LEMMA LockingKeeps ==
    ASSUME LedgerInv, NEW p \in Procs, TakeBoard(p) \/ \E t \in Task : TakeLock(p, t)
    PROVE  LedgerInv' /\ Grows
<1>1. Progress(p) /\ UNCHANGED <<md, ledger, intent>>
  BY DEF Progress, TakeBoard, TakeLock
<1>2. CASE TakeBoard(p)
  <2>1. pc'[p] = "board"
    BY <1>2 DEF TakeBoard, Goto, LedgerInv, CallsOK
  <2>2. Works(p)' /\ pc'[p] \notin Reconcilers
    BY <2>1, Resting DEF Writing, Reconcilers
  <2> QED
    BY <1>1, <2>2, NoFileWritten
<1>3. CASE \E t \in Task : TakeLock(p, t)
  <2>1. pc'[p] = "board" \/ (pc'[p] = "locked" /\ \A u \in req[p].tasks : taskLock'[u] = p)
    BY <1>3 DEF TakeLock, Goto, LedgerInv, CallsOK
  <2>2. req' = req
    BY <1>3 DEF TakeLock
  <2>3. Works(p)' /\ pc'[p] \notin Reconcilers
    BY <2>1, <2>2 DEF Works, Typed, Locked, UpToDate, Writing, Reconcilers
  <2> QED
    BY <1>1, <2>3, NoFileWritten
<1> QED
  BY <1>2, <1>3

LEMMA WantedTyped ==
    ASSUME LedgerInv, NEW p \in Procs, pc[p] = "locked", NEW after \in Wanted(p)
    PROVE  after \in [req[p].tasks -> Record \cup {Gone}]
<1>1. /\ req[p].kind \in Kinds \cap {"create", "update", "replace", "delete", "umbrella"}
      /\ req[p].tasks \subseteq Task
      /\ req[p].kind # "umbrella" => req[p].tasks = {req[p].main}
  BY DEF LedgerInv, CallsOK, Calling, Holding
<1>2. CASE req[p].kind \in {"create", "update", "replace"}
  BY <1>1, <1>2 DEF Wanted
<1>3. CASE req[p].kind = "delete"
  BY <1>1, <1>3 DEF Wanted
<1>4. CASE req[p].kind = "umbrella"
  <2>1. Marker \in Body /\ "done" \in Status
    BY <1>1, <1>4, MarkerAssumption
  <2>2. ASSUME NEW t \in req[p].tasks, md[t] # Gone PROVE Finished(md[t]) \in Record
    <3>1. md[t] \in Record
      BY <1>1, <2>2 DEF LedgerInv, FilesOK, Boards
    <3> QED
      BY <2>1, <3>1 DEF Finished, Record
  <2>3. after = [u \in req[p].tasks |-> IF md[u] = Gone THEN Gone ELSE Finished(md[u])]
    BY <1>4 DEF Wanted
  <2> QED
    BY <2>2, <2>3
<1> QED
  BY <1>1, <1>2, <1>3, <1>4

LEMMA CheckingKeeps ==
    ASSUME LedgerInv, NEW p \in Procs, NEW after \in Wanted(p), Check(p, after)
    PROVE  LedgerInv' /\ Grows
<1> DEFINE m == req[p].main
<1>1. /\ Progress(p) /\ UNCHANGED <<md, ledger, intent, taskLock>> /\ pc[p] = "locked"
      /\ May(p, after)
  BY DEF Progress, Check
<1>2. /\ req[p].kind \in {"create", "update", "replace", "delete", "umbrella"}
      /\ req[p].tasks \subseteq Task
      /\ req[p].kind # "umbrella" => req[p].tasks = {m}
  BY <1>1 DEF LedgerInv, CallsOK, Calling, Holding
<1>3. /\ req'[p].kind = req[p].kind /\ req'[p].main = m /\ req'[p].tasks = req[p].tasks
      /\ req'[p].read = [t \in req[p].tasks |-> md[t]] /\ req'[p].after = after
  <2>1. req = [q \in Procs |-> req[q]] /\ IsCall(req[p])
    BY DEF LedgerInv, CallsOK
  <2> QED
    BY <2>1 DEF Check, IsCall
<1>4. pc'[p] = IF req[p].kind \in {"update", "replace"} /\ md[m] # Gone THEN "checked" ELSE "ready"
  BY DEF Check, Goto, LedgerInv, CallsOK
<1>5. md \in Boards
  BY DEF LedgerInv, FilesOK
<1>6. Typed(p)'
  <2>1. req'[p].read \in [req'[p].tasks -> Record \cup {Gone}]
    BY <1>2, <1>3, <1>5 DEF Boards
  <2>2. req'[p].after \in [req'[p].tasks -> Record \cup {Gone}]
    BY <1>1, <1>3, WantedTyped
  <2>3. pc'[p] = "checked" =>
           m \in Task /\ req'[p].read[m] \in Record /\ req'[p].kind # "umbrella"
    BY <1>2, <1>3, <1>4, <1>5 DEF Boards
  <2>4. pc'[p] \notin Reconcilers
    BY <1>4 DEF Reconcilers
  <2> QED
    BY <1>3, <2>1, <2>2, <2>3, <2>4 DEF Typed
<1>7. Locked(p)'
  <2>1. \A t \in req[p].tasks : taskLock[t] = p
    BY <1>1 DEF LedgerInv, Works, Locked
  <2> QED
    BY <1>1, <1>3, <1>4, <2>1 DEF Locked, Reconcilers
<1>8. UpToDate(p)'
  <2>1. ASSUME pc'[p] = "ready", NEW t \in req[p].tasks, Operation(p, t)' = "update" PROVE FALSE
    <3>1. md[t] # Gone /\ req[p].kind \notin {"delete", "umbrella"}
      BY <1>3, <2>1 DEF Operation
    <3>2. t = m /\ req[p].kind = "create"
      BY <1>2, <1>4, <2>1, <3>1
    <3> QED
      BY <1>1, <3>1, <3>2 DEF May, MayCreate
  <2> QED
    BY <1>3, <1>4, <2>1 DEF UpToDate
<1> QED
  BY <1>1, <1>4, <1>6, <1>7, <1>8, NoFileWritten DEF Works, Reconcilers

LEMMA PreparingKeeps ==
    ASSUME LedgerInv, NEW p \in Procs, Prepare(p) \/ ReconcilePrepare(p)
    PROVE  LedgerInv' /\ Grows
<1>1. Progress(p) /\ UNCHANGED <<md, ledger, intent, taskLock>>
  BY DEF Progress, Prepare, ReconcilePrepare
<1>2. Works(p) /\ req = [q \in Procs |-> req[q]] /\ IsCall(req[p])
  BY DEF LedgerInv, CallsOK
<1>3. CASE Prepare(p)
  <2>1. pc[p] = "ready" /\ pc'[p] = "prepared"
    BY <1>3 DEF Prepare, Goto, LedgerInv, CallsOK
  <2>2. /\ req'[p].kind = req[p].kind /\ req'[p].main = req[p].main
        /\ req'[p].tasks = req[p].tasks /\ req'[p].read = req[p].read
        /\ req'[p].after = req[p].after
        /\ req'[p].tip = [t \in req[p].tasks |-> Len(ledger[t])]
    BY <1>2, <1>3 DEF Prepare, IsCall
  <2>3. Typed(p)' /\ Locked(p)'
    BY <1>1, <1>2, <2>1, <2>2 DEF Works, Typed, Locked, Writing, Reconcilers
  <2>4. UpToDate(p)'
    BY <1>1, <1>2, <2>1, <2>2 DEF Works, UpToDate, Operation, LastAfter
  <2> QED
    BY <1>1, <2>1, <2>3, <2>4, NoFileWritten DEF Works, Reconcilers
<1>4. CASE ReconcilePrepare(p)
  <2>1. pc[p] = "reconcile" /\ pc'[p] = "append"
    BY <1>4 DEF ReconcilePrepare, Goto, LedgerInv, CallsOK
  <2>2. /\ req'[p].main = req[p].main /\ req'[p].read = req[p].read
        /\ req'[p].events = ReconcileEvents(req[p].main, req[p].read[req[p].main])
    BY <1>2, <1>4 DEF ReconcilePrepare, IsCall
  <2>3. Typed(p)' /\ Locked(p)'
    BY <1>1, <1>2, <2>1, <2>2 DEF Works, Typed, Locked, Writing, Reconcilers
  <2>4. UpToDate(p)'
    BY <1>1, <2>1, <2>2 DEF UpToDate, ReconcileEvents, LastAfter
  <2> QED
    BY <1>1, <2>1, <2>3, <2>4, NoFileWritten DEF Works, Reconcilers
<1> QED
  BY <1>3, <1>4

(***************************************************************************)
(* Reconciliation.                                                         *)
(***************************************************************************)

LEMMA OneAppended ==
    ASSUME FilesOK, intent = NoIntent, NEW t \in Task, NEW s \in Seq(Event), Sound(s),
           IsPrefix(ledger[t], s), ledger' = [ledger EXCEPT ![t] = s], UNCHANGED <<md, intent>>
    PROVE  FilesOK' /\ Grows
<1>1. ledger' \in [Task -> Seq(Event)] /\ \A u \in Task : ledger'[u] = IF u = t THEN s ELSE ledger[u]
  BY DEF FilesOK
<1>2. FilesOK'
  <2>1. \A u \in Task : Sound(ledger[u])
    BY DEF FilesOK
  <2>2. \A u \in Task : Sound(ledger'[u])
    BY <1>1, <2>1
  <2>3. intent'.tasks = {}
    BY NoIntentNoFiles
  <2>4. md' \in [Task -> Record \cup {Gone}]
    BY DEF FilesOK, Boards
  <2> QED
    BY <1>1, <2>2, <2>3, <2>4 DEF FilesOK, Boards, Sound
<1>3. ASSUME NEW u \in Task PROVE IsPrefix(EffectiveLedger(u), EffectiveLedger(u)')
  <2>1. EffectiveLedger(u) = ledger[u] /\ EffectiveLedger(u)' = ledger'[u]
    BY NoIntentNoFiles DEF EffectiveLedger
  <2>2. IsPrefix(ledger[u], ledger[u])
    BY PrefixItself DEF FilesOK
  <2> QED
    BY <1>1, <2>1, <2>2
<1> QED
  BY <1>2, <1>3 DEF Grows

\* What a reconciliation of p does: the ledger of its task, which it has locked,
\* comes to end in what p has read.
LEMMA ReconcilingWrites ==
    ASSUME LedgerInv, NEW p \in Procs, Reconcile(p) \/ ReconcileAppend(p)
    PROVE  LET m == req[p].main
               r == req[p].read[m]
               s == ledger[m] \o ReconcileEvents(m, r)
           IN  /\ pc[p] \in {"checked", "append"} /\ Progress(p) /\ UNCHANGED <<md, intent>>
               /\ Works(p) /\ m \in Task /\ r \in Record
               /\ ledger[m] \in Seq(Event) /\ s \in Seq(Event) /\ Sound(s)
               /\ IsPrefix(ledger[m], s) /\ s # <<>> /\ Last(s).after = r
               /\ ledger' = [ledger EXCEPT ![m] = s]
               /\ intent = NoIntent /\ taskLock[m] = p
<1> DEFINE m == req[p].main
           r == req[p].read[m]
           s == ledger[m] \o ReconcileEvents(m, r)
<1>1. pc[p] \in {"checked", "append"} /\ Progress(p) /\ UNCHANGED <<md, intent>>
  BY DEF Reconcile, ReconcileAppend, Progress
<1>2. Works(p) /\ m \in Task /\ r \in Record
  BY <1>1 DEF LedgerInv, Works, Typed, Reconcilers
<1>3. /\ ledger[m] \in Seq(Event) /\ s \in Seq(Event) /\ Sound(s)
      /\ IsPrefix(ledger[m], s) /\ s # <<>> /\ Last(s).after = r
  BY <1>2, ReconciledSound DEF LedgerInv, FilesOK
<1>4. ledger' = [ledger EXCEPT ![m] = s]
  <2>1. CASE Reconcile(p)
    BY <2>1 DEF Reconcile, Reconciled
  <2>2. CASE ReconcileAppend(p)
    BY <1>2, <2>2 DEF ReconcileAppend, Reconciled, Works, UpToDate
  <2> QED
    BY <2>1, <2>2
<1>5. intent = NoIntent /\ taskLock[m] = p
  <2>1. CASE pc[p] = "checked"
    <3>1. intent = NoIntent /\ req[p].tasks = {m}
      BY <1>2, <2>1 DEF LedgerInv, Exclusive, Holding, Writing, CallsOK, Calling, Works, Typed
    <3> QED
      BY <1>2, <2>1, <3>1 DEF Works, Locked, Writing
  <2>2. CASE pc[p] = "append"
    BY <1>2, <2>2 DEF LedgerInv, Apart, Works, Locked, Reconcilers
  <2> QED
    BY <1>1, <2>1, <2>2
<1> QED
  BY <1>1, <1>2, <1>3, <1>4, <1>5

LEMMA ReconcilingKeeps ==
    ASSUME LedgerInv, NEW p \in Procs, Reconcile(p) \/ ReconcileAppend(p)
    PROVE  LedgerInv' /\ Grows
<1> DEFINE m == req[p].main
           r == req[p].read[m]
           s == ledger[m] \o ReconcileEvents(m, r)
<1>1. /\ pc[p] \in {"checked", "append"} /\ Progress(p) /\ UNCHANGED <<md, intent>>
      /\ Works(p) /\ m \in Task /\ r \in Record
      /\ s \in Seq(Event) /\ Sound(s) /\ IsPrefix(ledger[m], s)
      /\ s # <<>> /\ Last(s).after = r
      /\ ledger' = [ledger EXCEPT ![m] = s]
      /\ intent = NoIntent /\ taskLock[m] = p
  BY ReconcilingWrites, ZenonT(30)
<1> HIDE DEF m, r, s
<1>2. FilesOK' /\ Grows
  BY <1>1, OneAppended DEF LedgerInv
<1>3. Apart'
  BY <1>1 DEF Apart
<1>4. \A t \in Task : ledger'[t] = ledger[t] \/ taskLock[t] = p
  BY <1>1 DEF LedgerInv, FilesOK
<1>5. Works(p)'
  <2>1. CASE Reconcile(p)
    <3>1. /\ pc[p] = "checked" /\ pc'[p] = "ready" /\ req' = req /\ taskLock' = taskLock
          /\ req[p].tasks = {m}
      BY <1>1, <2>1 DEF Reconcile, Goto, LedgerInv, CallsOK, Calling, Holding, Writing, Works, Typed, m
    <3>2. Typed(p)' /\ Locked(p)'
      BY <1>1, <3>1 DEF Works, Typed, Locked, Writing, Reconcilers, m
    <3>3. LastAfter(req[p].main)' = r
      <4>1. ledger'[m] = s
        BY <1>1 DEF LedgerInv, FilesOK
      <4>2. ledger'[m] # <<>> /\ Last(ledger'[m]).after = r
        BY <1>1, <4>1
      <4>3. req'[p].main = m
        BY <3>1 DEF m
      <4> QED
        BY <4>2, <4>3 DEF LastAfter, m
    <3>4. UpToDate(p)'
      BY <3>1, <3>3 DEF UpToDate, m, r
    <3> QED
      BY <3>2, <3>4 DEF Works
  <2>2. CASE ReconcileAppend(p)
    <3>1. pc'[p] = "idle"
      BY <2>2 DEF ReconcileAppend, Return, Goto, LedgerInv, CallsOK
    <3> QED
      BY <3>1, Resting DEF Writing, Reconcilers
  <2> QED
    BY <2>1, <2>2
<1> QED
  BY <1>1, <1>2, <1>3, <1>4, <1>5, Stepping

(***************************************************************************)
(* Replacing files.                                                        *)
(***************************************************************************)

\* A ledger with the event that p has prepared for it.
WithEvent(p, t) == Append(ledger[t], PreparedEvent(p, t))

LEMMA ImagesWritten ==
    ASSUME LedgerInv, NEW p \in Procs, pc[p] = "prepared", NEW mds, NEW ledgers,
           mds \subseteq req[p].tasks, ledgers \subseteq req[p].tasks, Activate(p, mds, ledgers)
    PROVE  /\ md' \in Boards /\ ledger' \in [Task -> Seq(Event)] /\ req[p].tasks \subseteq Task
           /\ \A t \in Task :
                 /\ Sound(ledger'[t])
                 /\ ledger'[t] = IF t \in ledgers THEN After(p)[t].ledger ELSE ledger[t]
                 /\ IsPrefix(ledger[t], ledger'[t])
           /\ \A t \in req[p].tasks :
                 /\ Before(p)[t] \in Image /\ After(p)[t] \in Image
                 /\ Before(p)[t].ledger = ledger[t]
                 /\ Sound(Before(p)[t].ledger) /\ Sound(After(p)[t].ledger)
                 /\ IsPrefix(Before(p)[t].ledger, After(p)[t].ledger)
                 /\ md'[t] \in {Before(p)[t].md, After(p)[t].md}
                 /\ ledger'[t] \in {Before(p)[t].ledger, After(p)[t].ledger}
<1>1. /\ req[p].tasks \subseteq Task
      /\ req[p].after \in [req[p].tasks -> Record \cup {Gone}]
  BY DEF LedgerInv, CallsOK, Calling, Holding, Writing, Works, Typed
<1>2. md \in Boards /\ ledger \in [Task -> Seq(Event)] /\ \A t \in Task : Sound(ledger[t])
  BY DEF LedgerInv, FilesOK
<1>3. ASSUME NEW t \in req[p].tasks
      PROVE  /\ t \in Task
             /\ Before(p)[t].md = md[t] /\ Before(p)[t].ledger = ledger[t]
             /\ After(p)[t].md = req[p].after[t] /\ After(p)[t].ledger = WithEvent(p, t)
             /\ WithEvent(p, t) \in Seq(Event) /\ Sound(WithEvent(p, t))
             /\ IsPrefix(ledger[t], WithEvent(p, t))
  BY <1>1, <1>3, PreparedSound DEF Before, After, WithEvent
<1>4. ASSUME NEW t \in req[p].tasks
      PROVE  Before(p)[t] \in Image /\ After(p)[t] \in Image
  <2>1. /\ md[t] \in Record \cup {Gone} /\ ledger[t] \in Seq(Event)
        /\ req[p].after[t] \in Record \cup {Gone} /\ WithEvent(p, t) \in Seq(Event)
    BY <1>1, <1>2, <1>3, <1>4 DEF Boards
  <2>2. /\ Before(p)[t] = [md |-> md[t], ledger |-> ledger[t]]
        /\ After(p)[t] = [md |-> req[p].after[t], ledger |-> WithEvent(p, t)]
    BY DEF Before, After, WithEvent
  <2> QED
    BY <2>1, <2>2 DEF Image
<1>5. /\ \A t \in Task : md'[t] = IF t \in mds THEN After(p)[t].md ELSE md[t]
      /\ \A t \in Task : ledger'[t] = IF t \in ledgers THEN After(p)[t].ledger ELSE ledger[t]
  BY DEF Activate
<1>6. md' \in Boards /\ ledger' \in [Task -> Seq(Event)]
  <2>1. ASSUME NEW t \in Task PROVE md'[t] \in Record \cup {Gone} /\ ledger'[t] \in Seq(Event)
    <3>1. md[t] \in Record \cup {Gone} /\ ledger[t] \in Seq(Event)
      BY <1>2 DEF Boards
    <3>2. t \in req[p].tasks => req[p].after[t] \in Record \cup {Gone}
      BY <1>1
    <3> QED
      BY <1>3, <1>5, <3>1, <3>2
  <2>2. md' = [t \in Task |-> md'[t]] /\ ledger' = [t \in Task |-> ledger'[t]]
    BY DEF Activate
  <2> QED
    BY <2>1, <2>2 DEF Boards
<1>7. \A t \in Task : Sound(ledger'[t]) /\ IsPrefix(ledger[t], ledger'[t])
  <2>1. \A t \in Task : IsPrefix(ledger[t], ledger[t])
    BY <1>2, PrefixItself
  <2>2. ASSUME NEW t \in Task PROVE ledger'[t] = ledger[t] \/ (t \in req[p].tasks /\ ledger'[t] = WithEvent(p, t))
    BY <1>3, <1>5
  <2> QED
    BY <1>2, <1>3, <2>1, <2>2
<1>8. ASSUME NEW t \in req[p].tasks
      PROVE  /\ md'[t] \in {Before(p)[t].md, After(p)[t].md}
             /\ ledger'[t] \in {Before(p)[t].ledger, After(p)[t].ledger}
  BY <1>3, <1>5, <1>8
<1>9. ASSUME NEW t \in req[p].tasks
      PROVE  /\ Before(p)[t].ledger = ledger[t]
             /\ Sound(Before(p)[t].ledger) /\ Sound(After(p)[t].ledger)
             /\ IsPrefix(Before(p)[t].ledger, After(p)[t].ledger)
  BY <1>2, <1>3
<1> QED
  BY <1>1, <1>4, <1>5, <1>6, <1>7, <1>8, <1>9

LEMMA ReplacingKeeps ==
    ASSUME LedgerInv, Interrupts # "any", NEW p \in Procs,
           Commit(p) \/ \E mds, ledgers \in SUBSET req[p].tasks : Interrupt(p, mds, ledgers)
    PROVE  LedgerInv' /\ Grows
<1>1. /\ pc[p] = "prepared" /\ intent = NoIntent
      /\ \A q \in Procs \ {p} : pc'[q] = pc[q]
      /\ Progress(p) \/ Failure(p)
  BY Written DEF LedgerInv, Progress, Failure
<1>2. pc'[p] \in {"idle", "dead"}
  BY DEF Commit, Interrupt, Return, Goto, LedgerInv, CallsOK
<1>3. Works(p)'
  BY <1>2, Resting DEF Writing, Reconcilers
<1>4. \A t \in req[p].tasks : taskLock[t] = p
  BY <1>1 DEF LedgerInv, Works, Locked, Writing
<1>5. \A t \in Task : EffectiveLedger(t) = ledger[t]
  BY <1>1, NoIntentNoFiles
<1>6. CASE Commit(p)
  <2>1. Activate(p, req[p].tasks, req[p].tasks) /\ intent' = NoIntent
    BY <1>1, <1>6 DEF Commit
  <2>2. /\ md' \in Boards /\ ledger' \in [Task -> Seq(Event)]
        /\ \A t \in Task : Sound(ledger'[t]) /\ IsPrefix(ledger[t], ledger'[t])
        /\ \A t \in Task : ledger'[t] = ledger[t] \/ taskLock[t] = p
    BY <1>1, <1>4, <2>1, ImagesWritten
  <2>3. intent'.tasks = {}
    BY <2>1 DEF NoIntent
  <2>4. FilesOK'
    BY <2>2, <2>3 DEF FilesOK, Boards, Sound
  <2>5. Grows
    BY <1>5, <2>2, <2>3 DEF Grows, EffectiveLedger
  <2>6. Apart'
    BY <2>1 DEF Apart
  <2> QED
    BY <1>1, <1>3, <2>2, <2>4, <2>5, <2>6, Stepping
<1>7. CASE \E mds, ledgers \in SUBSET req[p].tasks : Interrupt(p, mds, ledgers)
  <2>1. PICK mds \in SUBSET req[p].tasks, ledgers \in SUBSET req[p].tasks :
           Interrupt(p, mds, ledgers)
    BY <1>7
  <2>2. /\ Activate(p, mds, ledgers) /\ intent'.tasks = req[p].tasks
        /\ intent'.before = Before(p) /\ intent'.after = After(p)
        /\ Interrupts = "apart" /\ ~Reconciling
    BY <2>1 DEF Interrupt
  <2>3. /\ md' \in Boards /\ ledger' \in [Task -> Seq(Event)] /\ req[p].tasks \subseteq Task
        /\ \A t \in Task : Sound(ledger'[t])
        /\ \A t \in Task : ledger'[t] = ledger[t] \/ taskLock[t] = p
        /\ \A t \in Task : IsPrefix(ledger[t], ledger'[t])
        /\ \A t \in req[p].tasks :
              /\ Before(p)[t] \in Image /\ After(p)[t] \in Image
              /\ Before(p)[t].ledger = ledger[t]
              /\ Sound(Before(p)[t].ledger) /\ Sound(After(p)[t].ledger)
              /\ IsPrefix(Before(p)[t].ledger, After(p)[t].ledger)
              /\ md'[t] \in {Before(p)[t].md, After(p)[t].md}
              /\ ledger'[t] \in {Before(p)[t].ledger, After(p)[t].ledger}
    BY <1>1, <1>4, <2>1, <2>2, ImagesWritten
  <2>4. FilesOK'
    <3>1. \A t \in intent'.tasks :
             /\ intent'.before[t] \in Image /\ intent'.after[t] \in Image
             /\ md'[t] \in {intent'.before[t].md, intent'.after[t].md}
             /\ ledger'[t] \in {intent'.before[t].ledger, intent'.after[t].ledger}
             /\ Sound(intent'.before[t].ledger) /\ Sound(intent'.after[t].ledger)
             /\ IsPrefix(intent'.before[t].ledger, intent'.after[t].ledger)
      BY <2>2, <2>3
    <3>2. md' \in Boards' /\ \A t \in Task : Sound(ledger[t])'
      BY <2>3 DEF Boards, Sound
    <3>3. intent'.tasks \subseteq Task /\ ledger' \in [Task -> Seq(Event)]
      BY <2>2, <2>3
    <3>4. \A t \in intent'.tasks : Sound(intent.before[t].ledger)' /\ Sound(intent.after[t].ledger)'
      BY <3>1 DEF Sound
    <3> QED
      BY <3>1, <3>2, <3>3, <3>4 DEF FilesOK
  <2>5. Grows
    <3>1. \A t \in Task : IsPrefix(ledger[t], ledger[t])
      BY PrefixItself DEF LedgerInv, FilesOK
    <3>2. \A t \in Task : EffectiveLedger(t)' \in {ledger[t], ledger'[t]}
      BY <2>2, <2>3 DEF EffectiveLedger
    <3> QED
      BY <1>5, <2>3, <3>1, <3>2 DEF Grows
  <2>6. Apart'
    BY <1>1, <1>2, <2>2 DEF Apart, Reconciling, Reconcilers
  <2> QED
    BY <1>1, <1>3, <2>3, <2>4, <2>5, <2>6, Stepping
<1> QED
  BY <1>6, <1>7

(***************************************************************************)
(* Settling an intent, and editing.                                        *)
(***************************************************************************)

\* The ledgers, restored or kept, are no shorter than those that were there
\* before the mutation; nobody holds a task's lock then.
LEMMA RecoveringKeeps ==
    ASSUME LedgerInv, NEW p \in Procs, Recover(p)
    PROVE  LedgerInv' /\ Grows
<1>1. /\ intent # NoIntent /\ intent' = NoIntent /\ taskLock' = taskLock
      /\ IF Completed THEN UNCHANGED <<md, ledger>>
         ELSE /\ md' = [t \in Task |-> IF t \in intent.tasks THEN intent.before[t].md ELSE md[t]]
              /\ ledger' = [t \in Task |-> IF t \in intent.tasks THEN intent.before[t].ledger
                                                                 ELSE ledger[t]]
  BY DEF Recover
<1>2. /\ CallsOK' /\ Exclusive' /\ pc'[p] = "board"
      /\ \A q \in Procs : pc[q] \notin Holding /\ pc'[q] \notin Writing
      /\ \A q \in Procs \ {p} : pc'[q] = pc[q]
  BY Settled DEF LedgerInv
<1>3. ASSUME NEW q \in Procs PROVE Works(q)'
  <2>1. pc[q] \notin Reconcilers
    BY <1>1 DEF LedgerInv, Apart
  <2>2. pc'[q] \notin {"locked"} \cup Writing \cup Reconcilers
    BY <1>2, <2>1 DEF Holding, Writing, Reconcilers
  <2> QED
    BY <2>2, Resting
<1>4. /\ md \in Boards /\ ledger \in [Task -> Seq(Event)] /\ \A t \in Task : Sound(ledger[t])
      /\ \A t \in intent.tasks :
            /\ intent.before[t] \in Image
            /\ ledger[t] \in {intent.before[t].ledger, intent.after[t].ledger}
            /\ Sound(intent.before[t].ledger)
            /\ IsPrefix(intent.before[t].ledger, intent.after[t].ledger)
  BY DEF LedgerInv, FilesOK
<1>5. \A t \in Task : IsPrefix(ledger[t], ledger[t])
  BY <1>4, PrefixItself
<1>6. \A t \in Task : EffectiveLedger(t)' = ledger'[t]
  BY <1>1 DEF NoIntent, EffectiveLedger
<1>7. /\ md' \in Boards /\ ledger' \in [Task -> Seq(Event)]
      /\ \A t \in Task : Sound(ledger'[t]) /\ IsPrefix(EffectiveLedger(t), ledger'[t])
  <2>1. CASE Completed
    <3>1. \A t \in intent.tasks : ledger[t] = intent.after[t].ledger
      BY <2>1 DEF Completed
    <3> QED
      BY <1>1, <1>4, <1>5, <2>1, <3>1 DEF EffectiveLedger
  <2>2. CASE ~Completed
    <3>1. ASSUME NEW t \in intent.tasks
          PROVE  /\ intent.before[t].md \in Record \cup {Gone}
                 /\ intent.before[t].ledger \in Seq(Event)
                 /\ IsPrefix(intent.before[t].ledger, intent.before[t].ledger)
      BY <1>4, PrefixItself DEF Image
    <3>2. md' \in Boards
      BY <1>1, <1>4, <2>2, <3>1 DEF Boards
    <3>3. ledger' \in [Task -> Seq(Event)]
      BY <1>1, <1>4, <2>2, <3>1
    <3>4. \A t \in Task : ledger'[t] = EffectiveLedger(t)
      BY <1>1, <2>2 DEF EffectiveLedger
    <3>5. \A t \in Task : Sound(EffectiveLedger(t)) /\ IsPrefix(EffectiveLedger(t), EffectiveLedger(t))
      BY <1>4, <1>5, <3>1 DEF EffectiveLedger
    <3> QED
      BY <3>2, <3>3, <3>4, <3>5
  <2> QED
    BY <2>1, <2>2
<1>8. FilesOK'
  <2>1. intent'.tasks = {}
    BY <1>1 DEF NoIntent
  <2> QED
    BY <1>7, <2>1 DEF FilesOK, Boards, Sound
<1>9. Grows
  BY <1>6, <1>7 DEF Grows
<1>10. Apart' /\ taskLock' \in [Task -> Procs \cup {NoProc}]
  BY <1>1 DEF Apart, LedgerInv
<1> QED
  BY <1>2, <1>3, <1>8, <1>9, <1>10 DEF LedgerInv

\* Nobody edits the files of an intent, and no ledger changes.
LEMMA EditingKeeps ==
    ASSUME LedgerInv, NEW t \in Task, NEW r \in Record, Edit(t, r)
    PROVE  LedgerInv' /\ Grows
<1>1. /\ t \notin intent.tasks /\ md' = [md EXCEPT ![t] = r]
      /\ UNCHANGED <<ledger, board, taskLock, pc, req, intent>>
  BY DEF Edit
<1>2. CallsOK' /\ Exclusive'
  BY <1>1 DEF LedgerInv, CallsOK, Exclusive, IsCall
<1>3. \A q \in Procs : Works(q)'
  BY <1>1, Bystander
<1>4. FilesOK'
  <2>1. FilesOK
    BY DEF LedgerInv
  <2>2. md' \in Boards' /\ \A u \in intent.tasks : md'[u] = md[u]
    BY <1>1, <2>1 DEF FilesOK, Boards
  <2>3. \A u \in Task : Sound(ledger[u])'
    BY <1>1, <2>1 DEF FilesOK, Sound
  <2>4. \A u \in intent.tasks :
           /\ intent.before[u] \in Image /\ intent.after[u] \in Image
           /\ md'[u] \in {intent.before[u].md, intent.after[u].md}
           /\ ledger[u] \in {intent.before[u].ledger, intent.after[u].ledger}
           /\ Sound(intent.before[u].ledger) /\ Sound(intent.after[u].ledger)
           /\ IsPrefix(intent.before[u].ledger, intent.after[u].ledger)
    BY <2>1, <2>2 DEF FilesOK
  <2> QED
    BY <1>1, <2>1, <2>2, <2>3, <2>4 DEF FilesOK, Sound
<1>5. Grows
  <2>1. ASSUME NEW u \in Task PROVE IsPrefix(EffectiveLedger(u), EffectiveLedger(u)')
    <3>1. EffectiveLedger(u)' = EffectiveLedger(u) /\ EffectiveLedger(u) \in Seq(Event)
      BY <1>1 DEF EffectiveLedger, LedgerInv, FilesOK, Image
    <3> QED
      BY <3>1, PrefixItself
  <2> QED
    BY <2>1 DEF Grows
<1>6. Apart' /\ taskLock' \in [Task -> Procs \cup {NoProc}]
  BY <1>1 DEF Apart, LedgerInv
<1> QED
  BY <1>2, <1>3, <1>4, <1>5, <1>6 DEF LedgerInv

(***************************************************************************)
(* Ledgers and files agree.  What is not edited agrees now, and agrees in  *)
(* each of the images of an intent that it is in.  A reconciliation that   *)
(* writes an old reading of the file does so for an edited task only.      *)
(***************************************************************************)

LastOf(s) == IF s = <<>> THEN Gone ELSE Last(s).after

Agree(f, s) == IF f = Gone THEN LastOf(s) \in {Gone, Tombstone} ELSE LastOf(s) = f

\* What p has read of its task is what is there, or the task counts as edited.
Faithful(p) ==
    pc[p] \in {"checked"} \cup Reconcilers =>
        req[p].main \in edited \/ md[req[p].main] = req[p].read[req[p].main]

ImagesAgree ==
    \A t \in intent.tasks :
        /\ Agree(intent.after[t].md, intent.after[t].ledger)
        /\ t \notin edited => Agree(intent.before[t].md, intent.before[t].ledger)

Agreement ==
    /\ \A t \in Task \ (intent.tasks \cup edited) : Agree(md[t], ledger[t])
    /\ ImagesAgree
    /\ \A p \in Procs : Faithful(p)

\* A process at which nothing happens stays faithful while the file of its task
\* is edited at most.
LEMMA FaithfulOthers ==
    ASSUME LedgerInv, Agreement, NEW q \in Procs, pc'[q] = pc[q], req'[q] = req[q],
           \A t \in Task : taskLock[t] = q =>
               (t \in edited => t \in edited') /\ (md'[t] = md[t] \/ t \in edited')
    PROVE  Faithful(q)'
<1>1. CASE pc[q] \notin {"checked"} \cup Reconcilers
  BY <1>1 DEF Faithful
<1>2. CASE pc[q] \in {"checked"} \cup Reconcilers
  <2>1. req[q].main \in Task /\ taskLock[req[q].main] = q
    <3>1. Works(q)
      BY DEF LedgerInv
    <3>2. req[q].main \in Task
      BY <1>2, <3>1 DEF Works, Typed
    <3>3. CASE pc[q] = "checked"
      <4>1. req[q].tasks = {req[q].main}
        BY <3>1, <3>3 DEF LedgerInv, CallsOK, Calling, Holding, Writing, Works, Typed
      <4> QED
        BY <3>1, <3>2, <3>3, <4>1 DEF Works, Locked, Writing
    <3>4. CASE pc[q] \in Reconcilers
      BY <3>1, <3>2, <3>4 DEF Works, Locked
    <3> QED
      BY <1>2, <3>2, <3>3, <3>4
  <2>2. Faithful(q)
    BY DEF Agreement
  <2> QED
    BY <1>2, <2>1, <2>2 DEF Faithful
<1> QED
  BY <1>1, <1>2

\* A step that writes no file and settles nothing.
LEMMA QuietAgrees ==
    ASSUME LedgerInv, Agreement, NEW p \in Procs, Begin(p) \/ Progress(p) \/ Failure(p),
           UNCHANGED <<md, ledger, edited, intent>>, Faithful(p)'
    PROVE  Agreement'
<1>1. ASSUME NEW q \in Procs PROVE Faithful(q)'
  BY OthersSame, FaithfulOthers
<1> QED
  BY <1>1 DEF Agreement, ImagesAgree, Agree, LastOf

LEMMA StoppingAgrees ==
    ASSUME LedgerInv, Agreement, NEW p \in Procs, Progress(p) \/ Failure(p),
           \/ RefuseFrozen(p) \/ RecoverRefuse(p) \/ LockTimeout(p) \/ Replay(p) \/ RefuseLate(p)
           \/ \E after : Refuse(p, after)
           \/ ReconcileStale(p) \/ Fail(p) \/ Crash(p)
    PROVE  Agreement'
<1>1. UNCHANGED <<md, ledger, edited, intent>>
  BY DEF RefuseFrozen, RecoverRefuse, LockTimeout, Replay, RefuseLate, Refuse, ReconcileStale,
         Fail, Crash
<1>2. pc'[p] \in {"idle", "dead"}
  BY DEF RefuseFrozen, RecoverRefuse, LockTimeout, Replay, RefuseLate, Refuse, ReconcileStale,
         Fail, Crash, Return, Goto, LedgerInv, CallsOK
<1>3. Faithful(p)'
  BY <1>2 DEF Faithful, Reconcilers
<1> QED
  BY <1>1, <1>3, QuietAgrees

LEMMA GoingOnAgrees ==
    ASSUME LedgerInv, Agreement, NEW p \in Procs,
           \/ Begin(p) \/ TakeBoard(p) \/ \E t \in Task : TakeLock(p, t)
           \/ Prepare(p) \/ ReconcilePrepare(p)
    PROVE  Agreement'
<1>1. Begin(p) \/ Progress(p)
  BY DEF Progress
<1>2. UNCHANGED <<md, ledger, edited, intent>>
  BY Zenon DEF Begin, CallOne, CallUmbrella, Call, ReconcileRead, TakeBoard, TakeLock, Prepare,
         ReconcilePrepare
<1>3. IsCall(req[p]) /\ req = [q \in Procs |-> req[q]] /\ pc = [q \in Procs |-> pc[q]]
  BY DEF LedgerInv, CallsOK
<1>4. Faithful(p)'
  <2>1. CASE pc'[p] \notin {"checked"} \cup Reconcilers
    BY <2>1 DEF Faithful
  <2>2. CASE \E t \in Task : ReconcileRead(p, t)
    <3>1. PICK t \in Task : ReconcileRead(p, t)
      BY <2>2
    <3>2. req'[p].main = t /\ req'[p].read[t] = md[t] /\ md' = md
      BY <1>3, <3>1 DEF ReconcileRead, NoCall
    <3> QED
      BY <3>2 DEF Faithful
  <2>3. CASE ReconcilePrepare(p)
    <3>1. /\ pc[p] = "reconcile" /\ req'[p].main = req[p].main /\ req'[p].read = req[p].read
      BY <1>3, <2>3 DEF ReconcilePrepare, IsCall
    <3> QED
      BY <1>2, <3>1 DEF Agreement, Faithful, Reconcilers
  <2>4. CASE Prepare(p)
    <3>1. pc'[p] = "prepared"
      BY <1>3, <2>4 DEF Prepare, Goto
    <3> QED
      BY <3>1 DEF Faithful, Reconcilers
  <2>5. CASE TakeBoard(p) \/ \E t \in Task : TakeLock(p, t)
    <3>1. pc'[p] \in {"board", "locked"}
      BY <1>3, <2>5 DEF TakeBoard, TakeLock, Goto
    <3> QED
      BY <3>1 DEF Faithful, Reconcilers
  <2>6. CASE \E kind, main, tasks, expected : Call(p, kind, main, tasks, expected)
    <3>1. pc'[p] = "waiting"
      BY <1>3, <2>6 DEF Call, Goto
    <3> QED
      BY <3>1 DEF Faithful, Reconcilers
  <2> QED
    BY <2>2, <2>3, <2>4, <2>5, <2>6 DEF Begin, CallOne, CallUmbrella
<1> QED
  BY <1>1, <1>2, <1>4, QuietAgrees

LEMMA CheckingAgrees ==
    ASSUME LedgerInv, Agreement, NEW p \in Procs, NEW after \in Wanted(p), Check(p, after)
    PROVE  Agreement'
<1>1. Progress(p) /\ UNCHANGED <<md, ledger, edited, intent>> /\ pc[p] = "locked"
  BY Zenon DEF Progress, Check
<1>2. IsCall(req[p]) /\ req = [q \in Procs |-> req[q]] /\ pc = [q \in Procs |-> pc[q]]
  BY DEF LedgerInv, CallsOK
<1>3. req'[p].main = req[p].main /\ req'[p].read = [t \in req[p].tasks |-> md[t]]
  BY <1>2 DEF Check, IsCall
<1>4. pc'[p] = "checked" => req[p].main \in req[p].tasks
  <2>1. pc'[p] = "checked" => req[p].kind \in {"update", "replace"}
    BY <1>2 DEF Check, Goto
  <2>2. req[p].kind # "umbrella" => req[p].tasks = {req[p].main}
    BY <1>1 DEF LedgerInv, CallsOK, Calling, Holding
  <2> QED
    BY <2>1, <2>2
<1>5. pc'[p] \in {"checked", "ready"}
  BY <1>2 DEF Check, Goto
<1>6. Faithful(p)'
  BY <1>1, <1>3, <1>4, <1>5 DEF Faithful, Reconcilers
<1> QED
  BY <1>1, <1>6, QuietAgrees

\* The ledger comes to say what was read, and the task is taken off edited only
\* if that is what is there.
LEMMA ReconcilingAgrees ==
    ASSUME LedgerInv, Agreement, NEW p \in Procs, Reconcile(p) \/ ReconcileAppend(p)
    PROVE  Agreement'
<1> DEFINE m == req[p].main
           r == req[p].read[m]
           s == ledger[m] \o ReconcileEvents(m, r)
<1>1. /\ pc[p] \in {"checked", "append"} /\ Progress(p) /\ UNCHANGED <<md, intent>>
      /\ m \in Task /\ r \in Record /\ s # <<>> /\ Last(s).after = r
      /\ ledger' = [ledger EXCEPT ![m] = s]
      /\ intent = NoIntent /\ taskLock[m] = p
  BY ReconcilingWrites
<1>2. edited' = (IF md[m] = r THEN edited \ {m} ELSE edited) /\ pc'[p] \in {"ready", "idle"}
  <2>1. CASE Reconcile(p)
    BY <2>1 DEF Reconcile, Reconciled, Goto, LedgerInv, CallsOK
  <2>2. CASE ReconcileAppend(p)
    BY <2>2 DEF ReconcileAppend, Reconciled, Return, Goto, LedgerInv, CallsOK
  <2> QED
    BY <2>1, <2>2
<1>3. m \in edited \/ md[m] = r
  BY <1>1 DEF Agreement, Faithful, Reconcilers
<1>4. ledger'[m] = s /\ \A t \in Task \ {m} : ledger'[t] = ledger[t]
  <2> HIDE DEF m, s
  <2> QED
    BY <1>1 DEF LedgerInv, FilesOK
<1>5. LastOf(s) = r /\ r # Gone
  <2>1. r # Gone
    BY <1>1, RecordAssumption
  <2> HIDE DEF m, r, s
  <2> QED
    BY <1>1, <2>1 DEF LastOf
<1> HIDE DEF r, s
<1>6. intent.tasks = {} /\ intent'.tasks = {}
  BY <1>1, NoIntentNoFiles
<1>7. ASSUME NEW t \in Task, t \notin edited' PROVE Agree(md'[t], ledger'[t])
  <2>1. CASE t = m
    BY <1>1, <1>2, <1>3, <1>4, <1>5, <1>7, <2>1 DEF Agree
  <2>2. CASE t # m
    <3>1. Agree(md[t], ledger[t])
      BY <1>2, <1>6, <1>7, <2>2 DEF Agreement
    <3> QED
      BY <1>1, <1>4, <2>2, <3>1
  <2> QED
    BY <2>1, <2>2
<1>8. ASSUME NEW q \in Procs PROVE Faithful(q)'
  <2>1. CASE q = p
    BY <1>2, <2>1 DEF Faithful, Reconcilers
  <2>2. CASE q # p
    <3>1. pc'[q] = pc[q] /\ req'[q] = req[q]
      BY <1>1, <2>2, OthersSame
    <3>2. \A t \in Task : taskLock[t] = q => t # m
      BY <1>1, <2>2
    <3> QED
      BY <1>1, <1>2, <3>1, <3>2, FaithfulOthers
  <2> QED
    BY <2>1, <2>2
<1> QED
  BY <1>6, <1>7, <1>8 DEF Agreement, ImagesAgree, Agree, LastOf

\* The after-image of a mutation agrees: its event says what it writes.
LEMMA PreparedAgrees ==
    ASSUME LedgerInv, NEW p \in Procs, pc[p] = "prepared", NEW t \in req[p].tasks
    PROVE  Agree(After(p)[t].md, After(p)[t].ledger)
<1> DEFINE e == PreparedEvent(p, t)
           s == Append(ledger[t], e)
<1>1. After(p)[t] = [md |-> req[p].after[t], ledger |-> s]
  BY DEF After
<1>2. e.after = IF req[p].after[t] = Gone THEN Tombstone ELSE req[p].after[t]
  BY DEF PreparedEvent, NewEvent
<1>3. s # <<>> /\ Last(s) = e
  <2>1. t \in Task
    BY DEF LedgerInv, CallsOK, Calling, Holding, Writing
  <2>2. ledger[t] \in Seq(Event \cup {e}) /\ e \in Event \cup {e}
    BY <2>1 DEF LedgerInv, FilesOK
  <2> HIDE DEF e
  <2> QED
    BY <2>2, PrefixAppended
<1> HIDE DEF e, s
<1> QED
  BY <1>1, <1>2, <1>3 DEF Agree, LastOf

LEMMA ReplacingAgrees ==
    ASSUME LedgerInv, Agreement, NEW p \in Procs,
           Commit(p) \/ \E mds, ledgers \in SUBSET req[p].tasks : Interrupt(p, mds, ledgers)
    PROVE  Agreement'
<1>1. pc[p] = "prepared" /\ intent = NoIntent /\ (Progress(p) \/ Failure(p))
  BY Written DEF LedgerInv, Progress, Failure
<1>2. intent.tasks = {}
  BY <1>1, NoIntentNoFiles
<1>3. pc'[p] \in {"idle", "dead"}
  BY DEF Commit, Interrupt, Return, Goto, LedgerInv, CallsOK
<1>4. \A t \in req[p].tasks : taskLock[t] = p
  BY <1>1 DEF LedgerInv, Works, Locked, Writing
<1>5. \A t \in req[p].tasks : Agree(After(p)[t].md, After(p)[t].ledger)
  BY <1>1, PreparedAgrees
<1>6. /\ \A t \in Task \ req[p].tasks : md'[t] = md[t] /\ ledger'[t] = ledger[t]
      /\ edited \ req[p].tasks \subseteq edited'
  BY DEF Commit, Interrupt, Activate
<1>7. ASSUME NEW q \in Procs PROVE Faithful(q)'
  <2>1. CASE q = p
    BY <1>3, <2>1 DEF Faithful, Reconcilers
  <2>2. CASE q # p
    <3>1. pc'[q] = pc[q] /\ req'[q] = req[q]
      BY <1>1, <2>2, OthersSame
    <3>2. \A t \in Task : taskLock[t] = q => t \notin req[p].tasks
      BY <1>4, <2>2
    <3> QED
      BY <1>6, <3>1, <3>2, FaithfulOthers
  <2> QED
    BY <2>1, <2>2
<1>8. CASE Commit(p)
  <2>1. /\ Activate(p, req[p].tasks, req[p].tasks) /\ intent' = NoIntent
        /\ edited' = edited \ req[p].tasks
    BY <1>1, <1>8 DEF Commit
  <2>2. ASSUME NEW t \in Task, t \notin edited' PROVE Agree(md'[t], ledger'[t])
    <3>1. CASE t \in req[p].tasks
      <4>1. md'[t] = After(p)[t].md /\ ledger'[t] = After(p)[t].ledger
        BY <2>1, <3>1 DEF Activate
      <4> QED
        BY <1>5, <3>1, <4>1
    <3>2. CASE t \notin req[p].tasks
      BY <1>2, <1>6, <2>1, <2>2, <3>2 DEF Agreement
    <3> QED
      BY <3>1, <3>2
  <2>3. intent'.tasks = {}
    BY <2>1 DEF NoIntent
  <2> QED
    BY <1>7, <2>2, <2>3 DEF Agreement, ImagesAgree, Agree, LastOf
<1>9. CASE \E mds, ledgers \in SUBSET req[p].tasks : Interrupt(p, mds, ledgers)
  <2>1. /\ intent'.tasks = req[p].tasks /\ intent'.before = Before(p) /\ intent'.after = After(p)
        /\ edited' = edited
    BY <1>9 DEF Interrupt
  <2>2. ASSUME NEW t \in Task, t \notin intent'.tasks, t \notin edited'
        PROVE  Agree(md'[t], ledger'[t])
    BY <1>2, <1>6, <2>1, <2>2 DEF Agreement
  <2>3. ASSUME NEW t \in req[p].tasks, t \notin edited
        PROVE  Agree(Before(p)[t].md, Before(p)[t].ledger)
    <3>1. t \in Task
      BY <1>1 DEF LedgerInv, CallsOK, Calling, Holding, Writing
    <3>2. Agree(md[t], ledger[t])
      BY <1>2, <2>3, <3>1 DEF Agreement
    <3> QED
      BY <3>2 DEF Before
  <2> QED
    BY <1>5, <1>7, <2>1, <2>2, <2>3 DEF Agreement, ImagesAgree, Agree, LastOf
<1> QED
  BY <1>8, <1>9

\* Kept or rolled back, what an intent leaves agrees; nobody is about to write an
\* old reading then.
LEMMA RecoveringAgrees ==
    ASSUME LedgerInv, Agreement, NEW p \in Procs, Recover(p)
    PROVE  Agreement'
<1>1. /\ intent # NoIntent /\ intent' = NoIntent
      /\ IF Completed THEN edited' = edited \ intent.tasks /\ UNCHANGED <<md, ledger>>
         ELSE /\ md' = [t \in Task |-> IF t \in intent.tasks THEN intent.before[t].md ELSE md[t]]
              /\ ledger' = [t \in Task |-> IF t \in intent.tasks THEN intent.before[t].ledger
                                                                 ELSE ledger[t]]
              /\ UNCHANGED edited
  BY DEF Recover
<1>2. ASSUME NEW q \in Procs PROVE Faithful(q)'
  <2>1. pc[q] \notin Holding /\ pc'[p] = "board" /\ (q # p => pc'[q] = pc[q])
    BY Settled DEF LedgerInv
  <2>2. pc[q] \notin Reconcilers
    BY <1>1 DEF LedgerInv, Apart
  <2> QED
    BY <2>1, <2>2 DEF Faithful, Reconcilers, Holding, Writing
<1>3. ASSUME NEW t \in Task, t \notin edited' PROVE Agree(md'[t], ledger'[t])
  <2>1. CASE Completed
    <3>1. t \in intent.tasks => md[t] = intent.after[t].md /\ ledger[t] = intent.after[t].ledger
      BY <2>1 DEF Completed
    <3> QED
      BY <1>1, <1>3, <2>1, <3>1 DEF Agreement, ImagesAgree
  <2>2. CASE ~Completed
    BY <1>1, <1>3, <2>2 DEF Agreement, ImagesAgree
  <2> QED
    BY <2>1, <2>2
<1>4. intent'.tasks = {}
  BY <1>1 DEF NoIntent
<1> QED
  BY <1>2, <1>3, <1>4 DEF Agreement, ImagesAgree, Agree, LastOf

LEMMA EditingAgrees ==
    ASSUME LedgerInv, Agreement, NEW t \in Task, NEW r \in Record, Edit(t, r)
    PROVE  Agreement'
<1>1. /\ md' = [md EXCEPT ![t] = r] /\ edited' = edited \cup {t}
      /\ UNCHANGED <<ledger, pc, req, intent>> /\ md = [u \in Task |-> md[u]]
  BY DEF Edit, LedgerInv, FilesOK, Boards
<1>2. ASSUME NEW q \in Procs PROVE Faithful(q)'
  BY <1>1, FaithfulOthers
<1>3. ASSUME NEW u \in Task, u \notin intent'.tasks \cup edited' PROVE Agree(md'[u], ledger'[u])
  BY <1>1, <1>3 DEF Agreement
<1>4. ImagesAgree'
  BY <1>1 DEF Agreement, ImagesAgree, Agree, LastOf
<1> QED
  BY <1>2, <1>3, <1>4 DEF Agreement, Agree, LastOf

LEMMA StartedAgreeing ==
    ASSUME Init
    PROVE  Agreement
<1>1. intent.tasks = {} /\ \A p \in Procs : Faithful(p)
  BY DEF Init, NoIntent, Faithful, Reconcilers
<1>2. ASSUME NEW t \in Task PROVE Agree(md[t], ledger[t])
  <2>1. CASE md[t] = Gone
    <3>1. ledger[t] = <<>>
      BY <2>1 DEF Init
    <3> QED
      BY <2>1, <3>1 DEF Agree, LastOf
  <2>2. CASE md[t] # Gone
    <3> DEFINE e == NewEvent("create", Gone, md[t], 0)
    <3>1. ledger[t] = <<e>> /\ e.after = md[t]
      BY <2>2 DEF Init, NewEvent
    <3> HIDE DEF e
    <3>2. <<e>> # <<>> /\ Last(<<e>>) = e
      BY DEF Last
    <3> QED
      BY <2>2, <3>1, <3>2 DEF Agree, LastOf
  <2> QED
    BY <2>1, <2>2
<1> QED
  BY <1>1, <1>2 DEF Agreement, ImagesAgree

LEMMA AgreementKept ==
    ASSUME LedgerInv, Agreement, [Next]_vars
    PROVE  Agreement'
<1>1. ASSUME NEW p \in Procs, Begin(p) PROVE Agreement'
  BY <1>1, GoingOnAgrees
<1>2. ASSUME NEW p \in Procs, Progress(p) PROVE Agreement'
  <2>1. \/ TakeBoard(p) \/ \E t \in Task : TakeLock(p, t)
        \/ \E after \in Wanted(p) : Check(p, after)
        \/ Recover(p) \/ Reconcile(p) \/ ReconcileAppend(p) \/ Prepare(p) \/ ReconcilePrepare(p)
        \/ Commit(p)
        \/ \/ RefuseFrozen(p) \/ RecoverRefuse(p) \/ LockTimeout(p) \/ Replay(p) \/ RefuseLate(p)
           \/ \E after : Refuse(p, after)
           \/ ReconcileStale(p)
    BY <1>2 DEF Progress
  <2> QED
    BY <1>2, <2>1, GoingOnAgrees, CheckingAgrees, RecoveringAgrees, ReconcilingAgrees,
       ReplacingAgrees, StoppingAgrees
<1>3. ASSUME NEW p \in Procs, Failure(p) PROVE Agreement'
  BY <1>3, ReplacingAgrees, StoppingAgrees DEF Failure
<1>4. ASSUME NEW t \in Task, NEW r \in Record, Edit(t, r) PROVE Agreement'
  BY <1>4, EditingAgrees
<1>5. CASE UNCHANGED vars
  BY <1>5 DEF vars, Agreement, ImagesAgree, Faithful, Agree, LastOf
<1> QED
  BY <1>1, <1>2, <1>3, <1>4, <1>5 DEF Next

(***************************************************************************)
(* Theorems.                                                               *)
(***************************************************************************)

LEMMA Started ==
    ASSUME Init
    PROVE  LedgerInv
<1>1. CallsOK
  <2>1. IsCall(NoCall)
    BY DEF IsCall, NoCall
  <2>2. pc = [p \in Procs |-> "idle"] /\ req = [p \in Procs |-> NoCall]
    BY DEF Init
  <2> QED
    BY <2>1, <2>2 DEF CallsOK, Calling, Holding, Writing
<1>2. Exclusive /\ Apart /\ taskLock \in [Task -> Procs \cup {NoProc}]
  BY DEF Init, Exclusive, Apart, Holding, Writing
<1>3. \A p \in Procs : Works(p)
  BY DEF Init, Works, Typed, Locked, UpToDate, Writing, Reconcilers
<1>4. ASSUME NEW t \in Task PROVE ledger[t] \in Seq(Event) /\ Sound(ledger[t])
  <2>1. md[t] \in Record \cup {Gone}
    BY DEF Init
  <2>2. CASE md[t] = Gone
    <3>1. ledger[t] = <<>>
      BY <2>2 DEF Init
    <3> QED
      BY <3>1 DEF Sound
  <2>3. CASE md[t] # Gone
    <3> DEFINE e == NewEvent("create", Gone, md[t], 0)
    <3>1. ledger[t] = <<e>>
      BY <2>3 DEF Init
    <3>2. e \in Event /\ e.prev = 0
      BY <2>1, <2>3 DEF NewEvent, Event
    <3> HIDE DEF e
    <3> QED
      BY <3>1, <3>2 DEF Sound
  <2> QED
    BY <2>2, <2>3
<1>5. FilesOK
  <2>1. md \in Boards /\ intent.tasks = {} /\ ledger = [t \in Task |-> ledger[t]]
    BY DEF Init, Boards, NoIntent
  <2> QED
    BY <1>4, <2>1 DEF FilesOK
<1> QED
  BY <1>1, <1>2, <1>3, <1>5 DEF LedgerInv

LEMMA LedgersKept ==
    ASSUME Interrupts # "any", LedgerInv, [Next]_vars
    PROVE  LedgerInv' /\ Grows
<1>1. ASSUME NEW p \in Procs, Begin(p) PROVE LedgerInv' /\ Grows
  BY <1>1, BeginningKeeps
<1>2. ASSUME NEW p \in Procs, Progress(p) PROVE LedgerInv' /\ Grows
  <2>1. \/ TakeBoard(p) \/ \E t \in Task : TakeLock(p, t)
        \/ \E after \in Wanted(p) : Check(p, after)
        \/ Recover(p) \/ Reconcile(p) \/ ReconcileAppend(p) \/ Prepare(p) \/ ReconcilePrepare(p)
        \/ Commit(p)
        \/ \/ RefuseFrozen(p) \/ RecoverRefuse(p) \/ LockTimeout(p) \/ Replay(p) \/ RefuseLate(p)
           \/ \E after : Refuse(p, after)
           \/ ReconcileStale(p)
    BY <1>2 DEF Progress
  <2> QED
    BY <1>2, <2>1, LockingKeeps, CheckingKeeps, RecoveringKeeps, ReconcilingKeeps, PreparingKeeps,
       ReplacingKeeps, StoppingKeeps
<1>3. ASSUME NEW p \in Procs, Failure(p) PROVE LedgerInv' /\ Grows
  BY <1>3, ReplacingKeeps, StoppingKeeps DEF Failure
<1>4. ASSUME NEW t \in Task, NEW r \in Record, Edit(t, r) PROVE LedgerInv' /\ Grows
  BY <1>4, EditingKeeps
<1>5. CASE UNCHANGED vars
  <2>1. UNCHANGED <<md, ledger, board, taskLock, pc, req, intent>>
    BY <1>5 DEF vars
  <2>2. CallsOK' /\ Exclusive' /\ Apart' /\ taskLock' \in [Task -> Procs \cup {NoProc}]
    BY <2>1 DEF LedgerInv, CallsOK, Exclusive, IsCall, Apart
  <2>3. \A q \in Procs : Works(q)'
    BY <2>1, Bystander
  <2>4. FilesOK' /\ Grows
    BY <2>1, FilesSame DEF LedgerInv
  <2> QED
    BY <2>2, <2>3, <2>4 DEF LedgerInv
<1> QED
  BY <1>1, <1>2, <1>3, <1>4, <1>5 DEF Next

LEMMA LedgersInvariant ==
    ASSUME Interrupts # "any"
    PROVE  Spec => []LedgerInv
<1>1. Init => LedgerInv
  BY Started
<1>2. LedgerInv /\ [Next]_vars => LedgerInv'
  BY LedgersKept
<1> QED
  BY <1>1, <1>2, PTL DEF Spec

\* No ledger ever forks: each event names the one before it, whoever appends,
\* dies, recovers and edits in whatever order, so every later command can read
\* the ledger.
THEOREM LedgersUnbroken ==
    ASSUME Interrupts # "any"
    PROVE  Spec => []ChainUnbroken
<1>1. LedgerInv => ChainUnbroken
  BY DEF LedgerInv, FilesOK, Sound, ChainUnbroken
<1> QED
  BY <1>1, LedgersInvariant, PTL

\* An update, a replacement or a reconciliation never leaves a gap between the
\* state it starts from and the state the event before it ended in.
THEOREM HistoriesContinuous ==
    ASSUME Interrupts # "any"
    PROVE  Spec => []HistoryContinuous
<1>1. LedgerInv => HistoryContinuous
  BY DEF LedgerInv, FilesOK, Sound, HistoryContinuous
<1> QED
  BY <1>1, LedgersInvariant, PTL

\* The files of an abandoned intent hold one of its two images until it is
\* settled, so the next writer can settle it.
THEOREM IntentsRecoverable ==
    ASSUME Interrupts # "any"
    PROVE  Spec => []IntentRecoverable
<1>1. LedgerInv => IntentRecoverable
  BY DEF LedgerInv, FilesOK, IntentRecoverable, Drifted
<1> QED
  BY <1>1, LedgersInvariant, PTL

\* No step, a recovery included, takes out of a ledger an event that was in it
\* when no mutation was half done.
THEOREM LedgersAppendOnly ==
    ASSUME Interrupts # "any"
    PROVE  Spec => AppendOnly
<1>1. LedgerInv /\ [Next]_vars => [\A t \in Task : IsPrefix(EffectiveLedger(t), EffectiveLedger(t)')]_vars
  BY LedgersKept DEF Grows
<1> QED
  BY <1>1, LedgersInvariant, PTL DEF Spec, AppendOnly
\* The ledger of a task that nobody works on ends in what its Markdown file says,
\* unless the file was edited and no mutation or reconciliation came by since:
\* after every mutation, failure and recovery the two histories of a task agree.
THEOREM LedgersConverge ==
    ASSUME Interrupts # "any"
    PROVE  Spec => []Converged
<1>1. Init => LedgerInv /\ Agreement
  BY Started, StartedAgreeing
<1>2. LedgerInv /\ Agreement /\ [Next]_vars => LedgerInv' /\ Agreement'
  BY LedgersKept, AgreementKept
<1>3. Agreement => Converged
  BY DEF Agreement, Agree, LastOf, LastAfter, Converged
<1> QED
  BY <1>1, <1>2, <1>3, PTL DEF Spec
=============================================================================
