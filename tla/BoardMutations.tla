--------------------------- MODULE BoardMutations ---------------------------
(***************************************************************************)
(* The mutations of kanban/storage.py at the level of tasks: create,       *)
(* update, replace, delete and umbrella finalization, the reconciliation   *)
(* that follows direct edits of the Markdown files, and what they leave in *)
(* the tasks' ledgers.                                                     *)
(*                                                                         *)
(* A task is one Markdown file and one ledger, a sequence of events with   *)
(* the hashes of the task before and after.  A hash stands for what it is  *)
(* taken of, so an event holds the records themselves.  A mutation holds   *)
(* the board lock and the locks of its tasks; the reconcile command holds  *)
(* only the lock of one task; an editor holds nothing.  The transaction    *)
(* that replaces the files is one step here, or an intent that its writer  *)
(* leaves: MutationTransaction models it and shows that it may be.         *)
(***************************************************************************)
EXTENDS Naturals, Sequences, SequencesExt

CONSTANTS
    Procs, NoProc,
    Task,
    Status,     \* with "done" and possibly "archive" among them
    Body,       \* everything in a task but its status and blockers
    Marker,     \* the body with the marker of a finished umbrella
    Gone,       \* no Markdown file; also the hash None
    Tombstone,  \* what the ledger says a deleted task became
    Kinds,      \* what processes call
    Edits,      \* what people do to Markdown files: "body", "add"
    Interrupts, \* writers are interrupted while they replace files "never", at
                \* "any" time, or "apart": never while a reconcile is under way,
                \* and none starts before the intent is settled
    MaxEvents   \* no mutation is called for a task with so many events, no
                \* reconcile for one with more

Terminal == {"done", "archive"}

Record == [status : Status, blockers : SUBSET Task, body : Body]
Event  == [op : {"create", "update", "archive", "umbrella-finalize", "reconcile", "recovery"},
           before : Record \cup {Gone, Tombstone}, after : Record \cup {Tombstone},
           prev : Nat]  \* index of the event its previous_event_sha256 is of

ASSUME ProcsAssumption  == NoProc \notin Procs
ASSUME RecordAssumption == Gone \notin Record \cup {Tombstone} /\ Tombstone \notin Record
ASSUME MarkerAssumption == "umbrella" \in Kinds => Marker \in Body /\ "done" \in Status
ASSUME FaultAssumption  == Interrupts \in {"never", "apart", "any"}
ASSUME EventsAssumption == MaxEvents \in Nat

VARIABLES
    md,         \* task -> its Markdown file
    ledger,     \* task -> its events
    edited,     \* tasks edited since an event last recorded them
    board,      \* holder of board-mutation.lock
    taskLock,   \* task -> holder of its lock
    pc,         \* process -> where it is
    req,        \* process -> its call
    intent      \* the plan an interrupted writer left, if any

vars == <<md, ledger, edited, board, taskLock, pc, req, intent>>

(***************************************************************************)
(* A call: its kind, its tasks (main alone, or an umbrella and its         *)
(* children), the revisions it insists on (Gone: none), what it read, what *)
(* it will write, the ledger tips its events are prepared against, and the *)
(* events reconcile will append.                                           *)
(***************************************************************************)
NoCall == [kind |-> "none", main |-> NoProc, tasks |-> {}, expected |-> <<>>,
           read |-> <<>>, after |-> <<>>, tip |-> <<>>, events |-> <<>>]

NoIntent == [tasks |-> {}, before |-> <<>>, after |-> <<>>]

Image == [md : Record \cup {Gone}, ledger : Seq(Event)]

TypeOK ==
    /\ md \in [Task -> Record \cup {Gone}]
    /\ ledger \in [Task -> Seq(Event)]
    /\ edited \subseteq Task
    /\ board \in Procs \cup {NoProc}
    /\ taskLock \in [Task -> Procs \cup {NoProc}]
    /\ pc \in [Procs -> {"idle", "waiting", "board", "locked", "checked", "ready",
                         "prepared", "reconcile", "append", "dead"}]
    /\ \A p \in Procs :
          /\ req[p].tasks \subseteq Task
          /\ pc[p] \in {"checked", "ready", "prepared"} =>
                /\ req[p].read   \in [req[p].tasks -> Record \cup {Gone}]
                /\ req[p].after  \in [req[p].tasks -> Record \cup {Gone}]
          /\ pc[p] = "prepared" => req[p].tip \in [req[p].tasks -> Nat]
          /\ req[p].events \in Seq(Event)
    /\ intent.tasks \subseteq Task
    /\ intent.before \in [intent.tasks -> Image]
    /\ intent.after \in [intent.tasks -> Image]

(***************************************************************************)
(* Ledgers and dependencies.                                               *)
(***************************************************************************)

LastAfter(t) == IF ledger[t] = <<>> THEN Gone ELSE Last(ledger[t]).after

NewEvent(op, before, after, prev) ==
    [op |-> op, before |-> before, after |-> after, prev |-> prev]

\* What _reconcile_locked appends for a file read as r: the file wins.
ReconcileEvents(t, r) ==
    CASE ledger[t] = <<>>   -> <<NewEvent("recovery", Gone, r, 0)>>
      [] LastAfter(t) # r /\ ledger[t] # <<>>
                            -> <<NewEvent("reconcile", LastAfter(t), r, Len(ledger[t]))>>
      [] OTHER              -> <<>>

\* Append them: t counts as edited as long as the file says something else.
Reconciled(t, r, events) ==
    /\ ledger' = [ledger EXCEPT ![t] = @ \o events]
    /\ edited' = IF md[t] = r THEN edited \ {t} ELSE edited

\* A missing blocker counts as unmet (there is no cold tier here); those in
\* overrides are about to be done.
Unmet(r, overrides) ==
    {b \in r.blockers \ overrides : md[b] = Gone \/ md[b].status \notin Terminal}

Completable(r, overrides) == r.status = "done" => Unmet(r, overrides) = {}

DoneDependents(t) ==
    {u \in Task : md[u] # Gone /\ md[u].status = "done" /\ t \in md[u].blockers}

Reopens(t, r) == md[t].status \in Terminal /\ r.status \notin Terminal

(***************************************************************************)
(* Calling, and the locks.                                                 *)
(***************************************************************************)

\* A board written by the storage: every task has its creation event and no
\* done task has an unmet blocker.
Init ==
    /\ md \in [Task -> Record \cup {Gone}]
    /\ \A t \in Task : md[t] # Gone => t \notin md[t].blockers /\ Completable(md[t], {})
    /\ ledger = [t \in Task |-> IF md[t] = Gone THEN <<>>
                                ELSE <<NewEvent("create", Gone, md[t], 0)>>]
    /\ edited = {}
    /\ board = NoProc
    /\ taskLock = [t \in Task |-> NoProc]
    /\ pc = [p \in Procs |-> "idle"]
    /\ req = [p \in Procs |-> NoCall]
    /\ intent = NoIntent

Goto(p, label) == pc' = [pc EXCEPT ![p] = label]

Unlock(p) ==
    /\ board' = IF board = p THEN NoProc ELSE board
    /\ taskLock' = [t \in Task |-> IF taskLock[t] = p THEN NoProc ELSE taskLock[t]]

Return(p) ==
    /\ Goto(p, "idle")
    /\ Unlock(p)
    /\ req' = [req EXCEPT ![p] = NoCall]

Call(p, kind, main, tasks, expected) ==
    /\ pc[p] = "idle"
    /\ kind \in Kinds
    /\ \A t \in tasks : Len(ledger[t]) < MaxEvents
    /\ Goto(p, "waiting")
    /\ req' = [req EXCEPT ![p] = [NoCall EXCEPT !.kind = kind, !.main = main,
                                                !.tasks = tasks, !.expected = expected]]
    /\ UNCHANGED <<md, ledger, edited, board, taskLock, intent>>

\* Only an update may name the revision its caller last read.
CallOne(p, kind, t) ==
    \E revision \in {Gone} \cup (IF kind = "update" THEN {md[t]} ELSE {}) :
        Call(p, kind, t, {t}, [u \in {t} |-> revision])

\* The admission receipt names the revisions of the umbrella and its children.
CallUmbrella(p, u, children) ==
    /\ children # {} /\ u \notin children
    /\ \A t \in children \cup {u} : md[t] # Gone
    /\ Call(p, "umbrella", u, children \cup {u}, [t \in children \cup {u} |-> md[t]])

\* A conversion, a rollback or an archiving has frozen the board: looked up
\* before any lock is taken, and not at all by replace and delete.
RefuseFrozen(p) ==
    /\ pc[p] = "waiting"
    /\ req[p].kind \in {"create", "update", "umbrella"}
    /\ Return(p)
    /\ UNCHANGED <<md, ledger, edited, intent>>

TakeBoard(p) ==
    /\ pc[p] = "waiting"
    /\ board = NoProc
    /\ intent = NoIntent
    /\ board' = p
    /\ Goto(p, "board")
    /\ UNCHANGED <<md, ledger, edited, taskLock, req, intent>>

\* Files of the intent that hold neither their before- nor their after-image.
Drifted ==
    \E t \in intent.tasks :
        \/ md[t] \notin {intent.before[t].md, intent.after[t].md}
        \/ ledger[t] \notin {intent.before[t].ledger, intent.after[t].ledger}

\* Mutant of Completed: the ledgers are not looked at.
CompletedMarkdown == \A t \in intent.tasks : md[t] = intent.after[t].md

Completed ==
    \A t \in intent.tasks : md[t] = intent.after[t].md /\ ledger[t] = intent.after[t].ledger

\* Keep a completed mutation, roll back any other.
Recover(p) ==
    /\ pc[p] = "waiting"
    /\ board = NoProc
    /\ intent # NoIntent
    /\ ~Drifted
    /\ IF Completed
       THEN edited' = edited \ intent.tasks /\ UNCHANGED <<md, ledger>>
       ELSE /\ md' = [t \in Task |-> IF t \in intent.tasks THEN intent.before[t].md ELSE md[t]]
            /\ ledger' = [t \in Task |-> IF t \in intent.tasks THEN intent.before[t].ledger
                                                               ELSE ledger[t]]
            /\ UNCHANGED edited
    /\ intent' = NoIntent
    /\ board' = p
    /\ Goto(p, "board")
    /\ UNCHANGED <<taskLock, req>>

RecoverRefuse(p) ==
    /\ pc[p] = "waiting"
    /\ board = NoProc
    /\ intent # NoIntent
    /\ Drifted
    /\ Return(p)
    /\ UNCHANGED <<md, ledger, edited, intent>>

\* One after the other; the code takes the locks of a batch in the order of
\* their names, which no other process depends on.
TakeLock(p, t) ==
    /\ pc[p] = "board"
    /\ t \in req[p].tasks
    /\ taskLock[t] = NoProc
    /\ taskLock' = [taskLock EXCEPT ![t] = p]
    /\ IF \A u \in req[p].tasks : taskLock'[u] = p
       THEN Goto(p, "locked") ELSE UNCHANGED pc
    /\ UNCHANGED <<md, ledger, edited, board, req, intent>>

\* Mutant of LockTimeout: the locks taken so far are kept.
LockTimeoutHolding(p) ==
    /\ pc[p] = "board"
    /\ \E t \in req[p].tasks : taskLock[t] \notin {p, NoProc}
    /\ Goto(p, "idle")
    /\ board' = NoProc
    /\ req' = [req EXCEPT ![p] = NoCall]
    /\ UNCHANGED <<md, ledger, edited, taskLock, intent>>

\* Another process, running reconcile, holds on to one of them.
LockTimeout(p) ==
    /\ pc[p] = "board"
    /\ \E t \in req[p].tasks : taskLock[t] \notin {p, NoProc}
    /\ Return(p)
    /\ UNCHANGED <<md, ledger, edited, intent>>

(***************************************************************************)
(* What a call wants to write, and whether it may.                         *)
(***************************************************************************)

Finished(r) == [r EXCEPT !.status = "done", !.body = Marker]

\* The commands reject a task that blocks itself.
Wanted(p) ==
    LET t == req[p].main
    IN  CASE req[p].kind \in {"create", "update", "replace"} ->
                  {[u \in {t} |-> r] : r \in {r \in Record : t \notin r.blockers}}
          [] req[p].kind = "delete" -> {[u \in {t} |-> Gone]}
          [] OTHER -> {[u \in req[p].tasks |-> IF md[u] = Gone THEN Gone ELSE Finished(md[u])]}

MayCreate(t, r) == md[t] = Gone /\ Completable(r, {})

\* Mutant of MayUpdate: a resolved blocker may be reopened.
MayUpdateReopening(p, t, r) ==
    /\ md[t] # Gone
    /\ req[p].expected[t] \in {Gone, md[t]}
    /\ Completable(r, {})

MayUpdate(p, t, r) ==
    /\ md[t] # Gone
    /\ req[p].expected[t] \in {Gone, md[t]}
    /\ Reopens(t, r) => DoneDependents(t) = {}
    /\ Completable(r, {})

MayReplace(t, r) ==
    /\ Completable(r, {})
    /\ md[t] # Gone /\ Reopens(t, r) => DoneDependents(t) = {}

MayFinish(p) ==
    /\ \A t \in req[p].tasks : md[t] # Gone /\ md[t] = req[p].expected[t]
    /\ md[req[p].main].blockers = req[p].tasks \ {req[p].main}
    /\ \A t \in req[p].tasks : Completable(Finished(md[t]), req[p].tasks)

May(p, after) ==
    LET t == req[p].main
    IN  CASE req[p].kind = "create"  -> MayCreate(t, after[t])
          [] req[p].kind = "update"  -> MayUpdate(p, t, after[t])
          [] req[p].kind = "replace" -> MayReplace(t, after[t])
          [] req[p].kind = "delete"  -> md[t] # Gone
          [] OTHER                   -> MayFinish(p)

\* last_modified changes with every update, so the record does.
Changes(p, after) == req[p].kind = "update" => after[req[p].main] # md[req[p].main]

\* The umbrella is finished already: success, and nothing is written.
Replayed(p) ==
    /\ req[p].kind = "umbrella"
    /\ \A t \in req[p].tasks : md[t] # Gone /\ md[t] = Finished(md[t])

\* Mutant of Check: no mutation reconciles.
CheckOnly(p, after) ==
    /\ pc[p] = "locked"
    /\ ~Replayed(p)
    /\ Changes(p, after)
    /\ May(p, after)
    /\ Goto(p, "ready")
    /\ req' = [req EXCEPT ![p] =
                 [@ EXCEPT !.read = [t \in req[p].tasks |-> md[t]],
                           !.after = after]]
    /\ UNCHANGED <<md, ledger, edited, board, taskLock, intent>>

Check(p, after) ==
    /\ pc[p] = "locked"
    /\ ~Replayed(p)
    /\ Changes(p, after)
    /\ May(p, after)
    /\ Goto(p, IF req[p].kind \in {"update", "replace"} /\ md[req[p].main] # Gone
               THEN "checked" ELSE "ready")
    /\ req' = [req EXCEPT ![p] =
                 [@ EXCEPT !.read = [t \in req[p].tasks |-> md[t]],
                           !.after = after]]
    /\ UNCHANGED <<md, ledger, edited, board, taskLock, intent>>

Refuse(p, after) ==
    /\ pc[p] = "locked"
    /\ ~Replayed(p)
    /\ ~May(p, after)
    /\ Return(p)
    /\ UNCHANGED <<md, ledger, edited, intent>>

Replay(p) ==
    /\ pc[p] = "locked"
    /\ Replayed(p)
    /\ Return(p)
    /\ UNCHANGED <<md, ledger, edited, intent>>

(***************************************************************************)
(* Writing.                                                                *)
(***************************************************************************)

\* Update and replace first record what a direct edit left unrecorded.
Reconcile(p) ==
    /\ pc[p] = "checked"
    /\ LET t == req[p].main
           r == req[p].read[t]
       IN  Reconciled(t, r, ReconcileEvents(t, r))
    /\ Goto(p, "ready")
    /\ UNCHANGED <<md, board, taskLock, req, intent>>

\* The compatibility window, the model's validation, the size of the event; a
\* new ID that differs from another in case only.
RefuseLate(p) ==
    /\ pc[p] = "ready"
    /\ Return(p)
    /\ UNCHANGED <<md, ledger, edited, intent>>

Prepare(p) ==
    /\ pc[p] = "ready"
    /\ req' = [req EXCEPT ![p].tip = [t \in req[p].tasks |-> Len(ledger[t])]]
    /\ Goto(p, "prepared")
    /\ UNCHANGED <<md, ledger, edited, board, taskLock, intent>>

Operation(p, t) ==
    CASE req[p].read[t] = Gone     -> "create"
      [] req[p].kind = "delete"    -> "archive"
      [] req[p].kind = "umbrella"  -> "umbrella-finalize"
      [] OTHER                     -> "update"

PreparedEvent(p, t) ==
    NewEvent(Operation(p, t), req[p].read[t],
             IF req[p].after[t] = Gone THEN Tombstone ELSE req[p].after[t], req[p].tip[t])

\* Mutant of Before: the record as it was read.
BeforeAsRead(p) ==
    [t \in req[p].tasks |-> [md |-> req[p].read[t], ledger |-> ledger[t]]]

\* Mutant of After: the segment is replaced by the new event alone.
AfterEventOnly(p) ==
    [t \in req[p].tasks |-> [md |-> req[p].after[t], ledger |-> <<PreparedEvent(p, t)>>]]

\* The images of the plan: what is on disk, and that with the change.
Before(p) == [t \in req[p].tasks |-> [md |-> md[t], ledger |-> ledger[t]]]
After(p)  == [t \in req[p].tasks |-> [md |-> req[p].after[t],
                                      ledger |-> Append(ledger[t], PreparedEvent(p, t))]]

\* The Markdown files of tasks in mds and the ledgers of tasks in ledgers get
\* their after-images.
Activate(p, mds, ledgers) ==
    /\ md' = [t \in Task |-> IF t \in mds THEN After(p)[t].md ELSE md[t]]
    /\ ledger' = [t \in Task |-> IF t \in ledgers THEN After(p)[t].ledger ELSE ledger[t]]

Commit(p) ==
    /\ pc[p] = "prepared"
    /\ Activate(p, req[p].tasks, req[p].tasks)
    /\ edited' = edited \ req[p].tasks
    /\ Return(p)
    /\ UNCHANGED intent

\* An error before the commit point restores the files.
Fail(p) ==
    /\ pc[p] = "prepared"
    /\ Return(p)
    /\ UNCHANGED <<md, ledger, edited, intent>>

Reconciling == \E p \in Procs : pc[p] \in {"reconcile", "append"}

\* The writer is killed, or its restore fails, when some of the files have
\* their after-images.
Interrupt(p, mds, ledgers) ==
    /\ Interrupts = "any" \/ (Interrupts = "apart" /\ ~Reconciling)
    /\ pc[p] = "prepared"
    /\ Activate(p, mds, ledgers)
    /\ intent' = [tasks |-> req[p].tasks, before |-> Before(p), after |-> After(p)]
    /\ \/ Return(p)
       \/ Goto(p, "dead") /\ Unlock(p) /\ UNCHANGED req
    /\ UNCHANGED edited

Crash(p) ==
    /\ pc[p] \notin {"idle", "dead"}
    /\ Goto(p, "dead")
    /\ Unlock(p)
    /\ UNCHANGED <<md, ledger, edited, req, intent>>

(***************************************************************************)
(* The reconcile command and direct edits.                                 *)
(***************************************************************************)

\* Mutant of ReconcileRead: the task is not locked.
ReconcileReadUnlocked(p, t) ==
    /\ pc[p] = "idle"
    /\ "reconcile" \in Kinds /\ (Interrupts = "apart" => intent = NoIntent)
    /\ Len(ledger[t]) <= MaxEvents
    /\ md[t] # Gone
    /\ Goto(p, "reconcile")
    /\ req' = [req EXCEPT ![p] = [NoCall EXCEPT !.kind = "reconcile", !.main = t,
                                                !.tasks = {t}, !.read = [u \in {t} |-> md[t]]]]
    /\ UNCHANGED <<md, ledger, edited, board, taskLock, intent>>

\* One task of the command's loop: lock it and read it ...
ReconcileRead(p, t) ==
    /\ pc[p] = "idle"
    /\ "reconcile" \in Kinds /\ (Interrupts = "apart" => intent = NoIntent)
    /\ Len(ledger[t]) <= MaxEvents
    /\ md[t] # Gone
    /\ taskLock[t] = NoProc
    /\ taskLock' = [taskLock EXCEPT ![t] = p]
    /\ Goto(p, "reconcile")
    /\ req' = [req EXCEPT ![p] = [NoCall EXCEPT !.kind = "reconcile", !.main = t,
                                                !.tasks = {t}, !.read = [u \in {t} |-> md[t]]]]
    /\ UNCHANGED <<md, ledger, edited, board, intent>>

\* ... compare it with the ledger and prepare the event that is missing ...
ReconcilePrepare(p) ==
    /\ pc[p] = "reconcile"
    /\ req' = [req EXCEPT ![p].events = ReconcileEvents(req[p].main, req[p].read[req[p].main])]
    /\ Goto(p, "append")
    /\ UNCHANGED <<md, ledger, edited, board, taskLock, intent>>

\* ... and append it.  append_prepared refuses an event whose chain tip is not
\* the ledger's, but looks before it writes: both outcomes are possible where
\* the ledger has changed since.
ReconcileAppend(p) ==
    /\ pc[p] = "append"
    /\ Reconciled(req[p].main, req[p].read[req[p].main], req[p].events)
    /\ Return(p)
    /\ UNCHANGED <<md, intent>>

ReconcileStale(p) ==
    /\ pc[p] = "append"
    /\ \E i \in 1..Len(req[p].events) : req[p].events[i].prev # Len(ledger[req[p].main])
    /\ Return(p)
    /\ UNCHANGED <<md, ledger, edited, intent>>

\* People edit a Markdown file, or bring a new one, at any time, but leave the
\* files of an abandoned intent alone.
Edit(t, r) ==
    /\ t \notin intent.tasks
    /\ r # md[t]
    /\ \/ "body" \in Edits /\ md[t] # Gone /\ r = [md[t] EXCEPT !.body = r.body]
       \/ "add" \in Edits /\ md[t] = Gone /\ ledger[t] = <<>> /\ Completable(r, {})
    /\ md' = [md EXCEPT ![t] = r]
    /\ edited' = edited \cup {t}
    /\ UNCHANGED <<ledger, board, taskLock, pc, req, intent>>

(***************************************************************************)
(* The specification.                                                      *)
(***************************************************************************)

Begin(p) ==
    \/ \E kind \in {"create", "update", "replace", "delete"}, t \in Task : CallOne(p, kind, t)
    \/ \E u \in Task, children \in SUBSET Task : CallUmbrella(p, u, children)
    \/ \E t \in Task : ReconcileRead(p, t)

Progress(p) ==
    \/ RefuseFrozen(p) \/ TakeBoard(p) \/ Recover(p) \/ RecoverRefuse(p) \/ LockTimeout(p)
    \/ \E t \in Task : TakeLock(p, t)
    \/ pc[p] = "locked" /\ \E after \in Wanted(p) : Check(p, after) \/ Refuse(p, after)
    \/ Replay(p) \/ Reconcile(p) \/ RefuseLate(p) \/ Prepare(p) \/ Commit(p)
    \/ ReconcilePrepare(p) \/ ReconcileAppend(p) \/ ReconcileStale(p)

Failure(p) ==
    \/ Fail(p)
    \/ \E mds, ledgers \in SUBSET req[p].tasks : Interrupt(p, mds, ledgers)
    \/ Crash(p)

Next ==
    \/ \E p \in Procs : Begin(p) \/ Progress(p) \/ Failure(p)
    \/ \E t \in Task, r \in Record : Edit(t, r)

\* A process that is alive keeps running.
Fairness == \A p \in Procs : WF_vars(Progress(p))

Spec == Init /\ [][Next]_vars
FairSpec == Spec /\ Fairness

(***************************************************************************)
(* Properties.                                                             *)
(***************************************************************************)

\* The board as it is once an abandoned intent is rolled back or kept.
Effective(t) == IF t \in intent.tasks THEN intent.before[t].md ELSE md[t]
EffectiveLedger(t) == IF t \in intent.tasks THEN intent.before[t].ledger ELSE ledger[t]

\* "Every generic mutation to done is refused when a declared blocker is missing
\* or non-terminal; reopening a resolved blocker is likewise refused", and an
\* umbrella closes with all its children: no done task has an unmet blocker,
\* whatever mutations run and die at the same time.
DoneResolved ==
    \A t \in Task :
        Effective(t) # Gone /\ Effective(t).status = "done" =>
            \A b \in Effective(t).blockers :
                Effective(b) # Gone /\ Effective(b).status \in Terminal

\* Ledger and Markdown file agree on every task that nobody works on, unless it
\* was edited and no mutation or reconcile came by since.
Converged ==
    \A t \in Task :
        taskLock[t] = NoProc /\ t \notin intent.tasks \cup edited =>
            IF md[t] = Gone THEN LastAfter(t) \in {Gone, Tombstone} ELSE LastAfter(t) = md[t]

\* The hash chain of a ledger never forks: each event follows the one before,
\* or no later command could read the ledger.
ChainUnbroken ==
    \A t \in Task : \A i \in 1..Len(ledger[t]) : ledger[t][i].prev = i - 1

\* What doctor calls a state hash discontinuity is never left by an update, a
\* replacement or a reconciliation, whatever was edited before.  (A deletion does
\* not reconcile, and a creation after one starts from nothing.)
HistoryContinuous ==
    \A t \in Task : \A i \in 2..Len(ledger[t]) :
        ledger[t][i].op \in {"update", "reconcile"} =>
            ledger[t][i].before = ledger[t][i - 1].after

\* An abandoned intent can always be rolled back or kept: "the next canonical
\* writer will recover deterministically".
IntentRecoverable == intent # NoIntent => ~Drifted

\* An acknowledged event is never taken out of a ledger again.
AppendOnly ==
    [][\A t \in Task : IsPrefix(EffectiveLedger(t), EffectiveLedger(t)')]_vars

\* No lock is held for ever: the timeout of the task locks and the order in
\* which the locks are taken leave nobody waiting for somebody who waits.
LocksReleased ==
    \A p \in Procs :
        /\ board = p ~> board # p
        /\ \A t \in Task : taskLock[t] = p ~> taskLock[t] # p
=============================================================================
