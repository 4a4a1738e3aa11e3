------------------------ MODULE MutationTransaction ------------------------
(***************************************************************************)
(* The board transaction of kanban/storage.py: how one mutation activates  *)
(* the after-images of several files (a task's Markdown and its ledger     *)
(* segment, or those of a whole batch) so that a failure or a kill at any  *)
(* point leaves them all old or all new.                                   *)
(*                                                                         *)
(* Writers are CLI processes.  One takes the board lock, first recovers    *)
(* whatever transaction directories dead writers left, then stages its own *)
(* plan, publishes it as plan.json (the intent), replaces the files one by *)
(* one, and removes the directory.  Files are named by Path and their      *)
(* bytes are an Image; Absent is the image of a file that does not exist.  *)
(* What the images contain (tasks, events) is no matter of this module.    *)
(***************************************************************************)
EXTENDS Naturals, Sequences

CONSTANTS
    Writers,    \* process slots; one whose process was killed is not reused
    NoWriter,
    Path, Image, Absent,
    Orders,     \* the path lists callers build: task file, ledger, task file...
    Heads,      \* values of the Git identity (common dir, path, ref and HEAD)
    FaultKinds, \* where an OSError may be raised: see Fault below
    MaxFaults,  \* bound on such errors in one behaviour
    Edits       \* which files change behind the protocol's back: see Editable

NoDuplicates(s) == \A i, j \in 1..Len(s) : s[i] = s[j] => i = j

ASSUME WritersAssumption == NoWriter \notin Writers
ASSUME ImageAssumption   == Absent \in Image
ASSUME OrdersAssumption  == Orders \subseteq {s \in Seq(Path) : NoDuplicates(s)}
ASSUME HeadsAssumption   == Heads # {}
ASSUME FaultsAssumption  == MaxFaults \in Nat
ASSUME EditsAssumption   == Edits \subseteq {"free", "abandoned"}

VARIABLES
    file,       \* path -> image on disk
    head,       \* what _git_mutation_identity returns
    lock,       \* holder of board-mutation.lock
    pc,         \* writer -> where it is, see PC
    step,       \* writer -> next index of the path list it walks, else 1
    plan,       \* writer -> the plan in its transaction directory
    disk,       \* writer -> its transaction directory: absent ("none"), there
                \* without plan.json ("staged"), there with it ("published")
    target,     \* writer -> whose plan it is rolling back, while recovering
    reply,      \* writer -> outcome of its last call
    faults      \* errors raised so far

vars == <<file, head, lock, pc, step, plan, disk, target, reply, faults>>

(***************************************************************************)
(* Types and state formulas.                                               *)
(***************************************************************************)

\* A writer owns the board lock in every state but the first two and "dead".
PC == {"idle", "waiting", "dead",
       "recover", "rollback",                       \* _recover_transactions_locked
       "locked",                                    \* computing the mutation
       "staging", "intent", "activate", "removing", \* _apply_batch_transaction
       "restore", "cleanup"}                        \* its except clause

Listed(p) == {p.order[i] : i \in 1..Len(p.order)}

NoImages == [p \in Path |-> Absent]
NoPlan == [order |-> <<>>, before |-> NoImages, after |-> NoImages,
           head |-> CHOOSE h \in Heads : TRUE]

\* The images of the files a plan does not list are Absent, for definiteness.
PlanOn(order, images) ==
    [p \in Path |-> IF \E i \in 1..Len(order) : order[i] = p THEN images[p] ELSE Absent]

AtBefore(w, p) == file[p] = plan[w].before[p]
AtAfter(w, p)  == file[p] = plan[w].after[p]
AllAfter(w) == \A p \in Listed(plan[w]) : AtAfter(w, p)
\* Mutant of Drifted: an after-image counts as unknown.
DriftedUnlessOld(w) == \E p \in Listed(plan[w]) : ~AtBefore(w, p)

Drifted(w)  == \E p \in Listed(plan[w]) : ~AtBefore(w, p) /\ ~AtAfter(w, p)
Stale(w)    == plan[w].head # head

\* The writer is between the creation of its directory and its return.
Busy == {"staging", "intent", "activate", "removing", "restore", "cleanup"}
Holding == {"recover", "rollback", "locked"} \cup Busy

\* A plan.json whose writer no longer works on it.
Abandoned(w) == disk[w] = "published" /\ pc[w] \notin Busy

Plan == [order : Orders \cup {<<>>}, before : [Path -> Image],
         after : [Path -> Image], head : Heads]

TypeOK ==
    /\ file \in [Path -> Image]
    /\ head \in Heads
    /\ lock \in Writers \cup {NoWriter}
    /\ pc \in [Writers -> PC]
    /\ step \in [Writers -> Nat \ {0}]
    /\ plan \in [Writers -> Plan]
    /\ disk \in [Writers -> {"none", "staged", "published"}]
    /\ target \in [Writers -> Writers \cup {NoWriter}]
    /\ reply \in [Writers -> {"none", "ok", "error", "refused"}]
    /\ faults \in Nat

Init ==
    /\ file \in [Path -> Image]
    /\ head \in Heads
    /\ lock = NoWriter
    /\ pc = [w \in Writers |-> "idle"]
    /\ step = [w \in Writers |-> 1]
    /\ plan = [w \in Writers |-> NoPlan]
    /\ disk = [w \in Writers |-> "none"]
    /\ target = [w \in Writers |-> NoWriter]
    /\ reply = [w \in Writers |-> "none"]
    /\ faults = 0

Goto(w, label) == pc' = [pc EXCEPT ![w] = label]
StepTo(w, n)   == step' = [step EXCEPT ![w] = n]

\* Mutant of Return: the board lock is kept.
ReturnHoldingBoard(w, r) ==
    /\ Goto(w, "idle")
    /\ StepTo(w, 1)
    /\ target' = [target EXCEPT ![w] = NoWriter]
    /\ reply' = [reply EXCEPT ![w] = r]
    /\ UNCHANGED lock

\* The call of w is over: the with block of _board_lock unlocks.
Return(w, r) ==
    /\ Goto(w, "idle")
    /\ StepTo(w, 1)
    /\ lock' = NoWriter
    /\ target' = [target EXCEPT ![w] = NoWriter]
    /\ reply' = [reply EXCEPT ![w] = r]

\* An OSError: disk full, permissions, fsync; or the injected mutation fault.
Fault(kind) ==
    /\ kind \in FaultKinds
    /\ faults < MaxFaults
    /\ faults' = faults + 1

RemoveDirectory(w) ==
    /\ disk' = [disk EXCEPT ![w] = "none"]
    /\ plan' = [plan EXCEPT ![w] = NoPlan]

(***************************************************************************)
(* Entering _board_lock.                                                   *)
(***************************************************************************)

Call(w) ==
    /\ pc[w] = "idle"
    /\ Goto(w, "waiting")
    /\ reply' = [reply EXCEPT ![w] = "none"]
    /\ UNCHANGED <<file, head, lock, step, plan, disk, target, faults>>

\* flock(LOCK_EX) blocks without a timeout.
AcquireBoard(w) ==
    /\ pc[w] = "waiting"
    /\ lock = NoWriter
    /\ lock' = w
    /\ Goto(w, "recover")
    /\ UNCHANGED <<file, head, step, plan, disk, target, reply, faults>>

(***************************************************************************)
(* Recovery: the directories are visited in the order of their random      *)
(* names, hence in any order.                                              *)
(***************************************************************************)

\* Mutant of RecoverDiscard: the private staging is skipped, not removed.
RecoverDiscardSkips(w, v) ==
    /\ pc[w] = "recover"
    /\ disk[v] = "staged"
    /\ UNCHANGED vars

\* Staging that was never published, or what is left of a removed directory.
RecoverDiscard(w, v) ==
    /\ pc[w] = "recover"
    /\ disk[v] = "staged"
    /\ RemoveDirectory(v)
    /\ UNCHANGED <<file, head, lock, pc, step, target, reply, faults>>

\* The plan was made under another HEAD, or a file is neither old nor new.
RecoverRefuse(w, v) ==
    /\ pc[w] = "recover"
    /\ disk[v] = "published"
    /\ Stale(v) \/ Drifted(v)
    /\ Return(w, "refused")
    /\ UNCHANGED <<file, head, plan, disk, faults>>

Recoverable(w, v) ==
    /\ pc[w] = "recover"
    /\ disk[v] = "published"
    /\ ~Stale(v)
    /\ ~Drifted(v)

\* Mutant of RecoverKeep: one file at its after-image is enough.
RecoverKeepPartial(w, v) ==
    /\ Recoverable(w, v)
    /\ \E p \in Listed(plan[v]) : AtAfter(v, p)
    /\ disk' = [disk EXCEPT ![v] = "staged"]
    /\ UNCHANGED <<file, head, lock, pc, step, plan, target, reply, faults>>

\* Every file reached its after-image: the mutation stands.
RecoverKeep(w, v) ==
    /\ Recoverable(w, v)
    /\ AllAfter(v)
    /\ disk' = [disk EXCEPT ![v] = "staged"]
    /\ UNCHANGED <<file, head, lock, pc, step, plan, target, reply, faults>>

\* Mutant of RecoverRollback: complete mutations are rolled back too.
RecoverRollbackAlways(w, v) ==
    /\ Recoverable(w, v)
    /\ Goto(w, "rollback")
    /\ StepTo(w, 1)
    /\ target' = [target EXCEPT ![w] = v]
    /\ UNCHANGED <<file, head, lock, plan, disk, reply, faults>>

RecoverRollback(w, v) ==
    /\ Recoverable(w, v)
    /\ ~AllAfter(v)
    /\ Goto(w, "rollback")
    /\ StepTo(w, 1)
    /\ target' = [target EXCEPT ![w] = v]
    /\ UNCHANGED <<file, head, lock, plan, disk, reply, faults>>

\* One iteration of _restore_plan(plan, "before"), for the plan of v.
RestoreNext(w, v) ==
    /\ step[w] <= Len(plan[v].order)
    /\ LET p == plan[v].order[step[w]]
       IN  file' = [file EXCEPT ![p] = plan[v].before[p]]
    /\ StepTo(w, step[w] + 1)

RollbackPath(w) ==
    /\ pc[w] = "rollback"
    /\ RestoreNext(w, target[w])
    /\ UNCHANGED <<head, lock, pc, plan, disk, target, reply, faults>>

\* Mutant of RollbackDone: the directory of the plan rolled back is kept.
RollbackDoneKeeps(w) ==
    /\ pc[w] = "rollback"
    /\ step[w] > Len(plan[target[w]].order)
    /\ Goto(w, "recover")
    /\ StepTo(w, 1)
    /\ target' = [target EXCEPT ![w] = NoWriter]
    /\ UNCHANGED <<file, head, lock, plan, disk, reply, faults>>

RollbackDone(w) ==
    /\ pc[w] = "rollback"
    /\ step[w] > Len(plan[target[w]].order)
    /\ disk' = [disk EXCEPT ![target[w]] = "staged"]
    /\ Goto(w, "recover")
    /\ StepTo(w, 1)
    /\ target' = [target EXCEPT ![w] = NoWriter]
    /\ UNCHANGED <<file, head, lock, plan, reply, faults>>

RecoverDone(w) ==
    /\ pc[w] = "recover"
    /\ \A v \in Writers : disk[v] = "none"
    /\ Goto(w, "locked")
    /\ UNCHANGED <<file, head, lock, step, plan, disk, target, reply, faults>>

RecoverFault(w) ==
    /\ pc[w] \in {"recover", "rollback"}
    /\ Fault("recover")
    /\ Return(w, "refused")
    /\ UNCHANGED <<file, head, plan, disk>>

(***************************************************************************)
(* _apply_batch_transaction, entered with the lock held.                   *)
(***************************************************************************)

\* Validation, a CAS conflict or a missing task: nothing was started.
Reject(w) ==
    /\ pc[w] = "locked"
    /\ Return(w, "refused")
    /\ UNCHANGED <<file, head, plan, disk, faults>>

\* Before-images are read, after-images computed, the directory is created.
Begin(w, order, after) ==
    /\ pc[w] = "locked"
    /\ plan' = [plan EXCEPT ![w] = [order |-> order, before |-> PlanOn(order, file),
                                    after |-> PlanOn(order, after), head |-> head]]
    /\ disk' = [disk EXCEPT ![w] = "staged"]
    /\ Goto(w, "staging")
    /\ UNCHANGED <<file, head, lock, step, target, reply, faults>>

\* The except clause finds no plan.json and restores nothing.
StageFault(w) ==
    /\ pc[w] = "staging"
    /\ Fault("stage")
    /\ Goto(w, "cleanup")
    /\ UNCHANGED <<file, head, lock, step, plan, disk, target, reply>>

\* All after-images are staged; plan.json appears atomically.
Publish(w) ==
    /\ pc[w] = "staging"
    /\ disk' = [disk EXCEPT ![w] = "published"]
    /\ Goto(w, "intent")
    /\ UNCHANGED <<file, head, lock, step, plan, target, reply, faults>>

\* The HEAD is a lease: a commit since Begin calls the mutation off.
CheckIdentity(w) ==
    /\ pc[w] = "intent"
    /\ Goto(w, IF Stale(w) THEN "restore" ELSE "activate")
    /\ StepTo(w, 1)
    /\ UNCHANGED <<file, head, lock, plan, disk, target, reply, faults>>

\* Mutant of Activate: the file is truncated before it is written.
ActivateTorn(w) ==
    /\ pc[w] = "activate"
    /\ step[w] <= Len(plan[w].order)
    /\ LET p == plan[w].order[step[w]]
       IN  \E image \in {Absent, plan[w].after[p]} : file' = [file EXCEPT ![p] = image]
    /\ StepTo(w, step[w] + 1)
    /\ UNCHANGED <<head, lock, pc, plan, disk, target, reply, faults>>

Activate(w) ==
    /\ pc[w] = "activate"
    /\ step[w] <= Len(plan[w].order)
    /\ LET p == plan[w].order[step[w]]
       IN  file' = [file EXCEPT ![p] = plan[w].after[p]]
    /\ StepTo(w, step[w] + 1)
    /\ UNCHANGED <<head, lock, pc, plan, disk, target, reply, faults>>

\* Any error between plan.json's appearance and its removal.
ActivateFault(w) ==
    /\ pc[w] \in {"intent", "activate"}
    /\ Fault("activate")
    /\ Goto(w, "restore")
    /\ StepTo(w, 1)
    /\ UNCHANGED <<file, head, lock, plan, disk, target, reply>>

\* The commit point: rmtree has unlinked plan.json.
RemovePlan(w) ==
    /\ pc[w] = "activate"
    /\ step[w] > Len(plan[w].order)
    /\ disk' = [disk EXCEPT ![w] = "staged"]
    /\ Goto(w, "removing")
    /\ UNCHANGED <<file, head, lock, step, plan, target, reply, faults>>

Finish(w) ==
    /\ pc[w] = "removing"
    /\ RemoveDirectory(w)
    /\ Return(w, "ok")
    /\ UNCHANGED <<file, head, faults>>

\* The rest of rmtree, or the fsync of transactions/, fails: the except clause
\* finds no plan.json any more, restores nothing, and the call fails.
LateFault(w) ==
    /\ pc[w] = "removing"
    /\ Fault("late")
    /\ \/ RemoveDirectory(w)
       \/ UNCHANGED <<plan, disk>>
    /\ Return(w, "error")
    /\ UNCHANGED <<file, head>>

RestorePath(w) ==
    /\ pc[w] = "restore"
    /\ RestoreNext(w, w)
    /\ UNCHANGED <<head, lock, pc, plan, disk, target, reply, faults>>

\* Mutant of RestoreDone: the last file of the plan is not restored.
RestoreDoneEarly(w) ==
    /\ pc[w] = "restore"
    /\ step[w] >= Len(plan[w].order)
    /\ Goto(w, "cleanup")
    /\ UNCHANGED <<file, head, lock, step, plan, disk, target, reply, faults>>

RestoreDone(w) ==
    /\ pc[w] = "restore"
    /\ step[w] > Len(plan[w].order)
    /\ Goto(w, "cleanup")
    /\ UNCHANGED <<file, head, lock, step, plan, disk, target, reply, faults>>

\* An error inside the except clause leaves plan.json to the next writer.
RestoreFault(w) ==
    /\ pc[w] = "restore"
    /\ Fault("restore")
    /\ Return(w, "error")
    /\ UNCHANGED <<file, head, plan, disk>>

Cleanup(w) ==
    /\ pc[w] = "cleanup"
    /\ RemoveDirectory(w)
    /\ Return(w, "error")
    /\ UNCHANGED <<file, head, faults>>

\* rmtree(ignore_errors=True) may leave the directory, plan.json included.
CleanupFault(w) ==
    /\ pc[w] = "cleanup"
    /\ Fault("cleanup")
    /\ \E left \in {"staged", disk[w]} : disk' = [disk EXCEPT ![w] = left]
    /\ Return(w, "error")
    /\ UNCHANGED <<file, head, plan>>

(***************************************************************************)
(* The environment: SIGKILL, Git commits, and edits by people.             *)
(***************************************************************************)

\* The kernel drops the flock of a killed process; its directory stays.
Crash(w) ==
    /\ pc[w] \in Holding \cup {"waiting"}
    /\ Goto(w, "dead")
    /\ StepTo(w, 1)
    /\ lock' = IF lock = w THEN NoWriter ELSE lock
    /\ target' = [target EXCEPT ![w] = NoWriter]
    /\ UNCHANGED <<file, head, plan, disk, reply, faults>>

HeadMove ==
    /\ head' \in Heads \ {head}
    /\ UNCHANGED <<file, lock, pc, step, plan, disk, target, reply, faults>>

\* Nobody edits a file that a running command is replacing.  "free" edits stay
\* off abandoned plans too, "abandoned" ones do not.
Editable(p) ==
    \A w \in Writers : p \in Listed(plan[w]) =>
        /\ pc[w] \notin Busy
        /\ disk[w] = "published" => "abandoned" \in Edits

Edit(p, image) ==
    /\ Edits # {}
    /\ Editable(p)
    /\ file' = [file EXCEPT ![p] = image]
    /\ UNCHANGED <<head, lock, pc, step, plan, disk, target, reply, faults>>

(***************************************************************************)
(* The specification.                                                      *)
(***************************************************************************)

\* What a process does by itself once called.
Progress(w) ==
    \/ AcquireBoard(w)
    \/ \E v \in Writers :
          \/ RecoverDiscard(w, v) \/ RecoverRefuse(w, v)
          \/ RecoverKeep(w, v) \/ RecoverRollback(w, v)
    \/ RollbackPath(w) \/ RollbackDone(w) \/ RecoverDone(w) \/ Reject(w)
    \/ \E order \in Orders, after \in [Path -> Image] : Begin(w, order, after)
    \/ Publish(w) \/ CheckIdentity(w) \/ Activate(w) \/ RemovePlan(w) \/ Finish(w)
    \/ RestorePath(w) \/ RestoreDone(w) \/ Cleanup(w)

Failure(w) ==
    \/ RecoverFault(w) \/ StageFault(w) \/ ActivateFault(w)
    \/ LateFault(w) \/ RestoreFault(w) \/ CleanupFault(w) \/ Crash(w)

Next ==
    \/ \E w \in Writers : Call(w) \/ Progress(w) \/ Failure(w)
    \/ HeadMove
    \/ \E p \in Path, image \in Image : Edit(p, image)

\* A live process keeps running; nobody is bound to call, commit or edit.
Fairness == \A w \in Writers : WF_vars(Progress(w))

Spec == Init /\ [][Next]_vars
FairSpec == Spec /\ Fairness

(***************************************************************************)
(* Properties.                                                             *)
(***************************************************************************)

\* Recovery leaves no directory behind, so there is never more than one plan
\* that the next writer has to decide, however many writers died.
SingleIntent ==
    \A v, w \in Writers : disk[v] # "none" /\ disk[w] # "none" => v = w

\* As long as nobody edits the files of an abandoned plan, each file a plan
\* lists is old or new: recovery never meets an image it does not know.
NeverDrifts == \A w \in Writers : disk[w] = "published" => ~Drifted(w)

\* A rollback undoes a dead writer's mutation that is not complete, and what it
\* has restored stays restored: no mutation that reached all its after-images
\* is ever rolled back, not even by a recovery that is itself interrupted.
RollbackSound ==
    \A w \in Writers : pc[w] = "rollback" =>
        /\ Abandoned(target[w])
        /\ ~AllAfter(target[w])
        /\ \A i \in 1..Len(plan[target[w]].order) :
              i < step[w] => AtBefore(target[w], plan[target[w]].order[i])

\* The board lock belongs to exactly the process that is working under it.
LockOwner == \A w \in Writers : pc[w] \in Holding <=> lock = w

\* What the directory of a working writer looks like, and that nobody computes
\* a mutation while an undecided one is around.
DirectoryMatches ==
    \A w \in Writers :
        /\ pc[w] \in {"staging", "removing"} => disk[w] = "staged"
        /\ pc[w] \in {"intent", "activate", "restore"} => disk[w] = "published"
        /\ pc[w] = "cleanup" => disk[w] # "none"
        /\ pc[w] = "locked" => \A v \in Writers : disk[v] = "none"

\* A rollback works on a published plan.
TargetKnown ==
    \A w \in Writers : pc[w] = "rollback" =>
        target[w] \in Writers /\ disk[target[w]] = "published"

\* How far the files of a plan have come, by the point its writer is at.
Walk(w) ==
    /\ pc[w] \in {"staging", "intent", "cleanup"} =>
          \A p \in Listed(plan[w]) : AtBefore(w, p)
    /\ pc[w] = "removing" => AllAfter(w)
    /\ pc[w] = "activate" =>
          \A i \in 1..Len(plan[w].order) :
             /\ i < step[w]  => AtAfter(w, plan[w].order[i])
             /\ i >= step[w] => AtBefore(w, plan[w].order[i])
    /\ pc[w] = "restore" =>
          \A i \in 1..Len(plan[w].order) :
             i < step[w] => AtBefore(w, plan[w].order[i])

WalkMatches == \A w \in Writers : Walk(w)

\* The inductive invariant: everything above follows from it.
IInv ==
    /\ TypeOK
    /\ LockOwner
    /\ SingleIntent
    /\ DirectoryMatches
    /\ WalkMatches
    /\ TargetKnown
    /\ "abandoned" \notin Edits => NeverDrifts /\ RollbackSound

\* "Ordinary errors restore byte-for-byte": when a call fails, the files of its
\* plan hold what they held before it, unless the restore itself failed and
\* plan.json is left for the next writer.
ErrorRestores ==
    [][\A w \in Writers :
         reply[w] # "error" /\ reply'[w] = "error" =>
            \/ \A p \in Listed(plan[w]) : file'[p] = plan[w].before[p]
            \/ disk'[w] = "published"]_vars

\* "The next canonical writer will recover deterministically": unless an error
\* hits the recovery, no writer is turned away because of an abandoned intent.
NextWriterRecovers ==
    [][\A w \in Writers :
         pc[w] \in {"recover", "rollback"} /\ pc'[w] = "idle" => faults' > faults]_vars

\* An abandoned intent is settled as long as some writer comes by and lives.
AbandonedSettled ==
    \A w, v \in Writers :
        Abandoned(w) /\ pc[v] = "waiting" ~> disk[w] = "none" \/ pc[v] = "dead"

\* Whoever takes the board lock gives it back.
BoardReleased == \A w \in Writers : lock = w ~> lock # w

(***************************************************************************)
(* The protocol implements atomic mutations.  While a plan is published,   *)
(* its files are seen as they were before, whatever is on disk: only its   *)
(* removal decides it.                                                     *)
(***************************************************************************)

Open == {"staging", "intent", "activate", "restore", "cleanup"}

Covers(w, p) == disk[w] = "published" /\ p \in Listed(plan[w])

Seen(p) ==
    IF \E w \in Writers : Covers(w, p)
    THEN plan[CHOOSE w \in Writers : Covers(w, p)].before[p]
    ELSE file[p]

Phase(w) == CASE pc[w] \in Open          -> "open"
              [] pc[w] = "removing"      -> "committed"
              [] OTHER -> IF disk[w] = "published" THEN "orphaned" ELSE "closed"

Request(w) ==
    IF Phase(w) = "closed"
    THEN [paths |-> {}, before |-> NoImages, after |-> NoImages]
    ELSE [paths |-> Listed(plan[w]), before |-> plan[w].before, after |-> plan[w].after]

Atomic == INSTANCE AtomicMutation WITH
    board   <- [p \in Path |-> Seen(p)],
    phase   <- [w \in Writers |-> Phase(w)],
    request <- [w \in Writers |-> Request(w)]

\* Every behaviour of the protocol is one of atomic mutations: a mutation takes
\* effect on all its files or on none, whoever dies or fails, and wherever.
ImplementsAtomicMutation == Atomic!Spec
=============================================================================
