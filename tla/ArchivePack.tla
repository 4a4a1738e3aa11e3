---------------------------- MODULE ArchivePack ----------------------------
(***************************************************************************)
(* create_archive and recover_archive of kanban/archive.py: moving tasks   *)
(* from the hot tier (a Markdown file and a ledger each) to the cold one   *)
(* (records of immutable packs) in one Git commit.                         *)
(*                                                                         *)
(* The command backs the hot files up in a stage outside the work tree and *)
(* writes ARCHIVE_PACK_FREEZE.json, which mutations respect and recovery   *)
(* reads.  It copies the packs, removes the hot files and commits.  An     *)
(* error before the commit undoes all that; one after it leaves the freeze *)
(* to recover_archive.  Mutations look for the freeze before they wait for *)
(* the board lock, and the archive commands do not take that lock.         *)
(*                                                                         *)
(* A task's files, hot or in a pack, are the number of its version; 0 is   *)
(* no file.  A version is never written twice, as last_modified is in it.  *)
(***************************************************************************)
EXTENDS Naturals, Sequences, SequencesExt

CONSTANTS
    Procs, NoProc,
    Task,
    FaultKinds, \* "error" (an Exception), "copy" (one half-way through a copy),
                \* "interrupt" (a KeyboardInterrupt), "kill",
                \* "reset" (a git reset that fails, which is not looked at)
    MaxVersion, \* bounds on versions, commits by people, and faults
    MaxCommits,
    MaxFaults

ASSUME ProcsAssumption == NoProc \notin Procs
ASSUME FaultsAssumption == FaultKinds \subseteq {"error", "copy", "interrupt", "kill", "reset"}
ASSUME BoundsAssumption == {MaxVersion, MaxCommits, MaxFaults} \subseteq Nat

VARIABLES
    hot,        \* task -> version in the work tree, 0 if none
    cold,       \* task -> version in the packs in the work tree, 0 if none
    log,        \* commits, the last one HEAD: the tiers as committed, and by whom
    staged,     \* where the index differs from HEAD: hot files it lacks, packs it has
    freeze,     \* ARCHIVE_PACK_FREEZE.json
    stage,      \* the backups of the frozen archiving: task -> version
    owner,      \* holder of juno-archive-pack.lock
    pc,         \* process -> where it is
    job,        \* process -> what it is about
    receipts,   \* receipts written
    acked,      \* task -> last version a mutation has reported
    raced,      \* history: tasks written, or packs torn, under or across an archiving
    commits,    \* commits by people
    faults

vars == <<hot, cold, log, staged, freeze, stage, owner, pc, job, receipts,
          acked, raced, commits, faults>>

Tier == [Task -> 0..MaxVersion]
Index == {"hot", "packs"} \X Task
Part == UNION {[S -> 0..MaxVersion] : S \in SUBSET Task}

NoFreeze == [phase |-> "none"]
NoStage  == <<>>
NoJob    == [kind |-> "none"]

\* What the freeze records: source_head, hot_paths, archive_paths and commit.
Freeze == [phase : {"frozen", "activating", "committed", "verified"}, source : Nat,
           tasks : SUBSET Task, packs : SUBSET Task, commit : Nat]

\* plan: the versions the sealed plan selects; left: what a loop has left.
Archiving == [kind : {"create"}, source : Nat, parent : Nat, plan : Part, backup : Part,
              packed : Part, activated : SUBSET Task, left : SUBSET Task]
Recovery  == [kind : {"recover"}, left : SUBSET Task]
Mutation  == [kind : {"update"}, task : Task, version : 0..MaxVersion]

\* The points of create_archive inside its try statement, before and after the
\* commit, and inside its except clause.
Uncommitted == {"frozen", "packed", "checked", "copying", "unlinking", "staging", "removing",
                "committing"}
Committed   == {"recording", "doctor", "receipt", "marking", "unfreeze"}
Undoing     == {"undo", "restoring", "discarding", "thawing"}
Recovering  == {"recover", "returning", "dropping", "inspecting", "cleaning", "releasing",
                "confirming", "finishing"}

TypeOK ==
    /\ {hot, cold, acked} \subseteq Tier
    /\ log \in Seq([hot : Tier, cold : Tier, by : {"people", "archive"}]) /\ log # <<>>
    /\ staged \subseteq Index
    /\ freeze \in Freeze \cup {NoFreeze}
    /\ stage \in Part
    /\ owner \in Procs \cup {NoProc}
    /\ pc \in [Procs -> {"idle", "verified", "saved", "admitted", "writing"}
                        \cup Uncommitted \cup Committed \cup Undoing \cup Recovering]
    /\ job \in [Procs -> Archiving \cup Recovery \cup Mutation \cup {NoJob}]
    /\ \A r \in receipts : r \in [tasks : SUBSET Task, source : Nat, commit : Nat]
    /\ raced \subseteq Task
    /\ commits \in 0..MaxCommits
    /\ faults \in 0..MaxFaults

Tip == Last(log)
HeadId == Len(log)

Init ==
    /\ hot \in [Task -> 0..1]
    /\ cold = [t \in Task |-> 0]
    /\ log = <<[hot |-> hot, cold |-> cold, by |-> "people"]>>
    /\ staged = {}
    /\ freeze = NoFreeze
    /\ stage = NoStage
    /\ owner = NoProc
    /\ pc = [p \in Procs |-> "idle"]
    /\ job = [p \in Procs |-> NoJob]
    /\ receipts = {}
    /\ acked = hot
    /\ raced = {}
    /\ commits = 0
    /\ faults = 0

Goto(p, label) == pc' = [pc EXCEPT ![p] = label]

Return(p) ==
    /\ Goto(p, "idle")
    /\ job' = [job EXCEPT ![p] = NoJob]
    /\ owner' = IF owner = p THEN NoProc ELSE owner

Fault(kind) ==
    /\ kind \in FaultKinds
    /\ faults < MaxFaults
    /\ faults' = faults + 1

\* git status --porcelain is empty: no edit, nothing staged, no unknown pack.
Clean == staged = {} /\ hot = Tip.hot /\ cold = Tip.cold

\* versions restricted to a set of tasks, and put back.
On(S, tier) == [t \in S |-> tier[t]]
Put(tier, S, version) == [t \in Task |-> IF t \in S THEN version[t] ELSE tier[t]]

Selected(p) == DOMAIN job[p].plan

(***************************************************************************)
(* create_archive.  A call that finds the lock taken, a freeze or an       *)
(* unclean work tree changes nothing.                                      *)
(***************************************************************************)

Mutating(q) == pc[q] \in {"admitted", "writing"}

\* The sealed plan holds: its HEAD and its versions are the current ones.
Verify(p, S) ==
    /\ pc[p] = "idle"
    /\ owner = NoProc
    /\ freeze = NoFreeze
    /\ Clean
    /\ S # {} /\ \A t \in S : hot[t] # 0 /\ cold[t] = 0
    /\ owner' = p
    /\ job' = [job EXCEPT ![p] = [kind |-> "create", source |-> HeadId, parent |-> 0,
                                  plan |-> On(S, hot), backup |-> NoStage,
                                  packed |-> NoStage, activated |-> {}, left |-> {}]]
    /\ Goto(p, "verified")
    /\ UNCHANGED <<hot, cold, log, staged, freeze, stage, receipts, acked, raced, commits, faults>>

BackUp(p) ==
    /\ pc[p] = "verified"
    /\ job' = [job EXCEPT ![p].parent = HeadId, ![p].backup = On(Selected(p), hot)]
    /\ Goto(p, "saved")
    /\ UNCHANGED <<hot, cold, log, staged, freeze, stage, owner, receipts, acked, raced, commits, faults>>

WriteFreeze(p) ==
    /\ pc[p] = "saved"
    /\ freeze' = [phase |-> "frozen", source |-> job[p].parent, tasks |-> Selected(p),
                  packs |-> {}, commit |-> 0]
    /\ stage' = job[p].backup
    /\ Goto(p, "frozen")
    /\ UNCHANGED <<hot, cold, log, staged, owner, job, receipts, acked, raced, commits, faults>>

\* The records are read again and written to packs in the stage.
Pack(p) ==
    /\ pc[p] = "frozen"
    /\ job' = [job EXCEPT ![p].packed = On(Selected(p), hot)]
    /\ Goto(p, "packed")
    /\ UNCHANGED <<hot, cold, log, staged, freeze, stage, owner, receipts, acked, raced, commits, faults>>

\* The plan is verified again.
Recheck(p) ==
    /\ pc[p] = "packed"
    /\ Goto(p, IF HeadId = job[p].source /\ On(Selected(p), hot) = job[p].plan
               THEN "checked" ELSE "undo")
    /\ UNCHANGED <<hot, cold, log, staged, freeze, stage, owner, job, receipts, acked, raced, commits, faults>>

MarkActivating(p) ==
    /\ pc[p] = "checked"
    /\ freeze' = [freeze EXCEPT !.phase = "activating", !.packs = Selected(p)]
    /\ job' = [job EXCEPT ![p].left = Selected(p)]
    /\ Goto(p, "copying")
    /\ UNCHANGED <<hot, cold, log, staged, stage, owner, receipts, acked, raced, commits, faults>>

\* One round of a loop over the selected tasks, the last one going on to next.
Loop(p, t, next) ==
    /\ t \in job[p].left
    /\ Goto(p, IF job[p].left = {t} THEN next ELSE pc[p])

CopyPack(p, t) ==
    /\ pc[p] = "copying"
    /\ Loop(p, t, "unlinking")
    /\ cold' = [cold EXCEPT ![t] = job[p].packed[t]]
    /\ job' = [job EXCEPT ![p].left = IF @ = {t} THEN Selected(p) ELSE @ \ {t},
                          ![p].activated = @ \cup {t}]
    /\ UNCHANGED <<hot, log, staged, freeze, stage, owner, receipts, acked, raced, commits, faults>>

\* A pack that is there, in whole or in part, but is not in activated.
CopyFault(p, t) ==
    /\ pc[p] = "copying"
    /\ t \in job[p].left
    /\ Fault("copy")
    /\ cold' = [cold EXCEPT ![t] = job[p].packed[t]]
    /\ raced' = raced \cup {t}
    /\ Goto(p, "undo")
    /\ UNCHANGED <<hot, log, staged, freeze, stage, owner, job, receipts, acked, commits>>

Unlink(p, t) ==
    /\ pc[p] = "unlinking"
    /\ Loop(p, t, "staging")
    /\ hot' = [hot EXCEPT ![t] = 0]
    /\ job' = [job EXCEPT ![p].left = @ \ {t}]
    /\ UNCHANGED <<cold, log, staged, freeze, stage, owner, receipts, acked, raced, commits, faults>>

\* git add of the packs.
StageIndex(p) ==
    /\ pc[p] = "staging"
    /\ staged' = staged \cup ({"packs"} \X Selected(p))
    /\ Goto(p, "removing")
    /\ UNCHANGED <<hot, cold, log, freeze, stage, owner, job, receipts, acked, raced, commits, faults>>

\* git rm of the hot files; it refuses when one is there again and differs.
RemoveIndex(p) ==
    /\ pc[p] = "removing"
    /\ \A t \in Selected(p) : hot[t] = 0
    /\ staged' = staged \cup ({"hot"} \X Selected(p))
    /\ Goto(p, "committing")
    /\ UNCHANGED <<hot, cold, log, freeze, stage, owner, job, receipts, acked, raced, commits, faults>>

RefuseRemoval(p) ==
    /\ pc[p] = "removing"
    /\ \E t \in Selected(p) : hot[t] # 0
    /\ Goto(p, "undo")
    /\ UNCHANGED <<hot, cold, log, staged, freeze, stage, owner, job, receipts, acked, raced, commits, faults>>

\* Mutant of Commit: the hot paths are not named.
CommitPacks(p) ==
    /\ pc[p] = "committing"
    /\ log' = Append(log, [hot |-> Tip.hot, cold |-> Put(Tip.cold, Selected(p), cold), by |-> "archive"])
    /\ staged' = {"hot"} \X Selected(p)
    /\ Goto(p, "recording")
    /\ UNCHANGED <<hot, cold, freeze, stage, owner, job, receipts, acked, raced, commits, faults>>

\* git commit -- paths: their state in the work tree, on top of any HEAD.
Commit(p) ==
    /\ pc[p] = "committing"
    /\ log' = Append(log, [hot  |-> Put(Tip.hot, Selected(p), hot),
                           cold |-> Put(Tip.cold, Selected(p), cold), by |-> "archive"])
    /\ staged' = staged \ ({"hot", "packs"} \X Selected(p))
    /\ Goto(p, "recording")
    /\ UNCHANGED <<hot, cold, freeze, stage, owner, job, receipts, acked, raced, commits, faults>>

RecordCommit(p) ==
    /\ pc[p] = "recording"
    /\ freeze' = [freeze EXCEPT !.phase = "committed", !.commit = HeadId]
    /\ Goto(p, "doctor")
    /\ UNCHANGED <<hot, cold, log, staged, stage, owner, job, receipts, acked, raced, commits, faults>>

\* What the doctors find here: a task in both tiers.
Healthy == \A t \in Task : hot[t] = 0 \/ cold[t] = 0

\* The except clause raises again, the finally clause removes the stage.
GiveUp(p) ==
    /\ stage' = NoStage
    /\ Return(p)
    /\ UNCHANGED <<hot, cold, log, staged, freeze, receipts, acked, raced, commits>>

Doctor(p) ==
    /\ pc[p] = "doctor"
    /\ Healthy
    /\ Goto(p, "receipt")
    /\ UNCHANGED <<hot, cold, log, staged, freeze, stage, owner, job, receipts, acked, raced, commits, faults>>

DoctorFails(p) ==
    /\ pc[p] = "doctor"
    /\ ~Healthy
    /\ GiveUp(p)
    /\ UNCHANGED faults

Receipt == [tasks |-> freeze.tasks, source |-> freeze.source, commit |-> freeze.commit]

WriteReceipt(p) ==
    /\ pc[p] = "receipt"
    /\ receipts' = receipts \cup {Receipt}
    /\ Goto(p, "marking")
    /\ UNCHANGED <<hot, cold, log, staged, freeze, stage, owner, job, acked, raced, commits, faults>>

MarkVerified(p) ==
    /\ pc[p] = "marking"
    /\ freeze' = [freeze EXCEPT !.phase = "verified"]
    /\ Goto(p, "unfreeze")
    /\ UNCHANGED <<hot, cold, log, staged, stage, owner, job, receipts, acked, raced, commits, faults>>

Finish(p) ==
    /\ pc[p] = "unfreeze"
    /\ freeze' = NoFreeze
    /\ stage' = NoStage
    /\ Return(p)
    /\ UNCHANGED <<hot, cold, log, staged, receipts, acked, raced, commits, faults>>

(***************************************************************************)
(* Its except clause.                                                      *)
(***************************************************************************)

Raise(p) ==
    /\ pc[p] \in Uncommitted
    /\ Fault("error")
    /\ Goto(p, "undo")
    /\ UNCHANGED <<hot, cold, log, staged, freeze, stage, owner, job, receipts, acked, raced, commits>>

\* git reset of those paths, check=False: when it fails, nobody notices.
Reset(paths) ==
    \/ staged' = staged \ paths /\ UNCHANGED faults
    \/ staged \cap paths # {} /\ Fault("reset") /\ UNCHANGED staged

ResetIndex(p) ==
    /\ pc[p] = "undo"
    /\ Reset({"hot", "packs"} \X Selected(p))
    /\ job' = [job EXCEPT ![p].left = Selected(p)]
    /\ Goto(p, "restoring")
    /\ UNCHANGED <<hot, cold, log, freeze, stage, owner, receipts, acked, raced, commits>>

\* Mutant of RestoreHot: the loop leaves out what it comes to last.
RestoreHotExceptLast(p, t) ==
    /\ pc[p] = "restoring"
    /\ Loop(p, t, "discarding")
    /\ hot' = IF job[p].left = {t} THEN hot ELSE [hot EXCEPT ![t] = job[p].backup[t]]
    /\ job' = [job EXCEPT ![p].left = @ \ {t}]
    /\ UNCHANGED <<cold, log, staged, freeze, stage, owner, receipts, acked, raced, commits, faults>>

RestoreHot(p, t) ==
    /\ pc[p] = "restoring"
    /\ Loop(p, t, "discarding")
    /\ hot' = [hot EXCEPT ![t] = job[p].backup[t]]
    /\ job' = [job EXCEPT ![p].left = @ \ {t}]
    /\ UNCHANGED <<cold, log, staged, freeze, stage, owner, receipts, acked, raced, commits, faults>>

\* Mutant of DiscardPacks: the packs stay.
DiscardNothing(p) ==
    /\ pc[p] = "discarding"
    /\ Goto(p, "thawing")
    /\ UNCHANGED <<hot, cold, log, staged, freeze, stage, owner, job, receipts, acked, raced, commits, faults>>

DiscardPacks(p) ==
    /\ pc[p] = "discarding"
    /\ cold' = [t \in Task |-> IF t \in job[p].activated THEN 0 ELSE cold[t]]
    /\ Goto(p, "thawing")
    /\ UNCHANGED <<hot, log, staged, freeze, stage, owner, job, receipts, acked, raced, commits, faults>>

Thaw(p) ==
    /\ pc[p] = "thawing"
    /\ freeze' = NoFreeze
    /\ stage' = NoStage
    /\ Return(p)
    /\ UNCHANGED <<hot, cold, log, staged, receipts, acked, raced, commits, faults>>

\* The except clause does not catch a KeyboardInterrupt, does nothing after the
\* commit, and may fail itself: the freeze stays, and the stage goes.
Abandon(p) ==
    /\ \/ pc[p] \in Uncommitted \cup Undoing \cup Committed /\ Fault("interrupt")
       \/ pc[p] \in Undoing \cup Committed /\ Fault("error")
    /\ GiveUp(p)

(***************************************************************************)
(* recover_archive.                                                        *)
(***************************************************************************)

StartRecovery(p) ==
    /\ pc[p] = "idle"
    /\ owner = NoProc
    /\ freeze # NoFreeze
    /\ owner' = p
    /\ job' = [job EXCEPT ![p] = [kind |-> "recover", left |-> freeze.tasks]]
    /\ Goto(p, IF freeze.phase \in {"frozen", "activating"} THEN "recover" ELSE "confirming")
    /\ UNCHANGED <<hot, cold, log, staged, freeze, stage, receipts, acked, raced, commits, faults>>

\* git status says nothing of a task's hot files.
CleanHot(t) == hot[t] = Tip.hot[t] /\ <<"hot", t>> \notin staged

RefuseRecovery(p) ==
    /\ \/ pc[p] = "recover" /\ HeadId # freeze.source
       \/ pc[p] = "returning" /\ stage = NoStage
       \/ pc[p] = "inspecting" /\ \E t \in freeze.tasks : ~CleanHot(t)
       \/ pc[p] = "confirming" /\ ~(HeadId = freeze.commit /\ HeadId = freeze.source + 1 /\ Healthy)
    /\ Return(p)
    /\ UNCHANGED <<hot, cold, log, staged, freeze, stage, receipts, acked, raced, commits, faults>>

FrozenPaths == ({"hot"} \X freeze.tasks) \cup ({"packs"} \X freeze.packs)

\* Mutant of RecoverIndex: HEAD is not compared.
RecoverIndexAnyHead(p) ==
    /\ pc[p] = "recover"
    /\ Reset(FrozenPaths)
    /\ Goto(p, "returning")
    /\ UNCHANGED <<hot, cold, log, freeze, stage, owner, job, receipts, acked, raced, commits>>

RecoverIndex(p) ==
    /\ pc[p] = "recover"
    /\ HeadId = freeze.source
    /\ Reset(FrozenPaths)
    /\ Goto(p, "returning")
    /\ UNCHANGED <<hot, cold, log, freeze, stage, owner, job, receipts, acked, raced, commits>>

RecoverHot(p, t) ==
    /\ pc[p] = "returning"
    /\ stage # NoStage
    /\ Loop(p, t, "dropping")
    /\ hot' = [hot EXCEPT ![t] = stage[t]]
    /\ job' = [job EXCEPT ![p].left = @ \ {t}]
    /\ UNCHANGED <<cold, log, staged, freeze, stage, owner, receipts, acked, raced, commits, faults>>

RecoverPacks(p) ==
    /\ pc[p] = "dropping"
    /\ cold' = [t \in Task |-> IF t \in freeze.packs THEN 0 ELSE cold[t]]
    /\ Goto(p, "inspecting")
    /\ UNCHANGED <<hot, log, staged, freeze, stage, owner, job, receipts, acked, raced, commits, faults>>

RecoverInspect(p) ==
    /\ pc[p] = "inspecting"
    /\ \A t \in freeze.tasks : CleanHot(t)
    /\ Goto(p, "cleaning")
    /\ UNCHANGED <<hot, cold, log, staged, freeze, stage, owner, job, receipts, acked, raced, commits, faults>>

RecoverStage(p) ==
    /\ pc[p] = "cleaning"
    /\ stage' = NoStage
    /\ Goto(p, "releasing")
    /\ UNCHANGED <<hot, cold, log, staged, freeze, owner, job, receipts, acked, raced, commits, faults>>

\* The recorded commit is HEAD and follows the source; the doctors agree.
RecoverConfirm(p) ==
    /\ pc[p] = "confirming"
    /\ HeadId = freeze.commit
    /\ HeadId = freeze.source + 1
    /\ Healthy
    /\ receipts' = receipts \cup {Receipt}
    /\ Goto(p, "releasing")
    /\ UNCHANGED <<hot, cold, log, staged, freeze, stage, owner, job, acked, raced, commits, faults>>

RecoverThaw(p) ==
    /\ pc[p] = "releasing"
    /\ freeze' = NoFreeze
    /\ Return(p)
    /\ UNCHANGED <<hot, cold, log, staged, stage, receipts, acked, raced, commits, faults>>

(***************************************************************************)
(* Mutations, commits by people, and processes that end early.             *)
(***************************************************************************)

\* update_task or write_task has seen no freeze, and waits for its locks.
Admit(p, t) ==
    /\ pc[p] = "idle"
    /\ freeze = NoFreeze
    /\ job' = [job EXCEPT ![p] = [kind |-> "update", task |-> t, version |-> 0]]
    /\ Goto(p, "admitted")
    /\ UNCHANGED <<hot, cold, log, staged, freeze, stage, owner, receipts, acked, raced, commits, faults>>

\* Under the board lock it finds its task, or that it is in neither tier, and
\* compares HEAD for the last time ...
Read(p) ==
    /\ pc[p] = "admitted"
    /\ \A q \in Procs : pc[q] # "writing"
    /\ LET t == job[p].task
       IN  /\ hot[t] # 0 \/ cold[t] = 0
           /\ acked[t] < MaxVersion
           /\ job' = [job EXCEPT ![p].version = acked[t] + 1]
    /\ Goto(p, "writing")
    /\ UNCHANGED <<hot, cold, log, staged, freeze, stage, owner, receipts, acked, raced, commits, faults>>

\* ... and replaces its files, whatever has happened to them since.
Write(p) ==
    /\ pc[p] = "writing"
    /\ LET t == job[p].task
       IN  /\ hot'   = [hot EXCEPT ![t] = job[p].version]
           /\ acked' = [acked EXCEPT ![t] = job[p].version]
           /\ raced' = IF owner = NoProc /\ freeze = NoFreeze /\ cold[t] = 0
                       THEN raced ELSE raced \cup {t}
    /\ Return(p)
    /\ UNCHANGED <<cold, log, staged, freeze, stage, receipts, commits, faults>>

\* The task is archived, HEAD has moved, or an error.
Refuse(p) ==
    /\ Mutating(p)
    /\ Return(p)
    /\ UNCHANGED <<hot, cold, log, staged, freeze, stage, receipts, acked, raced, commits, faults>>

\* git commit -- paths of one task's files, or of anything else.
PeopleCommit(t) ==
    /\ commits < MaxCommits
    /\ cold[t] = 0 /\ hot[t] # 0
    /\ log' = Append(log, [Tip EXCEPT !.hot[t] = hot[t], !.by = "people"])
    /\ staged' = staged \ {<<"hot", t>>}
    /\ commits' = commits + 1
    /\ UNCHANGED <<hot, cold, freeze, stage, owner, pc, job, receipts, acked, raced, faults>>

\* git reset, of what an archiving has left staged.
PeopleReset ==
    /\ owner = NoProc
    /\ staged # {}
    /\ staged' = {}
    /\ UNCHANGED <<hot, cold, log, freeze, stage, owner, pc, job, receipts, acked, raced, commits, faults>>

\* Killed, or an error where nothing catches it, that is before the freeze and
\* in the recovery.  The next process takes the slot.
Stop(p) ==
    /\ pc[p] # "idle"
    /\ \/ Fault("kill")
       \/ pc[p] \in {"verified", "saved"} \cup Recovering /\ Fault("error")
    /\ Return(p)
    /\ UNCHANGED <<hot, cold, log, staged, freeze, stage, receipts, acked, raced, commits>>

Create(p) ==
    \/ BackUp(p) \/ WriteFreeze(p) \/ Pack(p) \/ Recheck(p) \/ MarkActivating(p)
    \/ \E t \in Task : CopyPack(p, t) \/ Unlink(p, t)
    \/ StageIndex(p) \/ RemoveIndex(p) \/ RefuseRemoval(p) \/ Commit(p) \/ RecordCommit(p)
    \/ Doctor(p) \/ DoctorFails(p) \/ WriteReceipt(p) \/ MarkVerified(p) \/ Finish(p)

Undo(p) ==
    \/ ResetIndex(p) \/ DiscardPacks(p) \/ Thaw(p)
    \/ \E t \in Task : RestoreHot(p, t)

Recover(p) ==
    \/ RefuseRecovery(p) \/ RecoverIndex(p) \/ RecoverPacks(p) \/ RecoverInspect(p)
    \/ \E t \in Task : RecoverHot(p, t)
    \/ RecoverStage(p) \/ RecoverConfirm(p) \/ RecoverThaw(p)

Failure(p) ==
    \/ Raise(p) \/ Abandon(p) \/ Stop(p)
    \/ \E t \in Task : CopyFault(p, t)

Next ==
    \/ \E p \in Procs :
          \/ \E S \in SUBSET Task : Verify(p, S)
          \/ Create(p) \/ Undo(p) \/ StartRecovery(p) \/ Recover(p) \/ Failure(p)
          \/ \E t \in Task : Admit(p, t)
          \/ Read(p) \/ Write(p) \/ Refuse(p)
    \/ \E t \in Task : PeopleCommit(t)
    \/ PeopleReset

Spec == Init /\ [][Next]_vars

(***************************************************************************)
(* Properties.                                                             *)
(***************************************************************************)

\* The last version a mutation has reported is in a tier; while a freeze tells
\* people to look, it may be in HEAD only.
KeptTask(t) ==
    acked[t] # 0 =>
        acked[t] \in {hot[t], cold[t]} \cup (IF freeze = NoFreeze THEN {} ELSE {Tip.hot[t]})

\* No version is lost of a task that nobody changes under an archiving, whatever
\* fails or dies.
Kept == \A t \in Task \ raced : KeptTask(t)

\* "Plans are revision-bound and fail closed when ... selected task history
\* changes": nor is one that a mutation reports while the command is at work.  (It
\* does not hold: a mutation looks for the freeze before it waits for the board.)
AlwaysKept == \A t \in Task : KeptTask(t)

\* A task that was changed under an archiving loses versions at worst.
NeverVanishes ==
    \A t \in Task : acked[t] # 0 =>
        \/ hot[t] # 0 \/ cold[t] # 0
        \/ freeze # NoFreeze /\ Tip.hot[t] # 0

\* Unless a freeze says otherwise, a task is in one tier only, and what packs
\* hold is committed: "an archived task exists exactly once in a sealed pack".
OneTier ==
    freeze = NoFreeze => \A t \in Task \ raced : (hot[t] = 0 \/ cold[t] = 0) /\ cold[t] = Tip.cold[t]

\* When an archiving fails before its commit and leaves no freeze, the work tree
\* is as it found it: hot files those of its plan, and no packs.
FaultRestores ==
    [][\A p \in Procs :
         pc[p] \in Undoing /\ freeze # NoFreeze /\ freeze' = NoFreeze =>
            \A t \in Selected(p) \ raced : hot'[t] = job[p].plan[t] /\ cold'[t] = 0]_vars

\* "All faults before the commit restore exact hot bytes and index state": nor is
\* anything left staged.  (It does not hold: nobody looks whether the except
\* clause's own git reset has succeeded.)
IndexRestored ==
    [][\A p \in Procs :
         pc[p] \in Undoing /\ freeze # NoFreeze /\ freeze' = NoFreeze => staged' = {}]_vars

\* A receipt names the commit that moved its tasks and nothing else, and that
\* commit's parent, unless people have committed under the archiving: create_archive
\* does not compare HEAD again before it commits.
ReceiptsTrue ==
    \A r \in receipts :
        (\A i \in r.source + 1 .. r.commit : log[i].by = "archive") =>
            LET before == log[r.source]
                after  == log[r.commit]
            IN  /\ r.commit = r.source + 1
                /\ \A t \in r.tasks \ raced : after.hot[t] = 0 /\ after.cold[t] = before.hot[t]
                /\ \A t \in Task \ r.tasks : after.hot[t] = before.hot[t] /\ after.cold[t] = before.cold[t]
=============================================================================
