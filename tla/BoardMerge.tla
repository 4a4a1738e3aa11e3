----------------------------- MODULE BoardMerge -----------------------------
(***************************************************************************)
(* kanban/merge.py: "merge --dry-run" makes a sealed plan that brings the  *)
(* tasks of other boards into a target, "merge --apply-plan" carries it    *)
(* out.  It builds both directories of the target anew beside it and then  *)
(* puts them in their place, without the lock of the board.  The target    *)
(* and the sources may change at any time.                                 *)
(***************************************************************************)
EXTENDS TaskLedger, FiniteSets

CONSTANTS
    NoPlan,
    Name,               \* what IDs are made of, besides numbers
    Tries,              \* the names that are tried for a copy: 1000
    Targets, Sources,   \* boards, and sequences of boards, to begin with
    FaultKinds,         \* what goes wrong: "error", "interrupt", "kill"
    MaxCommands, MaxWrites

VARIABLES
    sources,    \* the boards to merge: id -> task
    tasks,      \* place -> the directory of tasks there: id -> task
    ledger,     \* place -> the directory of ledgers there: id -> ledger
    plan,       \* the plan file
    pc, run,    \* the merge that runs, or ran last
    writer,     \* a mutation of the target that is under way
    acked,      \* events of the mutations that succeeded
    raced,      \* was one of them under way where a merge does not see it?
    hurt,       \* was a merge stopped while it replaced them, or failed to restore them?
    commands, writes    \* counters

board == <<tasks, ledger>>
ghosts == <<acked, raced, hurt>>
vars == <<sources, board, plan, pc, run, writer, ghosts, commands, writes>>

\* The copy of a task has the ID of the task and a number.
Id == Seq(Name \cup Nat)
Task == [at : Nat, status : {"todo", "done"}, needs : SUBSET Id]

IsBoard(b) == DOMAIN b \subseteq Id /\ IsFiniteSet(DOMAIN b) /\ b \in [DOMAIN b -> Task]

ASSUME GoneAssumption == Gone \notin Id /\ Gone \notin Task
ASSUME TriesAssumption == Tries \in Nat \ {0}
ASSUME BoardsAssumption ==
    /\ \A b \in Targets : IsBoard(b)
    /\ \A ss \in Sources :
          ss \in Seq({ ss[i] : i \in DOMAIN ss }) /\ \A i \in DOMAIN ss : IsBoard(ss[i])

NoWriter == [step |-> "none"]

Place == {"target", "staged", "backup"}
NoTasks == [id \in {} |-> Gone]
Missing == [id \in {Gone} |-> Gone]    \* instead of a directory that is not there

At(f, id) == IF id \in DOMAIN f THEN f[id] ELSE Gone
Files(dir) == IF dir = Missing THEN NoTasks ELSE dir
LedgerOf(l, id) == IF id \in DOMAIN Files(l) THEN l[id] ELSE <<>>
Without(f, id) == [i \in DOMAIN f \ {id} |-> f[i]]

\* f, and g where f has nothing.
Over(f, g) == [id \in DOMAIN f \cup DOMAIN g |-> IF id \in DOMAIN f THEN f[id] ELSE g[id]]

\* A done task has no blocker that is not done.
Contradictory(b) ==
    \E id \in DOMAIN b :
        b[id].status = "done" /\ \E n \in b[id].needs : At(b, n) = Gone \/ b[n].status # "done"

(***************************************************************************)
(* Planning.                                                               *)
(***************************************************************************)

\* _task_snapshot raises when a task is not what its ledger says.
Agree(b, l) == \A id \in DOMAIN b : Latest(LedgerOf(l, id)).after = b[id]

\* Of two sources with a task, the later one counts.
LastWith(ss, id) ==
    CHOOSE i \in DOMAIN ss :
        id \in DOMAIN ss[i] /\ \A j \in DOMAIN ss : id \in DOMAIN ss[j] => j <= i

Combined(ss) == [id \in UNION { DOMAIN ss[i] : i \in DOMAIN ss } |-> ss[LastWith(ss, id)][id]]

\* _generate_new_id: the first number that is free.  If none is, it calls a method
\* that Task has not, and no plan is made.
Free(id, occupied) == { n \in 1..Tries : Append(id, n) \notin occupied }
NewId(id, occupied) ==
    Append(id, CHOOSE n \in Free(id, occupied) : \A m \in Free(id, occupied) : n <= m)

Nameable(src, dst, strategy) ==
    strategy = "keep-both" =>
        \A id \in DOMAIN src \cap DOMAIN dst : Free(id, DOMAIN src \cup DOMAIN dst) # {}

\* What is to be written: the new and the updated tasks.
Copies(src, dst) ==
    LET both == DOMAIN src \cap DOMAIN dst
        Copy(id) == NewId(id, DOMAIN src \cup DOMAIN dst)
    IN  [new \in { Copy(id) : id \in both } |-> src[CHOOSE id \in both : Copy(id) = new]]

Newer(src, dst) ==
    [id \in { id \in DOMAIN src \cap DOMAIN dst : src[id].at > dst[id].at /\ src[id] # dst[id] } |-> src[id]]

\* Mutant of Added: only the tasks that the target has not are in the way of a new name.
AddedOver(src, dst, strategy) ==
    IF strategy = "keep-both"
    THEN LET new == [id \in { Append(id, 1) : id \in DOMAIN src \cap DOMAIN dst } |-> src[Front(id)]]
         IN  Over(new, [id \in DOMAIN src \ DOMAIN dst |-> src[id]])
    ELSE [id \in DOMAIN src \ DOMAIN dst |-> src[id]]

Added(src, dst, strategy) ==
    Over([id \in DOMAIN src \ DOMAIN dst |-> src[id]],
         IF strategy = "keep-both" THEN Copies(src, dst) ELSE NoTasks)

Updated(src, dst, strategy) == IF strategy = "keep-newer" THEN Newer(src, dst) ELSE NoTasks

Identity ==
    LET dst == Files(tasks["target"])
    IN  [sources |-> sources, tasks |-> dst,
         heads |-> [id \in DOMAIN dst |-> Latest(LedgerOf(ledger["target"], id))]]

Planned(strategy) ==
    LET src == Combined(sources)
        dst == Files(tasks["target"])
        added == Added(src, dst, strategy)
        after == Over(added, Updated(src, dst, strategy))
        Event(id) == Prepare(LedgerOf(ledger["target"], id),
                             IF id \in DOMAIN added THEN "create" ELSE "merge", At(dst, id), after[id])
    IN  [identity |-> Identity, strategy |-> strategy, final |-> Over(after, dst),
         events |-> [id \in DOMAIN after |-> Event(id)],
         segments |-> [id \in DOMAIN after |-> SegmentOf(LedgerOf(ledger["target"], id), Event(id))]]

\* build_plan raises otherwise.
Plannable(strategy) ==
    /\ Agree(Files(tasks["target"]), ledger["target"])
    /\ Nameable(Combined(sources), Files(tasks["target"]), strategy)
    /\ ~Contradictory(Planned(strategy).final)

\* All of a plan but what its events contain of the moment.
Unvolatile(p) ==
    [p EXCEPT !.events = [id \in DOMAIN @ |-> [op |-> @[id].op, after |-> @[id].after]]]

NoRun == [end |-> "none", hadTasks |-> FALSE, hadLedger |-> FALSE, putTasks |-> FALSE,
          putLedger |-> FALSE, staged |-> <<>>, before |-> <<>>]

Init ==
    /\ sources \in Sources
    /\ \E b \in Targets, deleted \in BOOLEAN :
          LET Made(id) == Appended(<<>>, Prepare(<<>>, "create", Gone, b[id]))
              Lost(id) == Appended(<<>>, Prepare(<<>>, "create", Gone, Combined(sources)[id]))
              Old(id) == Appended(Lost(id), Prepare(Lost(id), "delete", Combined(sources)[id], Gone))
              old == IF deleted THEN DOMAIN Combined(sources) \ DOMAIN b ELSE {}
          IN  /\ tasks = [p \in Place |-> IF p = "target" /\ (b # NoTasks \/ deleted) THEN b ELSE Missing]
              /\ ledger = [p \in Place |->
                    IF p = "target" /\ (b # NoTasks \/ deleted)
                    THEN [id \in DOMAIN b \cup old |-> IF id \in DOMAIN b THEN Made(id) ELSE Old(id)]
                    ELSE Missing]
    /\ plan = NoPlan /\ pc = "idle" /\ run = NoRun /\ writer = NoWriter
    /\ acked = {} /\ raced = FALSE /\ hurt = FALSE
    /\ commands = 0 /\ writes = 0

\* merge --dry-run --plan-file
MakePlan(strategy) ==
    /\ pc = "idle" /\ commands < MaxCommands
    /\ Plannable(strategy)
    /\ plan' = Planned(strategy)
    /\ commands' = commands + 1
    /\ UNCHANGED <<sources, board, pc, run, writer, ghosts, writes>>

(***************************************************************************)
(* merge --apply-plan --receipt-file                                       *)
(***************************************************************************)

Goto(step) == pc' = step

\* Mutant of Fresh: some plan can be derived, be it another one.
FreshOnce == Plannable(plan.strategy)
Fresh == Plannable(plan.strategy) /\ Planned(plan.strategy).identity = plan.identity

\* The plan can still be derived; else it is refused, and nothing happens.
Apply ==
    /\ pc = "idle" /\ plan # NoPlan /\ commands < MaxCommands
    /\ Fresh /\ Unvolatile(Planned(plan.strategy)) = Unvolatile(plan)
    /\ commands' = commands + 1
    /\ run' = NoRun
    /\ Goto("copy tasks")
    /\ UNCHANGED <<sources, board, plan, writer, ghosts, writes>>

\* copytree, first of the tasks and then of the ledger.
CopyTasks ==
    /\ pc = "copy tasks"
    /\ tasks' = [tasks EXCEPT !["staged"] = Files(tasks["target"])]
    /\ Goto("copy ledger")
    /\ UNCHANGED <<sources, ledger, plan, run, writer, ghosts, commands, writes>>

CopyLedger ==
    /\ pc = "copy ledger"
    /\ ledger' = [ledger EXCEPT !["staged"] = Files(ledger["target"])]
    /\ run' = [run EXCEPT !.hadTasks = tasks["target"] # Missing, !.hadLedger = ledger["target"] # Missing]
    /\ Goto("stage")
    /\ UNCHANGED <<sources, tasks, plan, writer, ghosts, commands, writes>>

\* Mutant of Appendable: append_prepared trusts the tip of the plan.
AppendableAnyway(id) == Fits(plan.events[id])
Appendable(id) == Fits(plan.events[id]) /\ ~StaleTip(LedgerOf(ledger["staged"], id), plan.events[id])

\* Every planned mutation can be made in the copy, and reaches its planned paths.
Stageable ==
    \A id \in DOMAIN plan.events :
        /\ At(tasks["staged"], id) = plan.events[id].before
        /\ Appendable(id)
        /\ SegmentOf(LedgerOf(ledger["staged"], id), plan.events[id]) = plan.segments[id]

Stage ==
    /\ pc = "stage" /\ Stageable
    /\ LET ids == DOMAIN plan.events
           done == [id \in ids |-> plan.events[id].after]
           told == [id \in ids |-> Appended(LedgerOf(ledger["staged"], id), plan.events[id])]
       IN  /\ tasks' = [tasks EXCEPT !["staged"] = Over(done, @)]
           /\ ledger' = [ledger EXCEPT !["staged"] = Over(told, @)]
           /\ run' = [run EXCEPT !.staged = <<done, told>>]
    /\ Goto("check")
    /\ UNCHANGED <<sources, plan, writer, ghosts, commands, writes>>

\* The last look at the target before it is replaced.
Check ==
    /\ pc = "check"
    /\ Fresh
    /\ run' = [run EXCEPT !.before = <<tasks["target"], ledger["target"]>>]
    /\ raced' = (raced \/ writer # NoWriter)
    /\ Goto("save tasks")
    /\ UNCHANGED <<sources, board, plan, writer, acked, hurt, commands, writes>>

SaveTasks ==
    /\ pc = "save tasks"
    /\ tasks' = IF run.hadTasks
                THEN [tasks EXCEPT !["backup"] = tasks["target"], !["target"] = Missing]
                ELSE tasks
    /\ Goto("put tasks")
    /\ UNCHANGED <<sources, ledger, plan, run, writer, ghosts, commands, writes>>

\* A directory that is not empty is not replaced.
PutTasks ==
    /\ pc = "put tasks"
    /\ tasks["target"] \in {Missing, NoTasks}
    /\ tasks' = [tasks EXCEPT !["target"] = tasks["staged"], !["staged"] = Missing]
    /\ run' = [run EXCEPT !.putTasks = TRUE]
    /\ Goto("save ledger")
    /\ UNCHANGED <<sources, ledger, plan, writer, ghosts, commands, writes>>

SaveLedger ==
    /\ pc = "save ledger"
    /\ ledger' = IF run.hadLedger
                 THEN [ledger EXCEPT !["backup"] = ledger["target"], !["target"] = Missing]
                 ELSE ledger
    /\ Goto("put ledger")
    /\ UNCHANGED <<sources, tasks, plan, run, writer, ghosts, commands, writes>>

PutLedger ==
    /\ pc = "put ledger"
    /\ ledger["target"] \in {Missing, NoTasks}
    /\ ledger' = [ledger EXCEPT !["target"] = ledger["staged"], !["staged"] = Missing]
    /\ run' = [run EXCEPT !.putLedger = TRUE]
    /\ Goto("receipt")
    /\ UNCHANGED <<sources, tasks, plan, writer, ghosts, commands, writes>>

AsStaged ==
    run.staged = << [id \in DOMAIN plan.events |-> At(Files(tasks["target"]), id)],
                    [id \in DOMAIN plan.events |-> LedgerOf(ledger["target"], id)] >>

Dropped(dirs) == [dirs EXCEPT !["staged"] = Missing, !["backup"] = Missing]

\* The result is what was staged: a receipt, and the temporary directory goes.
Receipt ==
    /\ pc = "receipt"
    /\ AsStaged
    /\ tasks' = Dropped(tasks) /\ ledger' = Dropped(ledger)
    /\ run' = [run EXCEPT !.end = "applied", !.before = <<>>, !.staged = <<>>]
    /\ Goto("idle")
    /\ UNCHANGED <<sources, plan, writer, ghosts, commands, writes>>

Copying == {"copy tasks", "copy ledger"}
Trying == {"stage", "check", "save tasks", "put tasks", "save ledger", "put ledger", "receipt"}
Working == Copying \cup Trying
Restoring == {"restore ledger", "restore tasks"}
Replacing == {"save tasks", "put tasks", "save ledger", "put ledger", "receipt"} \cup Restoring

TypeOK ==
    /\ DOMAIN tasks = Place /\ DOMAIN ledger = Place
    /\ pc \in {"idle"} \cup Working \cup Restoring
    /\ run.end \in {"none", "applied", "failed", "broken", "lost", "stopped"}
    /\ pc = "idle" => \A p \in {"staged", "backup"} : tasks[p] = Missing /\ ledger[p] = Missing
    /\ writer.step \in {"none", "task", "ledger"}
    /\ {raced, hurt} \subseteq BOOLEAN
    /\ commands \in 0..MaxCommands /\ writes \in 0..MaxWrites

(***************************************************************************)
(* What goes wrong.                                                        *)
(***************************************************************************)

Refused ==
    \/ pc = "stage" /\ ~Stageable
    \/ pc = "check" /\ ~Fresh
    \/ pc = "put tasks" /\ tasks["target"] \notin {Missing, NoTasks}
    \/ pc = "put ledger" /\ ledger["target"] \notin {Missing, NoTasks}
    \/ pc = "receipt" /\ ~AsStaged

\* Copying is not in the try block: what is copied stays, and is never read.
CopyFails ==
    /\ pc \in Copying /\ "error" \in FaultKinds
    /\ tasks' = Dropped(tasks) /\ ledger' = Dropped(ledger)
    /\ run' = [run EXCEPT !.end = "failed", !.before = <<>>, !.staged = <<>>]
    /\ Goto("idle")
    /\ UNCHANGED <<sources, plan, writer, ghosts, commands, writes>>

\* An exception, of the code's own or of a fault.
Fail ==
    /\ Refused \/ (pc \in Trying /\ "error" \in FaultKinds)
    /\ Goto("restore ledger")
    /\ UNCHANGED <<sources, board, plan, run, writer, ghosts, commands, writes>>

\* The except clause puts the backups back, in the place of what was activated.
Left(dirs, put) == IF put THEN Missing ELSE dirs["target"]
Clear(dirs, put) == dirs["backup"] = Missing \/ Left(dirs, put) \in {Missing, NoTasks}

\* Mutant of Restored: the backup comes back if its place was taken.
RestoredIfPut(dirs, put) ==
    IF put THEN [dirs EXCEPT !["target"] = dirs["backup"], !["backup"] = Missing] ELSE dirs
Restored(dirs, put) ==
    [dirs EXCEPT !["target"] = IF dirs["backup"] = Missing THEN Left(dirs, put) ELSE dirs["backup"],
                 !["backup"] = Missing]

RestoreLedger ==
    /\ pc = "restore ledger" /\ Clear(ledger, run.putLedger)
    /\ ledger' = Restored(ledger, run.putLedger)
    /\ Goto("restore tasks")
    /\ UNCHANGED <<sources, tasks, plan, run, writer, ghosts, commands, writes>>

RestoreTasks ==
    /\ pc = "restore tasks" /\ Clear(tasks, run.putTasks)
    /\ tasks' = Dropped(Restored(tasks, run.putTasks)) /\ ledger' = Dropped(ledger)
    /\ run' = [run EXCEPT !.end = "failed", !.staged = <<>>]
    /\ Goto("idle")
    /\ UNCHANGED <<sources, plan, writer, ghosts, commands, writes>>

\* It fails where a mutation has made the directory anew: the backups go.
RestoreFails ==
    /\ \/ pc = "restore ledger" /\ ~Clear(ledger, run.putLedger)
       \/ pc = "restore tasks" /\ ~Clear(tasks, run.putTasks)
    /\ tasks' = Dropped(tasks) /\ ledger' = Dropped(ledger)
    /\ run' = [run EXCEPT !.end = "broken", !.before = <<>>, !.staged = <<>>]
    /\ Goto("idle")
    /\ UNCHANGED <<sources, plan, writer, ghosts, commands, writes>>

\* An error of the except clause itself: rmtree has removed a part of the directory
\* that was activated, or the backup is not renamed.  "finally" deletes the backups.
Remnants(dirs, put) ==
    (IF put THEN { [id \in ids |-> dirs["target"][id]] : ids \in SUBSET DOMAIN dirs["target"] } ELSE {})
       \cup (IF dirs["backup"] # Missing THEN {Left(dirs, put)} ELSE {})

RestoreError ==
    /\ "error" \in FaultKinds
    /\ \/ /\ pc = "restore ledger"
          /\ \E left \in Remnants(ledger, run.putLedger) :
                ledger' = Dropped([ledger EXCEPT !["target"] = left])
          /\ tasks' = Dropped(tasks)
       \/ /\ pc = "restore tasks"
          /\ \E left \in Remnants(tasks, run.putTasks) :
                tasks' = Dropped([tasks EXCEPT !["target"] = left])
          /\ ledger' = Dropped(ledger)
    /\ run' = [run EXCEPT !.end = "lost", !.before = <<>>, !.staged = <<>>]
    /\ hurt' = TRUE
    /\ Goto("idle")
    /\ UNCHANGED <<sources, plan, writer, acked, raced, commands, writes>>

\* An interrupt is no Exception: "finally" drops the backups, and nothing else is
\* done.  What a kill leaves beside the board is never read.
Stop ==
    /\ FaultKinds \cap {"interrupt", "kill"} # {}
    /\ pc \in Working \cup Restoring
    /\ tasks' = Dropped(tasks) /\ ledger' = Dropped(ledger)
    /\ run' = [run EXCEPT !.end = "stopped", !.before = <<>>, !.staged = <<>>]
    /\ hurt' = (hurt \/ pc \in Replacing)
    /\ Goto("idle")
    /\ UNCHANGED <<sources, plan, writer, acked, raced, commands, writes>>

(***************************************************************************)
(* The others: a source is edited; a mutation of the target, under the     *)
(* lock of the board, prepares the new files and replaces one by one.      *)
(***************************************************************************)

Now == 2 + writes

EditSource ==
    /\ writes < MaxWrites
    /\ \E i \in DOMAIN sources : \E id \in DOMAIN sources[i] :
          sources' = [sources EXCEPT ![i][id].at = Now]
    /\ writes' = writes + 1
    /\ UNCHANGED <<board, plan, pc, run, writer, ghosts, commands>>

\* A merge sees no mutation once it has looked for the last time; and no event of a
\* task that has no file, since the identity of a plan has the heads of tasks only.
Race == raced' = (raced \/ pc \in Replacing)
Unseen == pc \in Working /\ writer.id \notin DOMAIN plan.identity.tasks

\* An update, or a removal.
Begin ==
    /\ writer = NoWriter /\ writes < MaxWrites /\ tasks["target"] # Missing
    /\ \E id \in DOMAIN tasks["target"] : \E op \in {"update", "archive"} :
          LET before == tasks["target"][id]
              after == IF op = "update" THEN [before EXCEPT !.at = Now] ELSE Gone
              l == LedgerOf(ledger["target"], id)
          IN  writer' = [id |-> id, event |-> Prepare(l, op, before, after),
                         ledger |-> Appended(l, Prepare(l, op, before, after)), step |-> "task"]
    /\ writes' = writes + 1
    /\ Race
    /\ UNCHANGED <<sources, board, plan, pc, run, acked, hurt, commands>>

\* A directory that is missing is made.
WriteTask ==
    /\ writer # NoWriter /\ writer.step = "task"
    /\ LET others == Without(Files(tasks["target"]), writer.id)
       IN  tasks' = [tasks EXCEPT !["target"] =
                        IF writer.event.after = Gone
                        THEN (IF tasks["target"] = Missing THEN Missing ELSE others)
                        ELSE Over([id \in {writer.id} |-> writer.event.after], others)]
    /\ writer' = [writer EXCEPT !.step = "ledger"]
    /\ Race
    /\ UNCHANGED <<sources, ledger, plan, pc, run, acked, hurt, commands, writes>>

WriteLedger ==
    /\ writer # NoWriter /\ writer.step = "ledger"
    /\ ledger' = [ledger EXCEPT !["target"] = Over([id \in {writer.id} |-> writer.ledger], Files(@))]
    /\ acked' = acked \cup {[id |-> writer.id, event |-> writer.event]}
    /\ writer' = NoWriter
    /\ raced' = (raced \/ pc \in Replacing \/ Unseen)
    /\ UNCHANGED <<sources, tasks, plan, pc, run, hurt, commands, writes>>

Next ==
    \/ \E strategy \in {"keep-newer", "keep-both"} : MakePlan(strategy)
    \/ Apply \/ CopyTasks \/ CopyLedger \/ Stage \/ Check
    \/ SaveTasks \/ PutTasks \/ SaveLedger \/ PutLedger \/ Receipt
    \/ CopyFails \/ Fail \/ RestoreLedger \/ RestoreTasks \/ RestoreFails \/ RestoreError \/ Stop
    \/ EditSource \/ Begin \/ WriteTask \/ WriteLedger

Spec == Init /\ [][Next]_vars

(***************************************************************************)
(* Properties.                                                             *)
(***************************************************************************)

Quiet == pc = "idle" /\ writer = NoWriter /\ ~raced /\ ~hurt

\* A reviewed plan is what its strategy says.  Of the sources that have a task the last
\* one counts.  With keep-both the target keeps all that it has, and every task that
\* counts is there under its name or a new one; with keep-newer no task is older than it
\* was, or than the one that counts; and no done task waits for another (build_plan).
PlanFaithful ==
    plan # NoPlan =>
        LET src == Combined(plan.identity.sources)
            dst == plan.identity.tasks
            New(id) == id \in DOMAIN plan.final \ (DOMAIN src \cup DOMAIN dst)
        IN  /\ ~Contradictory(plan.final)
            /\ DOMAIN src \cup DOMAIN dst \subseteq DOMAIN plan.final
            /\ plan.strategy = "keep-both" =>
                  /\ \A id \in DOMAIN dst : plan.final[id] = dst[id]
                  /\ \A id \in DOMAIN src \cap DOMAIN dst :
                        \E new \in DOMAIN plan.final :
                            New(new) /\ Front(new) = id /\ plan.final[new] = src[id]
            /\ plan.strategy = "keep-newer" =>
                  \A id \in DOMAIN plan.final :
                      /\ ~New(id)
                      /\ id \in DOMAIN dst => plan.final[id].at >= dst[id].at
                      /\ id \in DOMAIN src => plan.final[id].at >= src[id].at

\* Between commands, every task is what its ledger says, every chain is sound, and
\* every event of a mutation that succeeded is in it, unless a mutation was under way
\* while a merge replaced the directories, or one was stopped then, or an error came
\* while it restored them.
BoardSound ==
    Quiet =>
        /\ Agree(Files(tasks["target"]), ledger["target"])
        /\ \A id \in DOMAIN Files(ledger["target"]) :
              /\ Chained(ledger["target"][id])
              /\ id \notin DOMAIN Files(tasks["target"]) => Latest(ledger["target"][id]).after = Gone
        /\ \A w \in acked : Contains(Read(LedgerOf(ledger["target"], w.id)), w.event)

\* However often a plan is applied, and whatever is deleted in between, an event of
\* it is in the ledger at most once (ledger.py refuses "a stale chain tip").
AppliedOnce ==
    Quiet /\ plan # NoPlan =>
        \A id \in DOMAIN plan.events :
            LET es == Read(LedgerOf(ledger["target"], id))
            IN  \A i, j \in DOMAIN es : es[i] = plan.events[id] /\ es[j] = plan.events[id] => i = j

\* A merge that says it was applied has made every mutation of the plan, and the
\* board is the one that was reviewed.
AppliedWhole ==
    [][pc = "receipt" /\ run'.end = "applied" /\ ~raced' =>
         /\ tasks'["target"] = plan.final
         /\ \A id \in DOMAIN plan.events :
               Contains(Read(LedgerOf(ledger'["target"], id)), plan.events[id])]_vars

\* A merge that fails after it began to replace directories, and is not stopped or
\* met by another error while it restores them, leaves those it found.
FailureRestores ==
    [][run'.end \in {"failed", "broken"} /\ pc \in Restoring /\ run.before # <<>> /\ ~raced' =>
         <<tasks'["target"], ledger'["target"]>> = run.before]_vars

\* "test_activation_fault_restores_target_bytes" and
\* "test_receipt_failure_rolls_back_applied_directories": whatever errors there are, the
\* target is as it was.  (It does not hold: an error of the except clause keeps it from
\* renaming the backups, and "finally" deletes them.)
ErrorsRestore ==
    [][run'.end \in {"failed", "broken", "lost"} /\ pc \in Restoring /\ run.before # <<>> /\ ~raced' =>
         <<tasks'["target"], ledger'["target"]>> = run.before]_vars

\* "Fallback to generating completely new ID": boards without done tasks can be merged
\* with keep-both, however many copies there are.  (It does not hold: there is no
\* Task.generate_id.)
CopiesNamed ==
    /\ pc = "idle" /\ commands < MaxCommands
    /\ Agree(Files(tasks["target"]), ledger["target"])
    /\ \A b \in {Combined(sources), Files(tasks["target"])} : \A id \in DOMAIN b : b[id].status # "done"
    => ENABLED MakePlan("keep-both")

\* "Merge tasks from multiple .juno_task directories into a target location", "keeping
\* both tasks": with keep-both, the tasks of all sources are in the result.  (It does not
\* hold: one that two sources have is taken from the later one only.)
SourcesMerged ==
    plan # NoPlan /\ plan.strategy = "keep-both" =>
        \A i \in DOMAIN plan.identity.sources : \A id \in DOMAIN plan.identity.sources[i] :
            \E new \in DOMAIN plan.final :
                id \in {new, Front(new)} /\ plan.final[new] = plan.identity.sources[i][id]

\* "test_change_during_staging_is_preserved_and_merge_refuses": what a mutation
\* that succeeded has done is there, whenever it came.  (It does not hold: a merge
\* replaces what a mutation has written since the paths were checked.)
ChangePreserved ==
    pc = "idle" /\ ~hurt =>
        \A w \in acked : Contains(Read(LedgerOf(ledger["target"], w.id)), w.event)
=============================================================================
