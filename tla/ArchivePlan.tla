---------------------------- MODULE ArchivePlan ----------------------------
(***************************************************************************)
(* Which tasks move from the hot tier to the cold one, and what the cold   *)
(* tier promises afterwards: plan_archive, verify_archive_plan and the     *)
(* packing of kanban/archive.py, with the commands of kanban/storage.py    *)
(* that ask the cold tier before they write.  A plan is made, checked by   *)
(* people and applied later; the board, the reservations and the clock     *)
(* move in between.  Commands are steps here: how the application of a     *)
(* plan can be interrupted is the matter of ArchivePack.                   *)
(*                                                                         *)
(* IDs are numbers, in the order of their bytes; IDs with the same Fold    *)
(* differ in case only.  The blockers of a task are fixed by its ID.       *)
(***************************************************************************)
EXTENDS Integers, Sequences, FiniteSets, SequencesExt

CONSTANTS
    Task, Gone,
    Fold,       \* task -> its ID in lower case
    Needs,      \* task -> the tasks that block it
    Size,       \* task -> bytes of its record
    Policies,   \* what a plan may ask for
    Older,      \* --older-than
    MaxClock, MaxEvents, MaxCommits, MaxChanges  \* bounds

Terminal == {"done", "archive"}
Status == Terminal \cup {"todo"}

ASSUME TaskAssumption == Task \subseteq Int /\ IsFiniteSet(Task) /\ Gone \notin Status
ASSUME FunctionsAssumption ==
    /\ Needs \in [Task -> SUBSET Task] /\ Size \in [Task -> Nat]
    /\ DOMAIN Fold = Task
ASSUME PolicyAssumption ==
    \A p \in Policies : /\ {p.maxTasks, p.target, p.hardMax} \subseteq Nat \ {0}
                         /\ p.hardMax >= p.target /\ p.statuses \subseteq Terminal
ASSUME BoundsAssumption ==
    {MaxClock, MaxEvents, MaxCommits, MaxChanges} \subseteq Nat /\ Older \in Nat \ {0}

VARIABLES
    tasks,      \* task -> the status in its file, or Gone
    ledger,     \* task -> its events: operation, status after it, time
    clock,
    packs,      \* the packs, sets of records
    reserved,   \* tasks with an active reservation
    plan,       \* the last plan made
    head,       \* commits so far
    committed,  \* the tasks, the ledgers and the history since of HEAD
    index,      \* cold task -> its row of the query cache: "right", "wrong" or "none"
    stale,      \* whether the cache is of another archive tree
    since,      \* history: task -> when a command first recorded its present status
    changes     \* edits, reservations and damages so far

vars == <<tasks, ledger, clock, packs, reserved, plan, head, committed, index, stale, since, changes>>

NoPlan == [items |-> <<>>]

\* What people see of the packs: the records, and the IDs in them.
Records == UNION packs
Cold == {r.id : r \in Records}

\* The files in the work tree, and since when.
Files == [tasks |-> tasks, ledger |-> ledger, since |-> since]

\* git status has nothing to report: Git compares contents.
Clean == committed.tasks = tasks /\ committed.ledger = ledger

Init ==
    /\ tasks = [t \in Task |-> Gone]
    /\ ledger = [t \in Task |-> <<>>]
    /\ clock = 0
    /\ packs = {}
    /\ reserved = {}
    /\ plan = NoPlan
    /\ head = 0
    /\ index = [t \in Task |-> "none"] /\ stale = FALSE
    /\ since = [t \in Task |-> 0]
    /\ committed = Files
    /\ changes = 0

(***************************************************************************)
(* Looking a task up.                                                      *)
(***************************************************************************)

Variants(t) == {u \in Task : Fold[u] = Fold[t]}

\* scan_archive_id_inventory: the IDs that the manifests list.
Inventory(t) == Cold \cap Variants(t)

\* A rebuild refuses a board with two IDs that are the same but for case, in
\* one tier or in two.
Hot == {t \in Task : tasks[t] # Gone}
Rebuildable == \A t \in Hot : Variants(t) \cap Hot = {t} /\ Inventory(t) = {}

\* Mutant of Entry: the cache proves that a task is not there.
EntryOfRow(t) == {c \in Inventory(t) : stale \/ index[c] # "none"}

\* The cold ID found for t.  What has no row is looked for in the manifests.
Entry(t) ==
    LET row == {c \in Inventory(t) : stale \/ index[c] # "none"} IN
    IF row # {} THEN row ELSE Inventory(t)

\* The tasks in S are resolved, or just asked for: the cache is rebuilt first if
\* it is stale, and again if a row is missing or does not lead to its record.
LookUp(asked, resolved) ==
    LET broken == \/ stale /\ asked \cup resolved # {}
                  \/ \E t \in asked \cup resolved : \E c \in Inventory(t) : index[c] = "none"
                  \/ \E c \in resolved \cap Cold : index[c] = "wrong"
    IN /\ broken => Rebuildable
       /\ index' = IF broken THEN [t \in Task |-> IF t \in Cold THEN "right" ELSE "none"] ELSE index
       /\ stale' = (stale /\ ~broken)

ColdStatus(t) == (CHOOSE r \in Records : r.id = t).status

\* The status of a blocker, which is the file's if there is one.
StatusOf(t) ==
    IF tasks[t] # Gone THEN tasks[t]
    ELSE IF t \in Entry(t) THEN ColdStatus(t) ELSE Gone

(***************************************************************************)
(* Mutations.                                                              *)
(***************************************************************************)

Event(op, status) == [op |-> op, status |-> status, at |-> clock]

Recorded(t) == IF ledger[t] = <<>> THEN Gone ELSE Last(ledger[t]).status

\* A file that is not what its ledger says is recorded first.
Reconciled(t) ==
    IF ledger[t] = <<>> THEN <<Event("recovery", tasks[t])>>
    ELSE IF Recorded(t) # tasks[t] THEN Append(ledger[t], Event("reconcile", tasks[t]))
    ELSE ledger[t]

Events(l) == FoldFunction(LAMBDA s, n : Len(s) + n, 0, l)

\* Task t is written with status s, its ledger becoming l.
Put(t, s, l) ==
    /\ tasks' = [tasks EXCEPT ![t] = s]
    /\ ledger' = [ledger EXCEPT ![t] = l]
    /\ Events(ledger') <= MaxEvents
    /\ since' = [since EXCEPT ![t] = IF tasks[t] = s /\ Recorded(t) = s THEN @ ELSE clock]
    /\ UNCHANGED <<clock, packs, reserved, plan, head, committed, changes>>

Completable(t, s) == s = "done" => \A b \in Needs[t] : StatusOf(b) \in Terminal
Absent(t, s) == {b \in Needs[t] : s = "done" /\ tasks[b] = Gone}

\* write_task: no ID is used twice, whatever its case, in either tier.
Create(t, s) ==
    /\ Variants(t) \cap Hot = {} /\ Entry(t) = {}
    /\ Completable(t, s)
    /\ Put(t, s, <<Event("create", s)>>)
    /\ LookUp({t}, Absent(t, s))

\* update_task, an update of other fields included.  A resolved blocker is not
\* reopened while a dependent in the hot tier is done.
Update(t, s) ==
    /\ tasks[t] # Gone
    /\ tasks[t] \in Terminal /\ s \notin Terminal =>
            \A d \in Hot : tasks[d] = "done" => t \notin Needs[d]
    /\ Completable(t, s)
    /\ Put(t, s, Append(Reconciled(t), Event("update", s)))
    /\ LookUp({}, Absent(t, s))

Reconcile(t) ==
    /\ tasks[t] # Gone /\ Recorded(t) # tasks[t]
    /\ Put(t, tasks[t], Reconciled(t))
    /\ UNCHANGED <<index, stale>>

\* show, and all that needs a task that has no hot file.
Show(t) ==
    /\ tasks[t] = Gone
    /\ LookUp({}, {t})
    /\ UNCHANGED <<tasks, ledger, clock, packs, reserved, plan, head, committed, since, changes>>

(***************************************************************************)
(* What else happens.                                                      *)
(***************************************************************************)

Change == changes < MaxChanges /\ changes' = changes + 1

\* People edit a file, add one without a ledger, and remove that again.
Edit(t, s) ==
    /\ Change
    /\ s # tasks[t] /\ (s = Gone => ledger[t] = <<>>)
    /\ tasks' = [tasks EXCEPT ![t] = s]
    /\ UNCHANGED <<ledger, clock, packs, reserved, plan, head, committed, index, stale, since>>

\* git stash, checkout or restore: the files of these tasks are again what they
\* are in HEAD, which stays where it is.
Restore(S) ==
    /\ Change
    /\ tasks'  = [t \in Task |-> IF t \in S THEN committed.tasks[t] ELSE tasks[t]]
    /\ ledger' = [t \in Task |-> IF t \in S THEN committed.ledger[t] ELSE ledger[t]]
    /\ since'  = [t \in Task |-> IF t \in S THEN committed.since[t] ELSE since[t]]
    /\ UNCHANGED <<clock, packs, reserved, plan, head, committed, index, stale>>

Commit ==
    /\ ~Clean /\ head < MaxCommits
    /\ committed' = Files /\ head' = head + 1
    /\ UNCHANGED <<tasks, ledger, clock, packs, reserved, plan, index, stale, since, changes>>

Tick ==
    /\ clock < MaxClock
    /\ clock' = clock + 1
    /\ UNCHANGED <<tasks, ledger, packs, reserved, plan, head, committed, index, stale, since, changes>>

\* A reservation receipt, which Git ignores, is written or released.
Reserve(t) ==
    /\ Change
    /\ reserved' = IF t \in reserved THEN reserved \ {t} ELSE reserved \cup {t}
    /\ UNCHANGED <<tasks, ledger, clock, packs, plan, head, committed, index, stale, since>>

\* A row of the cache is lost, or points elsewhere.
Damage(t, row) ==
    /\ Change
    /\ t \in Cold /\ ~stale /\ index[t] = "right" /\ row # "right"
    /\ index' = [index EXCEPT ![t] = row]
    /\ UNCHANGED <<tasks, ledger, clock, packs, reserved, plan, head, committed, stale, since>>

(***************************************************************************)
(* Planning.                                                               *)
(***************************************************************************)

\* The events that made t what it is.
Turns(t) ==
    {i \in DOMAIN ledger[t] :
        ledger[t][i].status = tasks[t] /\ (i > 1 => ledger[t][i - 1].status # tasks[t])}

\* Mutant of TerminalAt: the first such event counts.
TerminalAtFirst(t) == ledger[t][Min(Turns(t))].at

\* _terminal_transition: when the ledger last says that t became what it is.
TerminalAt(t) == ledger[t][Max(Turns(t))].at

\* The ledger goes back to the creation and ends with the file.
Provable(t) ==
    /\ ledger[t] # <<>> /\ ledger[t][1].op = "create"
    /\ Recorded(t) = tasks[t]

Selectable(t, policy) ==
    /\ tasks[t] \in policy.statuses
    /\ Variants(t) \cap Hot = {t} /\ Inventory(t) = {}
    /\ t \notin reserved
    /\ \A b \in Needs[t] : tasks[b] \in Terminal

Candidates(policy) ==
    {t \in Hot : Selectable(t, policy) /\ Provable(t) /\ TerminalAt(t) + Older <= clock}

\* Older first, then by ID: at most maxTasks of the candidates.
Before(t, u) ==
    \/ TerminalAt(t) < TerminalAt(u)
    \/ TerminalAt(t) = TerminalAt(u) /\ t < u

Oldest(policy) ==
    LET all == Candidates(policy)
        n == Min({Cardinality(all), policy.maxTasks})
    IN {ids \in [1..n -> all] :
           /\ \A i, j \in 1..n : i < j => Before(ids[i], ids[j])
           /\ \A t \in all \ Range(ids) : \A i \in 1..n : Before(ids[i], t)}

Bytes[batch \in SUBSET Task] ==
    IF batch = {} THEN 0
    ELSE LET t == CHOOSE t \in batch : TRUE IN Size[t] + Bytes[batch \ {t}]

\* Mutant of Room: there is no target.
RoomByCount(batch, t, policy) == Cardinality(batch) < policy.maxTasks

\* A batch is filled while it has room; a record greater than the hard limit is
\* alone in its own.
Room(batch, t, policy) ==
    /\ \A u \in batch \cup {t} : Size[u] <= policy.hardMax
    /\ Cardinality(batch) < policy.maxTasks
    /\ Bytes[batch \cup {t}] <= policy.target

\* _ordered_batches, and split_records: the tasks ids, in this order.
Batches(ids, policy) ==
    LET current[i \in DOMAIN ids] ==
            IF i > 1 /\ Room(current[i - 1], ids[i], policy)
            THEN current[i - 1] \cup {ids[i]} ELSE {ids[i]}
        full(i) == i = Len(ids) \/ ~Room(current[i], ids[i + 1], policy)
    IN {current[i] : i \in {j \in DOMAIN ids : full(j)}}

\* plan_archive, on any work tree.  A plan of no tasks is never applied and not
\* kept here; clean is history, and not in the plan.
MakePlan(policy) ==
    /\ Candidates(policy) # {}
    /\ \E ids \in Oldest(policy) :
          plan' = [items |-> [t \in Range(ids) |-> [at |-> TerminalAt(t), status |-> tasks[t],
                                                   ledger |-> ledger[t]]],
                   batches |-> Batches(ids, policy), policy |-> policy, made |-> clock,
                   head |-> head, clean |-> Clean, reserved |-> reserved, cold |-> Cold]
    /\ UNCHANGED <<tasks, ledger, clock, packs, reserved, head, committed, index, stale, since, changes>>

(***************************************************************************)
(* Applying a plan.                                                        *)
(***************************************************************************)

\* The tasks of the plan.
Selected == DOMAIN plan.items

Current(t) == tasks[t] = plan.items[t].status /\ ledger[t] = plan.items[t].ledger

\* Mutant of Verified: nobody compares HEAD again.
VerifiedAnyHead ==
    /\ Clean /\ plan # NoPlan
    /\ plan.reserved = reserved /\ plan.cold = Cold
    /\ \A t \in Selected : Current(t)

\* The clean work tree that create_archive asks for, and verify_archive_plan: HEAD,
\* the reservations, the cold tier and the selected tasks are those of the plan.
Verified ==
    /\ Clean /\ plan # NoPlan
    /\ plan.head = head /\ plan.reserved = reserved /\ plan.cold = Cold
    /\ \A t \in Selected : Current(t)

Record(t) == [id |-> t, status |-> tasks[t], at |-> plan.items[t].at]

Sorted(batch) ==
    CHOOSE ids \in [1..Cardinality(batch) -> batch] :
        \A i, j \in DOMAIN ids : i < j => ids[i] < ids[j]

\* Every batch is sorted by ID and split again when it is packed.
Packed(batch) ==
    {{Record(t) : t \in part} : part \in Batches(Sorted(batch), plan.policy)}

\* create_archive: the files and the ledgers become records, and a commit.
Apply ==
    /\ Verified /\ head < MaxCommits
    /\ packs' = packs \cup UNION {Packed(batch) : batch \in plan.batches}
    /\ tasks' = [t \in Task |-> IF t \in Selected THEN Gone ELSE tasks[t]]
    /\ ledger' = [t \in Task |-> IF t \in Selected THEN <<>> ELSE ledger[t]]
    /\ head' = head + 1
    /\ stale' = TRUE
    /\ since' = [t \in Task |-> IF t \in Selected THEN 0 ELSE since[t]]
    /\ committed' = Files'
    /\ UNCHANGED <<clock, reserved, plan, index, changes>>

Mutate(t) ==
    \/ \E s \in Status : Create(t, s) \/ Update(t, s) \/ Edit(t, s)
    \/ Edit(t, Gone) \/ Reconcile(t) \/ Show(t) \/ Reserve(t)
    \/ \E row \in {"none", "wrong"} : Damage(t, row)

Next ==
    \/ \E t \in Task : Mutate(t)
    \/ \E policy \in Policies : MakePlan(policy)
    \/ \E S \in SUBSET Task : Restore(S)
    \/ Commit \/ Tick \/ Apply

Spec == Init /\ [][Next]_vars

(***************************************************************************)
(* Properties.                                                             *)
(***************************************************************************)

Ledgers == [Task -> Seq([op : {"create", "update", "reconcile", "recovery"},
                         status : Status, at : Nat])]

TypeOK ==
    /\ Files \in [tasks : [Task -> Status \cup {Gone}], ledger : Ledgers, since : [Task -> Nat]]
    /\ committed \in [tasks : [Task -> Status \cup {Gone}], ledger : Ledgers, since : [Task -> Nat]]
    /\ clock \in Nat /\ head \in Nat /\ reserved \subseteq Task
    /\ index \in [Task -> {"right", "wrong", "none"}] /\ stale \in BOOLEAN

\* The tasks that a step archives.
Archived == Cold' \ Cold

\* --older-than: a task that is archived was recorded in its present status, and in
\* no other, for that long when the plan was made, and its record says since when.
ArchivedAged ==
    [][\A t \in Archived :
          /\ since[t] + Older <= plan.made
          /\ \E r \in Records' : r.id = t /\ r.at = since[t]]_vars

\* "active_dependency" and "reserved": at the moment a task is archived nobody has
\* reserved it, and its blockers are resolved if the plan was made from committed
\* files, whatever was edited, committed and put back in the meantime.
ArchivedResolved ==
    [][\A t \in Archived :
          t \notin reserved /\ (plan.clean => \A b \in Needs[t] : tasks[b] \in Terminal)]_vars

\* "Fail closed when a sealed plan or any bound source fact is stale": the blockers
\* are resolved whatever the plan was made from.  (They are not: the plan reads the
\* work tree, binds the tasks it selects and HEAD, and a blocker whose change was
\* not committed can be put back under it.)
ArchivedUnblocked ==
    [][\A t \in Archived : \A b \in Needs[t] : tasks[b] \in Terminal]_vars

\* The packs written are the batches that people saw in the plan, although they are
\* split again; none is over a limit of the policy but for a single record; and each
\* task that leaves the hot tier is in one of them.
PacksAsPlanned ==
    [][packs' # packs =>
          LET new == {{r.id : r \in pack} : pack \in packs' \ packs} IN
          /\ new = plan.batches
          /\ \A batch \in new : Cardinality(batch) > 1 =>
                /\ Bytes[batch] <= plan.policy.target
                /\ Cardinality(batch) <= plan.policy.maxTasks
          /\ {t \in Hot : tasks'[t] = Gone} = UNION new]_vars

\* "Archived IDs stay reserved": no command creates a task whose ID is in the cold
\* tier in any case, whatever has become of the cache.
IdsReserved ==
    [][\A t \in Task :
          tasks[t] = Gone /\ tasks'[t] # Gone /\ ledger'[t] # ledger[t] => Inventory(t) = {}]_vars

\* The rule of the mutations holds across the tiers: a done task has no unmet
\* blocker.  (It does not: the dependents in the cold tier are not looked at.)
ColdDoneResolved ==
    \A r \in Records : r.status = "done" => \A b \in Needs[r.id] : StatusOf(b) \in Terminal
=============================================================================
