# A verification development of juno-ledger

`juno-ledger` (package `kanban`) keeps a Kanban board in a Git repository: one
Markdown file per task, one append-only JSON-lines ledger per task, cold
archive packs, and a disposable SQLite query cache. There is no server. Every
command is a short-lived process, and several of them - agents, people, CI -
work on one board at the same time, are killed, and share the working tree with
Git and with editors. This directory states what the code promises under these
conditions in TLA+, checks it with TLC on small instances, and proves the most
important part with TLAPS for every instance.

All source paths below are relative to the repository; `storage.py` and the
like are files of `src/kanban/`.

## 1. Inventory

| Component | State | Operations | What makes it correct |
|---|---|---|---|
| **Board transactions** (`storage.py` `_board_lock`, `_apply_batch_transaction`, `_recover_transactions_locked`) | `board-mutation.lock`; a directory per transaction with staged images and `plan.json`; the files a plan lists | take the lock and recover; stage, publish, activate, remove; restore on error | each mutation is applied to all its files or none, whoever dies wherever; an error restores; an abandoned plan gets decided |
| **Task mutations and reconciliation** (`storage.py` `write_task` ... `reconcile`, `doctor`) | Markdown files, ledgers, task locks | create, update, replace, delete, finalize an umbrella, reconcile | a done task has no unmet blocker; file and ledger agree; histories have no gap and no fork; a refusal writes nothing; locks are given back |
| **Task ledger** (`ledger.py`) | segments of events chained by hash | prepare, append, read | chain unbroken, segments bounded, a torn append detected |
| **Dependency commands** (`cli.py` `cmd_create`, `cmd_update`, `deps add/remove`) | `blocked_by` of every task | check for a cycle, then save | the board's dependencies are acyclic; no command loses another's edge |
| **Dependency graph** (`graph.py`) | none | ready, blocked, order, priority, critical path | agreement with their definitions |
| **Query cache** (`cache.py`, `storage.py` `_ensure_query_cache`) | SQLite rows, freshness token, refresh lease | rebuild, refresh, read | a reader never gets rows that are older than the board it looked at |
| **Cold archive packs** (`archive.py`) | packs, `ARCHIVE_PACK_FREEZE.json`, index and HEAD | plan, create, recover | no task is lost between hot and cold tier; a crash is recoverable; every other writer is kept out |
| **Legacy conversion and rollback** (`storage.py` `convert_legacy`, `immediate_rollback`, `execute_post_write_rollback`) | freeze files, the legacy NDJSON, the board | convert, roll back at once, roll back after writes | board and receipt agree; a failed rollback leaves a freeze or the old board |
| **Board merge** (`merge.py`) | two boards and a backup | plan, apply, verify | the result is the union the plan names, or the board is as it was |
| **Project registry** (`project_registry.py`) | an alias file and its lock | add, remove, resolve | concurrent edits are not lost |
| **Records, codec, configuration, search, CLI** | none of their own | validate, parse, render, filter | sequential functions of their input |

How they interact: every mutation goes through a board transaction while it
holds the locks of its tasks; `reconcile` takes task locks only; the archive
and conversion commands keep mutations away by freeze files, which mutations
look up before they wait for the board lock; a merge replaces whole directories
without that lock; the cache is refreshed after each mutation and before each
read; the dependency commands read the cache, then call a mutation; the graph
queries work on one such reading. Editors and Git touch the files without any
lock.

What is hard: kills between any two file replacements, also during recovery and
during the recovery of a recovery; errors inside error handlers; a HEAD that
moves under a plan; reads made before a lock is waited for; reconcile next to
recovery, which hold different locks; two-step commands whose check and save
are two critical sections; freezes looked up too early; an index that must notice
what Git and editors have done; plans that are made, read by people and applied
later; directories that are swapped in two renames. `PROJECT.json` lists these at
their lines, with the properties that watch them.

## 2. Modules

### AtomicMutation - what the storage promises

A request names files, the images it read there and those it wants there. It
takes effect in one step on all of them, against exactly the images it was
computed from, or not at all. A writer that dies may leave its request
*orphaned*: it is still decided as a whole, and until then nobody computes
another. No locks, directories or plans: this is the abstract specification.

### MutationTransaction - how it keeps it

One action per step of `_board_lock`, `_recover_transactions_locked`,
`_apply_batch_transaction` and its `except` clause. `pc[w]` is where writer `w`
is; `step[w]` the index in the path list it walks; `plan[w]` the contents of its
transaction directory, and `disk[w]` how much of that directory exists: nothing,
the directory without `plan.json`, or with it. The rename that makes `plan.json`
appear (`Publish`) and the unlink that makes it disappear (`RemovePlan`) are the
two points everything else is about. Files are abstract paths and their bytes
abstract images, because the protocol only ever compares them.

Between any two steps a writer may be killed (`Crash`), may get an `OSError`
(`...Fault`, in the kinds `FaultKinds` allows), HEAD may move and people may
edit files. Edits are of two sorts: `"free"` edits stay off the files of an
abandoned plan, `"abandoned"` ones do not. Nobody edits a file in the very
moment a running command replaces it: the code cannot see such an edit and
makes no claim about it.

Recovery visits directories in any order (`iterdir` of random names). A killed
process's slot stays dead; a fresh process is another member of `Writers`.

### BoardMutations - what is mutated

The same commands one level up. A file holds a *record* (status, blockers, and a
body for the rest), a ledger is a sequence of events with the records before and
after - the code stores their hashes, and a hash stands for what it is taken of.
A board transaction is one step here (`Commit`), or is interrupted with any
subset of its files replaced and leaves an `intent` (`Interrupt`), which
`Recover` or `RecoverRefuse` decides; `MutationTransaction` justifies that.

`Check` is the validation of each command under its locks (`MayCreate`,
`MayUpdate`, `MayReplace`, `MayFinish`); `Reconcile` the call of
`_reconcile_locked` that update and replace make before their own write;
`RefuseLate` everything that may still refuse after it; `Prepare` and `Commit`
the preparation of events against the ledger tips and the transaction. The
`reconcile` command is three steps (`ReconcileRead`, `ReconcilePrepare`,
`ReconcileAppend`/`ReconcileStale`) under one task lock and without the board
lock. `Edit` is a direct edit.

A mutation first rejects a frozen board (`RefuseFrozen`: create, update and
umbrella only). Who freezes is a matter of other modules, so it may happen at
any time here.

### DependencyCommands - who may block whom

`create`, `update --blocked-by`, `deps add` and `deps remove`: each reads tasks
and reachability (`dependency_would_cycle` over the indexed dependencies; `create`
asks `detect_cycle` of a graph), and saves later,
in a mutation of its own. `blocked_by` holds the saved list of every task,
forward references to tasks that do not exist yet included, as in the code.
`Reaches` is stated with closed sets, not as a recursive search: the same set
of tasks, in a form the provers can use.

### ArchivePack - from one tier to the other

`create_archive` and `recover_archive`, one action per step between two of which
something can go wrong: a file written, a Git command, a check. A task's files,
hot or in a pack, are the number of its version (0: no file), because nothing
but their identity matters here; a commit in `log` records both tiers. `stage`
is the backup directory in `.git`, `freeze` the file that says how far an
archiving has come. Copying, unlinking and restoring are loops, one task a
round, so that everything can happen in the middle of them.

An `Exception` before the commit leads to the `except` clause (`Raise`,
`ResetIndex` ... `Thaw`). `Abandon` is what that clause does not handle: a
`KeyboardInterrupt`, an error after the commit, an error of its own; the
`finally` clause then removes the stage and the freeze stays. `CopyFault` is an
error half-way through a copy, which leaves a pack that is not in `activated`.
`staged` is what `git add` and `git rm` have put into the index; `Reset` takes it out
again, or fails without anybody noticing (`check=False`), in the `except` clause and
in the recovery.
`Stop` is a kill. A mutation is `Admit` (the look at the freeze), `Read` (locks
taken, task read) and `Write`; `MutationTransaction` says why one step is right
for the last. People may commit at any time (`PeopleCommit`).

`raced` is a history variable: the tasks that a mutation wrote while an
archiving or a freeze was there, or had read before it, and those a torn copy
was left of. Properties that the code does not keep for them leave them out,
and say so.

### ArchivePlan - which tasks, and what the cold tier promises

`plan_archive` with its selection, ages, blockers, reservations and batches,
`verify_archive_plan`, the packing itself, and the mutations and commits that
come between the plan and its application. Commands are steps, because how they
are interrupted is the matter of `ArchivePack`. `since[t]` is a history variable:
when a command first recorded the present status of a task. `committed` are the files of HEAD:
the tree is `Clean` when they are those of the work tree, which `Commit` brings about, and
`Restore` or an edit that undoes another without a new HEAD. What a mutation asks
the cold tier (`Inventory`, the row of the index, the pack it names) is the lookup
of `storage.py` and `cache.py`, with an index that may be damaged or be of another
archive tree. A pack is a set of records, since a file's name is its hash, and a batch
a set of tasks; `Batches` is the greedy loop of `_ordered_batches` and of `split_records`
(`Room` is its condition), and `Oldest` the sorted selection. IDs have six characters, so
`Task` is finite.

### DependencyGraph - queries about a board

`graph.py`, one iteration of a loop per step: Kahn's algorithm with its counters
and its queue (`OrderStep`), the breadth first search for the cycle that an edge
would close (`CycleStep`), the depth first priority score (`ScoreStep`). The
board is any finite graph, with cycles and with blockers that are missing or
finished; it does not change. The critical path is a recursive function over the
order that was found. Sets are visited in any order where Python visits sets.

### QueryCache - what the index serves

`ensure_fresh` in its parts: what Git says (`Refresh`), which rows are loaded
again (`Load`), a database built anew (`Fill`), each a step of a process, under
the refresh lease; the upserts by which a mutation stores the records it has written; a
reading of all tasks; and a listing
in two pages as the CLI makes it: a query, a refresh, a signature, and for the
next page a refresh, a verification of the cursor, a refresh, a query. `head`,
`index` and `work` are the files as HEAD, the Git index and the disk have them.
`pending` holds the records between the write of the files and their upserts, which the board
lock lets one mutation at a time have; people and Git change the files meanwhile. An upsert
stores the record of its mutation, not the file. Where there is no database it begins one
(`"partial"`), with its own row and metadata that look complete: listings reject it, because
it lacks the identity of the archive, but `read_all_tasks` does not ask. An upsert into a
database that is being built anew is lost. `script[p]` is what the command of process `p`
still has to do. `touched`, `late`, `dropped` and the `torn` of a page are history: whether
something changed since a scan began, which files have had an outdated record stored since,
which files Git has ceased to track, and whether the revision changed between the query and
its signature.

### Cutover - a whole board replaced

`convert_legacy`, `immediate_rollback`, `execute_post_write_rollback` and the two
commands that end the compatibility window, one action per step between two of
which an error, a `KeyboardInterrupt` or a kill makes a difference. A part of the
board (tasks, configuration, ledgers, archive, legacy source) has a form and
holds a number of acknowledged writes; a commit in `log` holds all parts. `disk`,
`stage`, `backup` and `tar` are the places a part can be in; the `Undo` actions
are the `except` and `finally` clauses, which can fail too. `Prepare` makes the stage
outside both `try` blocks of the conversion: an error there runs no clause. Mutations (`Admit`,
`Write`), the legacy runtime and people who commit come in between.

### TaskLedger and BoardMerge - boards merged

`TaskLedger` holds the operators of `ledger.py`: segments, their sizes, the tip
of a chain, prepare, append, and the verification of a chain. A ledger is a
sequence of events, each with the number of the segment file it is in. `BoardMerge` is
`merge.py`: `MakePlan` makes the sealed plan of either strategy, `Apply` verifies
it, `CopyTasks` ... `Check` build both directories anew beside the target,
`SaveTasks` ... `PutLedger` swap them in, `RestoreLedger` and `RestoreTasks` are the
`except` and `finally` clauses, `RestoreFails`, `RestoreError` and `Stop` what keeps them
from their end; an error of the copying (`CopyFails`) comes before the `try`. A copy gets
one of `Tries` names (1000 in the code), or the plan is not made (`Nameable`). A mutation
of the target (`Begin`, `WriteTask`, `WriteLedger`) and a change of a source may
come at any time, and a plan may be applied again. `raced` and `hurt` are history:
whether a mutation was under way where a merge does not see it, and whether a
merge was stopped while it replaced directories, or failed to restore them.

### MC modules and proofs

`MCx` extends `x` with model values, functions that stand for constants, symmetry
sets, for `BoardMutations` one view and for `QueryCache` one constraint on steps.
`MCDependencies` has the commands and the queries side by side, each on boards of its
own: the queries are put to any board, the commands make theirs from nothing. The modules of proofs are the matter of
section 5. Operators with a comment "Mutant of ..." are altered forms of the
definitions they name: every property of a run is violated by one of them, as
`PROJECT.json` says.

## 3. Runs

| Run | Instance | Shows |
|---|---|---|
| TxSafety | 2 writers, 3 files, overlapping batches, 2 HEADs, 2 errors of any kind, free edits | every file of a plan old or new (`NeverDrifts`); no completed mutation rolled back, not even by an interrupted recovery (`RollbackSound`); `IInv`, the invariant of the proofs, which holds the types and that there is at most one undecided plan; the protocol implements `AtomicMutation` (`ImplementsAtomicMutation`) |
| TxLive | the same with HEAD at rest, without late errors and errors of the recovery itself, weak fairness | an error restores every file (`ErrorRestores`); no writer is turned away because of an abandoned plan (`NextWriterRecovers`); an abandoned plan is decided when a writer comes by and lives (`AbandonedSettled`); the board lock is given back (`BoardReleased`) |
| BoardHistory | 2 processes, 1 task, 2 bodies, create/update/replace/delete/reconcile, direct edits and new files, interruptions apart from reconcile commands | file and ledger agree on tasks at rest (`Converged`); an update or a reconciliation starts where the event before ended (`HistoryContinuous`); every intent can be recovered (`IntentRecoverable`); the hash chain never forks (`ChainUnbroken`); no acknowledged event leaves a ledger (`AppendOnly`) |
| BoardDependencies | 2 processes, 2 tasks, 2 statuses, create/update/umbrella, interruptions anywhere | no done task has an unmet blocker (`DoneResolved`) |
| BoardLocks | 2 processes, 2 tasks, umbrella finalization and reconcile, interruptions, weak fairness | every lock is given back, whatever recovery refuses and whichever event is stale (`LocksReleased`) |
| Dependencies | 1 process and 4 tasks for the commands; every board over 3 IDs and every call for the queries | no command closes a cycle (`Acyclic`); the order is topological, and fails exactly if open tasks wait for each other or for a blocker that is not open, be it finished (`OrderSound`); a cycle is reported exactly if the edge closes one, and the score counts the dependents (`SearchesSound`); the critical path is a longest chain (`CriticalPathLongest`) |
| GraphOrder | as Dependencies | violation: the order fails although there is no cycle (`OrderFailsOnCycle`) |
| CacheSafety | 2 processes, one of which lists in pages, 2 files, 2 contents, 2 changes of any kind, also in the middle of a refresh, but none with Git while a listing goes on | what differs from HEAD or the Git index, or is untracked, is not listed stale from a complete database, unless an outdated record was stored since the refresh began or Git has dropped the file unnoticed (`DirtyServed`); a cursor that is accepted belongs to the rows that are there (`CursorStable`); a listing that goes on neither skips nor repeats a task (`NoneSkipped`) |
| ArchiveSafety | 2 processes, 2 tasks, 2 versions, 1 commit by people, 2 faults of any kind anywhere | unless it was changed under the archiving, a task's last version is in a tier, or a freeze points at HEAD, which has it (`Kept`); without a freeze, a task is in one tier and its packs are committed (`OneTier`); an archiving that fails and thaws has restored the work tree (`FaultRestores`); receipts name what happened (`ReceiptsTrue`) |
| ArchivePlan | 3 tasks, one that waits for another and one whose ID differs in case only, 2 policies, 3 events, 3 commits, 1 other change | what is archived has had its status for the time asked for (`ArchivedAged`), is not reserved, and needs nothing that is open if its plan was made from committed files (`ArchivedResolved`); the packs are the batches that were reviewed, within the policy, and hold all that leaves the hot tier (`PacksAsPlanned`); no archived ID is given away, even by a broken cache (`IdsReserved`) |
| CutoverSafety | 3 commands, 2 writes, 2 faults of any kind | what is committed is a whole board (`HeadWhole`); no acknowledged write is lost (`Kept`); a half-replaced board is frozen (`HalfFrozen`); a command that fails before its commit restores, and thaws unless it failed to make its stage (`FailureRestores`); success is told truly (`ReportsTrue`) |
| BoardMerge | 1 or 2 sources, 2 names and their copies, 2 names tried, 3 commands, 1 write, segments of 5 bytes, any fault anywhere | the plan is what its strategy says (`PlanFaithful`); chains, files and acknowledged events agree after a merge (`BoardSound`); however often it is applied, an event is there once (`AppliedOnce`); what is said to be applied is, as a whole (`AppliedWhole`); a merge that fails while it replaces restores, unless its `except` clause fails too (`FailureRestores`) |

Every module has a `TypeOK`. That of `MutationTransaction` is part of `IInv`; the
others hold on the instances above and are not among the properties of the runs,
which spend their time on what could go wrong.

### Where the code and its documents part

Some sentences of the repository do not hold of the code. Where a run has a property
that such a sentence suggests, the property leaves out the case and says so. One of
them is a run of its own, GraphOrder, which TLC finds violated. Where another formula is
named below, it is in the module, with the remark that it does not hold, and TLC violates
it when it takes the place of the properties in the configuration of the module's run.
Otherwise the altered constant that leads to the counterexample is named.

*Mutations and reconciliation.*

* `Interrupts = "any"` in BoardHistory breaks `Converged`, `ChainUnbroken`,
  `HistoryContinuous` and `IntentRecoverable`.
  A writer dies; reconcile reads the after-image under the task lock; the next
  writer rolls it back under the board lock only; reconcile appends an event for a
  state that is gone: "The comparison and append are one task-scoped critical
  section." (`storage.py:1038`). Or reconcile appends to the ledger of a writer that
  died between the file and the ledger; the intent then fits no image, and no
  mutation is possible any more: "canonical current state wins and the next
  mutation/reconcile converges" (`docs/git-native-storage.md:94`).
* Two `Heads` in TxLive break `NextWriterRecovers`: a writer dies, somebody
  commits, the HEAD of the plan is no longer the current one and every later
  writer is refused (`storage.py:596`); doctor announces that "next canonical
  writer will recover deterministically" (`storage.py:1134`).
* `"late"` in `FaultKinds` of TxLive breaks `ErrorRestores`: `rmtree` unlinks
  `plan.json` and fails afterwards, so that the call reports an error although
  its files are new (`storage.py:548`).
* A deletion and an umbrella finalization do not reconcile a direct edit first
  (`storage.py:959`): `HistoryContinuous` speaks of updates and reconciliations. A file added
  by hand gets a `recovery` event first, which doctor reports (`storage.py:738` and
  `1078`). An update may be refused after it has reconciled (`RefuseLate`), so that
  a refusal has written an event, against the comment in `storage.py:781`.

*Dependencies.*

* Two `Procs` in Dependencies break `Acyclic`: both look for cycles before either
  saves (`cli.py:2456`): "Cycle detection prevents circular dependencies"
  (`README.md:181`). They also lose edges: `deps add` saves a list made from an
  earlier read (`cli.py:2461`).
* `OrderFailsOnCycle`, the run GraphOrder: `topological_sort` counts blockers that are not in the
  graph (`graph.py:177`), and `cmd_order` gives it open tasks only (`cli.py:2581`). A task
  with a finished blocker is never released, and the command reports a circular
  dependency that is not there: "ValueError: If the graph contains a cycle", "only counting
  edges within the graph" (`graph.py:170`, `173`). `OrderSound` says exactly when it fails.
* `get_critical_path` says that ties go to the smaller ID (`graph.py:304`); of two
  ends of longest chains the larger ID wins (`end_node`).

*Query cache.*

* `TruthServed`: a mutation writes a file, somebody edits it, a refresh
  copies the edit, and the upsert of the mutation puts the older record back (`cache.py:250`);
  what is listed then is not what the file holds: "Public reads validate it against
  Git/filesystem truth" (`cache.py:20`). The next refresh notices, unless the edit had put the
  file back as it was committed.
* Committed files are left out of all these properties: a tracked
  file that is edited, listed and put back is served as it was listed, because
  nothing is dirty any more and HEAD has not moved. An upsert, too, records the HEAD
  of its own moment, and a refresh the one at its end, so that a commit that came
  before either is never looked at.
* `UntrackedServed`: the list of the untracked files is made anew when a
  directory has changed (`cache.py:239`). `git rm --cached` and a commit, or `git reset` to a
  commit without the file, change none: the file is not on the list, and later edits of it are
  not served: "this closes the same-size/same-mtime direct-edit gap" (`cache.py:349`).
* `AllServed`: an update on a board without a database, such as a fresh
  clone, leaves one with a single row (`cache.py:250`), which `ensure_fresh` accepts;
  `read_all_tasks`, and with it the search and the test for duplicates, sees one task:
  "Serve collections from a freshness-validated derived cache" (`storage.py:157`).
* `CursorBound`: `CursorStable` leaves out cursors that are `torn`. The page is listed, another process
  writes a revision, and the cursor is signed with the new one.
* A query while another process builds the database anew gets a part of the rows,
  or none: `DirtyServed` is about complete databases.

*Archive.*

* `AlwaysKept` in ArchiveSafety: a mutation looks for the freeze, then waits; the
  archiving freezes, verifies and packs; the mutation writes and reports; the
  archiving deletes the new version (`archive.py:1057`): "Plans are revision-bound
  and fail closed when Git/config/reservations/archive inventory or selected task
  history changes." (`README.md:70`).
* After a kill or an error between `git commit` and the record of it, the freeze
  says `activating` although HEAD has moved, and `recover_archive` refuses for
  good; so it does when the stage is gone, which both its own last step and the
  `finally` clause of `create_archive` can bring about (`archive.py:1070`, `1124`,
  `1176`). Nothing is lost then (`Kept`), but mutations stay frozen until somebody
  removes the file by hand. The docstring (`archive.py:960`) says that the freeze lets
  recovery "distinguish a committed transition from an uncommitted one".
* `IndexRestored`: the `git reset` of the `except` clause may fail, and
  nobody looks (`archive.py:1109`); the files are restored and the freeze goes, but the index
  stays staged: "All faults before the commit restore exact hot bytes and index state"
  (`archive.py:958`). The same call in the recovery (`archive.py:1158`) is followed by a
  `git status` of the hot paths, which notices deletions but not packs.
* A copy that fails half-way stays in the archive directory (`archive.py:1053`),
  and `create_archive` does not look at HEAD again before it commits, so that its
  receipt can name a commit that is not the parent (`archive.py:1068`).
* `ArchivedUnblocked`: `plan_archive` reads a work tree that need not
  be clean, and binds HEAD and the tasks it selects, not their blockers. A blocker is done
  but not committed; the plan is made; `git stash` puts the blocker back; the tree is
  clean, HEAD has not moved, and the plan archives the task: "Fail closed when a sealed plan
  or any bound source fact is stale." (`archive.py:749`). `ArchivedResolved` is therefore about
  plans that were made from committed files.
* `ColdDoneResolved`: mutations look for done dependents in the hot tier only
  (`storage.py:684`), so that a done blocker can be reopened once its done
  dependents are cold.
* `plan_archive` calls a blocker that is already cold an `active_dependency`
  (`archive.py:691`), so that its dependents are never archived.

*Conversion and rollback.*

* `FreezeNotStranded`: the comment at `storage.py:1586` says that a refused check must not
  strand the freeze before the scope of the rollback begins; the stage is made between the
  two (`storage.py:1592-1611`), and an error there does strand it.
* `RollbackFaultPreserves`: a post-write rollback that fails while it activates has
  replaced some parts (`storage.py:1974`); the rest is in its archive.
* A mutation that was admitted before the freeze writes into a board that is being
  replaced, and is lost (`raced`). A `KeyboardInterrupt` runs the `finally` clause
  but not the `except` clause, which deletes the only backup. An error after the
  cutover commit restores the legacy board although HEAD has the new one; a kill
  leaves freeze and stage, for which there is no recovery.

*Merge.*

* `ChangePreserved` (`test_change_during_staging_is_preserved_and_merge_refuses`): a
  merge takes no board lock, and replaces what a mutation has written since the
  paths were compared (`merge.py:462`). A writer that makes the directory anew between
  the two renames lets the restoration fail, and the `finally` clause then deletes
  the backup.
* `ErrorsRestore`: if `rmtree` or `os.replace` fails in the `except` clause
  (`merge.py:560-568`), the `finally` clause deletes the backups all the same, and tasks or
  ledgers of the target are gone, without a race or a kill
  (`test_activation_fault_restores_target_bytes`). `BoardSound` and `FailureRestores`
  leave that case out.
* `CopiesNamed`: after 1000 names `_generate_new_id` calls
  `Task.generate_id` (`merge.py:294`), which does not exist (`models.py:254` has
  `_generate_id`): the plan fails instead of "generating completely new ID".
* `SourcesMerged`: of several sources with a task the last one counts,
  whichever is newer and with either strategy (`merge.py:331`): "Merge tasks from multiple
  .juno_task directories" (`cli.py:530`). `PlanFaithful` is about the tasks that count.
* The merged board may hold a cycle of dependencies; copies that `keep-both` makes wait for
  the originals.

### Bounds, and why they are enough

* **Two writers** show every race of the protocol, because the board lock
  admits one at a time: one dead and one recovering, one at work and one
  waiting. In all these runs both may die; then nothing happens any
  more, which is why these runs do not check for deadlock. That recoveries of
  recoveries work with any number of writers is proved (section 5).
* **Two or three files.** Two are needed for a half-done mutation, three for a
  rollback interrupted half-way with a file on either side. The second path
  list overlaps the first, so that plans of different writers share a file.
* **Images** are `Absent` and one or two others: creation, replacement and
  deletion all occur.
* **`MaxFaults`** bounds errors at two, for an error and one in its handler.
* **`MaxEvents`** stops new mutations of a task with that many events, and new
  reconcile commands for one with more; calls made earlier complete, so ledgers get
  longer by one or two. Two or three events are enough for a fork, a gap and a lost
  event. In BoardDependencies the bound is out of reach: its VIEW leaves the ledgers
  out, which decide nothing there but how an intent is recovered, and that
  (`Completed`, `Drifted`) is in the view.
* **Bodies.** Two, to tell an edit; `Marker` is the body that carries the marker
  of a finished umbrella.
* **Kinds, Edits, Interrupts** switch off what would make a run violate its
  property for a reason that is listed above: in BoardHistory writers are interrupted
  anywhere, but not while a reconcile command is under way, and no reconcile command
  begins while an intent is there (`"apart"`); it has no umbrella finalization,
  which does not reconcile. `delete_task` ignores done dependents; no CLI command
  calls it, so BoardDependencies is without it.
* **ArchiveSafety**: two tasks, for loops interrupted in the middle and for
  selections that leave a task out; one commit by people, for a HEAD that moves
  once anywhere; two faults, for one in the `except` clause or the recovery of
  another. A person's commit is of one hot task's files (`PeopleCommit`); nobody
  commits packs or deletions that an archiving has in flight. What a failed
  archiving has left staged people commit by path, or reset; that `git commit -a` would then
  commit half of the archiving is outside the model. `MaxVersion` is a bound on mutations. A pack holds one task here; in the code a torn copy can be
  of a pack of many, which are then all in `raced`.
* **ArchivePlan**: three events let a task be created, done and reopened; the clock
  advances once, which is the age asked for; three commits are a plan, its
  archiving and one more; a commit is of all files. HEAD does not return to an earlier commit,
  which would bring that commit's files with it. One other change is an edit, a reservation, a
  damaged row, or files put back as they are in HEAD. Two policies tell batches by bytes from batches by count.
* **Dependencies**: four tasks close cycles of every length up to four; three IDs give self-loops, cycles of two and three, a diamond's
  half and blockers that are missing, finished or open; what is checked is proved for
  every number.
* **CacheSafety**: two files are a page of one and one that follows; two changes
  are an edit and what hides it, a mutation and an edit before its upsert, a reset and an edit
  that is overlooked, or a change between query and signature and one after. `MaxChanges`
  counts changes of the board, not the steps of processes. `PagesApart` lets a listing begin on
  a board that has not changed yet, and files be written, edited and deleted, records be
  stored and the database be lost while it lasts, but neither HEAD nor the Git index change:
  what the pages depend on are the rows and the revision, which those changes reach through
  the same refresh. `CursorStable` and `NoneSkipped` are proved without that bound.
* **CutoverSafety**: three commands are a conversion, a rollback and a conversion after it,
  or a conversion, its acceptance and its end; two faults are an error and one in the
  clause that undoes it. Its processes are one command and one mutation, because the
  commands exclude each other by their freeze and by being run by hand.
* **BoardMerge**: three commands are a plan and two applications, or two plans; a segment of
  five bytes holds two or more events and is outgrown by those of a merge. One write is a
  mutation that comes anywhere. Of two names for a copy the first, or both, are taken.
* BoardDependencies and ArchiveSafety use process and task symmetry, BoardHistory
  process symmetry; the other new instances number what they hold. The runs with liveness
  use none.
* **Deadlock** is not checked where everybody may be dead, or where a bound ends the run.

### Fairness

A process that is alive keeps running: weak fairness of `Progress(w)`, all its
own steps taken together. Nobody is bound to call, commit, edit, fail or be
killed. Weak fairness is what the operating system gives; in particular nothing
promises that a given waiting process ever gets the `flock`, and
`AbandonedSettled` is the stronger for it: whoever gets it decides the plan.
That `flock(LOCK_EX)` waits without a timeout (`storage.py:420`) is why
`BoardReleased` and `LocksReleased` matter: task locks time out, the board lock
does not.

## 4. What is assumed

* `os.replace` of a file on the same file system is atomic and durable once the
  directory is synced; `flock` is released by the kernel when its holder dies.
* People leave the files of an abandoned plan alone, wherever a property says
  what recovery achieves (`NeverDrifts`, `RollbackSound`, the refinement). The
  rest holds whatever they edit; what they break otherwise is the refusal
  `RecoverRefuse`.
* Two different records have different hashes, and `last_modified` makes every
  update a change.
* Editors do not write a file at the instant a command replaces it.
* Git reports a file as changed exactly when its contents differ (no entry of the index
  is taken for unchanged by its time stamp alone).
* One conversion, rollback, acceptance or merge runs at a time; the boards that take part
  in a cutover are in a Git repository; nobody commits what such a command has in flight.

## 5. Proofs

`MutationTransactionProofs`, `BoardMutationsProofs`, `ArchivePackProofs`,
`ArchivePlanProofs`, `DependencyProofs`, `QueryCacheProofs`, `CutoverProofs` and
`BoardMergeProofs` extend the modules they are about (`DependencyProofs` two, the commands and the graph);
nothing is assumed but the named assumptions on the constants, which TLC
evaluates in the runs, and the theorems of the library on finite sets, sequences and well-founded orders.

| Theorem | States |
|---|---|
| `Invariant` | `Spec => []IInv`, for any writers, files, path lists, HEADs and errors |
| `TypeCorrect`, `OneIntentAtMost` | its conjuncts `TypeOK` and `SingleIntent` |
| `RecoveryKnowsEveryImage`, `RecoveryUndoesOnlyIncomplete` | without edits of abandoned plans, `NeverDrifts` and `RollbackSound` |
| `NextWriterIsServed` | with one HEAD and without edits of abandoned plans, `NextWriterRecovers` |
| `OrdinaryErrorsRestore` | without late errors, `ErrorRestores`: what `storage.py:552` says of ordinary errors |
| `MutationsAreAtomic` | without edits of abandoned plans, the protocol implements `AtomicMutation` |
| `DoneStaysResolved` | without deletions and files added by hand, `Spec => []DoneResolved` |
| `LedgersUnbroken`, `HistoriesContinuous` | where no writer is interrupted beside a reconcile command (`Interrupts # "any"`), `ChainUnbroken` and `HistoryContinuous` |
| `IntentsRecoverable`, `LedgersAppendOnly` | under the same assumption, `IntentRecoverable` and `AppendOnly` |
| `LedgersConverge` | under the same assumption, `Converged`: the ledger of a task nobody works on ends in what its file says, unless the file was edited since |
| `VersionsKept`, `TiersSeparate`, `ReceiptsTell` | `Kept`, `OneTier` and `ReceiptsTrue`, for any tasks, processes, versions, commits and faults |
| `FaultsUndone` | `Spec => FaultRestores`: a failed archiving that leaves no freeze has put the work tree back |
| `ArchivedAreAged`, `ArchivedAreResolved`, `PacksArePlanned`, `ColdIdsReserved` | the four properties of `ArchivePlan`, for any finite set of tasks, any policies and any history |
| `CommitsAreWhole`, `WritesAreKept`, `HalfBoardsAreFrozen` | `HeadWhole`, `Kept` and `HalfFrozen` of the cutover, for any number of commands, writes and faults |
| `FailuresRestore`, `SuccessIsTrue` | `FailureRestores` and `ReportsTrue`, under the same conditions: how a conversion or rollback ends is what it says |
| `CursorsStable`, `ListingsComplete` | `CursorStable` and `NoneSkipped`, for any processes, contents and changes and any finite set of files |
| `DirtyFilesServed` | `Spec => []DirtyServed`, under the same conditions |
| `PlansFaithful`, `BoardsSound`, `EventsAppliedOnce` | `PlanFaithful`, `BoardSound` and `AppliedOnce`, for any boards, sources, merges, mutations and faults |
| `MergesWhole`, `MergeFailuresRestore` | `AppliedWhole` and `FailureRestores` of the merge, under the same conditions: what a merge that ends has done |
| `OrderIsSound`, `SearchesAreSound` | `OrderSound` and `SearchesSound`, for every finite board |
| `CriticalPathIsLongest` | `Spec => []CriticalPathLongest`: a chain of open tasks, and no chain is longer |
| `CycleChecksAgree` | on one board, `detect_cycle` reports a cycle exactly if `WouldCycle` says so |
| `SerialAcyclic` | dependency commands that run one after the other keep the board acyclic |

**The invariant.** `SingleIntent` is not inductive: a second directory could
appear if a writer started while one is left, or if two writers were at work.
`LockOwner` (a writer past the lock owns it) excludes the second, and
`DirectoryMatches` (whoever computes a mutation has found no directory, and a
working writer's directory is as far as its `pc`) the first. `NeverDrifts` and
`RollbackSound` are about files, and need `WalkMatches`: while a writer
activates, the files before its index are new and those from it on are old;
while it restores, those before its index are old again. `TargetKnown` says that
a rollback works on a published plan. These conjuncts hold whatever people edit.
The last two hold if `"abandoned" \notin Edits`. Each action has a step; what
it can disturb is one lemma per conjunct (`DriftStep`, `RollbackStep`,
`WalkStep`...).

**The refinement.** While a plan is published, its files are seen by the
abstract board as they were before (`Seen`), whatever is on disk; the removal of
`plan.json` therefore is the one step in which the mutation takes effect.
`WalkMatches` gives that the files then are what the plan wants; a rollback
leaves them as they were, so that settling it changes nothing. `Phase` maps a
writer at work to an open request, one that removes its directory to a committed
one, and one that is gone but has left `plan.json` to an orphaned one.

**Done tasks.** `DoneResolved` speaks of the board with an intent rolled back.
Recovery may keep the intent, and a mutation is checked some steps before it writes.
`BoardsResolved` and `PlansResolved` therefore claim the same of the board with the
intent kept and of the board as each mutation under way would leave it. The latter
survives the steps of others because only the holder of the board lock has such a
plan, and only where there is no intent (`Exclusive`); edits of bodies change neither
status nor blockers (`Alike`). Deletions and files added by hand are excluded because
they break it: `delete_task` ignores dependents, and a done task that somebody adds may
wait for what a mutation, checked but not written, is about to reopen.

**Ledgers.** An event follows its ledger (`Follows`) when it is prepared, and must
still do so when it is written. Whoever has prepared one holds the lock of its task
(`Locked`), so that nobody else appends (`Stepping` leaves only the files and the
process itself to look at); `UpToDate` says what is known of the ledger meanwhile.
The one step that changes ledgers without their locks is a recovery. No mutation is
under way then, because a recovery needs the board lock; a reconcile command may be,
for it takes no board lock, and with `Interrupts = "any"` TLC finds the fork.
`Apart` excludes it. Both images of an intent are sound histories, one a prefix of
the other (`FilesOK`), so that either outcome of a recovery is one that grows.

**Ledgers and files.** `Converged` is claimed of idle tasks only. `Agreement` says of
every task that is neither in an intent nor edited since that its file and its ledger
agree, and of each intent that its new images do, and its old ones if nobody has edited
the task. The step that needs care is the preparation of an event: what its process has
read of the file may be stale, and then the event would end in something else. `Faithful`
says that whoever holds the lock of a task has read what is there, or the task counts as
edited; whoever else could have changed the file would have needed that lock.

**The archive.** Nothing is claimed of tasks that a mutation writes under an archiving
(`raced`). Any other is `Settled`, in one tier and with its pack as committed; or it
belongs to the freeze, and is `Moving` (HEAD still has it in the hot tier, and each tier
has its version or nothing) or `Moved`. The tasks of a freeze are all the former
(`Before`) or all the latter (`After`), and it is the number of HEAD that tells
which: a recovery that finds HEAD where the freeze says may take back what it finds, for
`After` implies that HEAD has moved. That is the line on which `Kept` rests, and the reason
why the mutant that does not compare HEAD loses tasks. `PlanKept`, `FreezeKept` and
`Progress` follow the command and its except clause, `Recovers` the recovery, task by task.
One process at most is at work (`Locked`); the steps of all others are shown to change
nothing it relies on (`Outside`): a mutation makes its task `raced`, and a commit by people
moves HEAD but leaves `Moving` tasks in its hot tier. `Told` carries the account of a commit from
the freeze to the receipt that repeats it.

**Plans.** A plan may be wrong by the time it is applied. `PlanCurrent` says what is left of
it: if it was made from committed files and HEAD is the same, then the files of HEAD, which
are those of the work tree when the plan is applied, have resolved blockers. For the age nothing of the sort
is needed, because a selected task is applied with the very ledger it was selected with, and a
ledger tells one time only (`BeganOnce`). `SinceKnown` ties
`since` to the ledger, event by event, in the work tree and in HEAD, since files of HEAD may come
back; and `Evidence` shows that `_terminal_transition` finds
that event. That the packs are the batches of the plan is a fact about the greedy split: a
batch that fits is not split again in any order (`SplitAgain`), because each of its
parts has at most its bytes (`BytesOfPart`, which needs that a sum does not depend on the
order). What is recursive here is a function over a finite set or an interval; that it
exists, and each fact about it, is by the least counterexample (`NumberInduction`,
`SubsetInduction`, over sets instead of predicates).

**The cutover.** Nothing is claimed once a mutation has `raced`. Until then `Truth` holds: a
board that can be read holds every acknowledged write, and while none can be read HEAD
holds them all. `Kept` is the disjunction of the two. It is inductive because a board becomes
readable again only by a move whose source is known: `AtActivate` says of each part
whether it is the original, saved or replaced at the given step of the activation, `AtUndo`
which of the saved and activated parts are back (`Undoable`), `AtUnpack` the same of the
archive of a rollback. What has been done at any step of a conversion can be undone
(`CanUndo`), which is `FailureRestores` - an error while the stage is made finds nothing to undo
and leaves the freeze, which the theorem excepts; only the failure of the finish can have lost a
backup, and then the commit is made. Nobody else writes meanwhile: the conversion stays
frozen until the new board is complete, and what comes between the thaw and the end counts as
a race. `AtRest` says that a board no freeze protects is sound unless the clauses that clean
up were stopped themselves (`hurt`): this is `HalfFrozen`, and why the freeze of a rollback
must outlast `Clear` and `Fill`.

**Acyclicity.** A set of tasks is closed if it holds the blockers of its
members. That `t` is not reachable from `b` is a closed set around `b` without
`t`; unions of closed sets are closed, so that several checked edges have one
such set, and adding the edges keeps it closed. A cycle through the new edges
would have to leave it. The invariant carries, for the command in progress, the
set for the edges checked so far; this is where `Serial` is needed, and two
processes show that it is.

**Cursors.** `CursorStable` speaks of cursors that were signed. It becomes inductive
(`PagesBound`) when it is claimed of the unsigned ones too, which a query makes:
whoever changes the rows of a complete database writes a new revision, which makes
signed cursors stale and unsigned ones torn. That only a cursor that a query has
made is ever signed follows from the order of the steps of a listing; `InOrder`
names the rests of a command that can be left, and what each says about the page.
`NoneSkipped` needs the key of a cursor to be that of the first row of what it was
made from (`KeysOK`). That a finite set of rows has a first one, in the order of the
listing, is where the finiteness of `Path` is used.

**Fresh listings.** `DirtyServed` speaks of the end of a refresh during which nothing
has changed (`touched`). `Accurate` follows its phases: what the comparison with Git has
not found changed is right (`Right`: served as it is on disk, as committed, overlooked, or
spoilt by a late upsert), and what is copied
for the rest is what is on disk. Git is not asked about each untracked file;
`UntrackedRecorded` says that they are all recorded as long as no directory has changed,
but for those that Git dropped. That a file which is overlooked stays so while others refresh
needs that after a refresh the directories are as recorded.
`Leased` says that one process refreshes at a time, so that no late copy of
somebody else's undoes this.

**The order.** The counter of a node is the number of its blockers that are not
output yet (`Counted`), and the queue holds the nodes whose counter is zero and that
are not output (`Queued`), none of them twice (`Output`). A step outputs the head of
the queue, which was waiting for nothing; the counters of what waits for it sink by
one, because a node is output once, and those that reach zero join the queue. When
the queue is empty, whatever is not output waits for something that is not output,
a node or not, so that what is left over is `HeldBack`. Conversely nothing of a set that is
held back is ever output, for its first member would come after a blocker in the set.

**Searches and the critical path.** The cycle search has visited only what waits for its
first node, and every visited node that is not at the end of a queued path has its
dependents visited (`Searching`); the score says the same with its stack
(`ScoreInv`). When nothing is queued, the visited set is closed, and what waits for a node is
the least closed set (`DependentsLeast`). The lengths `dp` and the paths are recursive
functions over the order. The induction theorems of the library cannot be instantiated, so that
these proofs argue with the least place where a claim fails (`Least`): there is none,
hence the functions exist and have their values (`Lengths`, `PathsAreChains`). Along any
chain the lengths grow (`ChainsGrow`), because a blocker comes first in the order.
`CycleChecksAgree` relates the two components: a task that does not wait for `b` lies in a set
that is closed under blockers and does not contain `b`, which is how `WouldCycle` is stated.

**Merges.** Until its last look a merge works on copies that may have been taken
while mutations wrote. `Copied` says what is good of them: all but the file of a mutation
whose ledger is not written (`Pending`). When the ledger is written, either the head
has grown beyond the one that the plan names (`Outrun`), so that the last look refuses,
or the task had no file when the plan was made (`Unseen`), which is what `raced` leaves
out. Heads never shrink before the end of a merge, so that a plan that can still be
derived at the last look has good copies, and these are what was reviewed. From then on
the merge knows both boards (`Late`): each directory is where it was found, in the
backup, or replaced (`Moved`), so that nothing is in the way of its restoration.
`BoardInv` says of both boards that they are sound; the one that is made is, because
each event of the plan follows the head that it was prepared for. Event and state are
tied by position: in a sound chain an event names its place, so that it cannot be
there twice. `PlanFaithful` is about one plan. It is only made when every
copy has a free name (`Nameable`), so that there is a least free number (`NewNames`), as
there is a last of the sources with a task (`LastSource`).
`MergeFailuresRestore` has no case to leave out among the errors of the `try` block: `Late`
implies that nothing is in the way (`GoesBack`), so that `RestoreFails` needs a race
(`RestoreFailsRaced`). `RestoreError` is the one step after which nothing is claimed of
the board: it makes `hurt` true, as a stop does.

What stays with TLC: liveness (`AbandonedSettled`, `BoardReleased`,
`LocksReleased`) is out of the prover's reach.

## 6. Not modelled

* The project registry and routing: one alias file that is replaced under one lock and
  that no board depends on.
* The contents of records: names, tags, references; what their validation refuses
  is the nondeterministic `RefuseLate`.
* The Markdown codec, configuration, search and sorting, argument parsing, output,
  benchmarks, release scripts: sequential text processing.
* Torn appends of a reconcile event, which `ledger.py` detects when it reads; admission
  receipts of mutations beyond the revisions they name.
* Of the cache: the text search, and the tables of archive rows and blockers. Its
  `archive_index_complete` is not called. `delete_task` takes its row away without a new
  revision, by hand and in a library call only; boards outside Git, where every file is hashed.
* Of the archive: the format of packs, searching them, damaged packs, linked worktrees,
  the hash of the configuration a plan is bound to, `delete_task` next to plans.
* Of the cutover: sources outside the board and boards outside Git
  (`storage.py:1552`), reports and receipts beyond what they claim.
* Of the merge: IDs that differ in case only, and the cold tiers of the boards; `merge.py` ignores both.

To repeat the checks: `tlc -config X.cfg M` for every run of `PROJECT.json`, and
`tlapm M.tla` for the eight modules of proofs.
