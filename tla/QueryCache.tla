----------------------------- MODULE QueryCache -----------------------------
(***************************************************************************)
(* kanban/cache.py: the SQLite index of the task files, and the collection *)
(* commands of kanban/cli.py that list it page by page.                    *)
(*                                                                         *)
(* A row is a copy of a file.  Before each use ensure_fresh asks Git which *)
(* files may differ from their rows, and copies those; a database that is  *)
(* missing or of another schema or configuration is built anew.  Refreshes *)
(* exclude each other, but not the queries, nor the upsert with which a    *)
(* mutation stores the records it has written, whatever their files hold   *)
(* by then.                                                                *)
(***************************************************************************)
EXTENDS Naturals, Sequences, FiniteSets

CONSTANTS
    Procs, NoProc,  \* CLI processes that read through the index
    Listers,        \* those of them that list the collection page by page
    Path,           \* task files, numbered in the order of the task IDs
    Version,        \* contents of a task file, numbered in the order of last_modified
    Absent,         \* no file, or no row
    Filters,        \* filters of the list command: the contents they let pass
    Changes,        \* what happens to the board, "refreshing": also during a refresh ...
    MaxChanges      \* ... and how often

ASSUME CacheAssumption ==
    /\ Path \subseteq Nat /\ IsFiniteSet(Path)
    /\ Version \subseteq Nat /\ Absent \notin Version /\ Filters \subseteq SUBSET Version
    /\ NoProc \notin Procs /\ Listers \subseteq Procs /\ MaxChanges \in Nat

VARIABLES
    head, index, work,  \* the files as HEAD, the Git index and the disk have them
    changes,    \* how many changes so far
    pending,    \* file -> the record that a mutation has written and not yet stored
    db,         \* "none", "partial", "building" or "ok"
    rows,       \* tasks: file -> the contents copied
    meta,       \* metadata: HEAD; the untracked files; are both signatures current?
    lock,       \* cache-refresh.lock
    script,     \* process -> the steps of its command that remain
    scan,       \* process -> what its refresh has found out
    touched,    \* process -> has a file or HEAD changed since its last scan began?
    late,       \* process -> files whose outdated record was stored since then (history)
    dropped,    \* files that Git has ceased to track and left on the disk (history)
    filter,     \* process -> the filter of its command
    page        \* process -> the cursor it was given, with what it has seen

files == <<head, index, work, changes>>
cache == <<db, rows, meta>>
vars == <<files, pending, cache, lock, script, scan, touched, late, dropped, filter, page>>

Content == Version \cup {Absent}
Tree == [Path -> Content]
Empty == [f \in Path |-> Absent]
NoScan == [kind |-> "none", changed |-> {}, read |-> Empty]
NoKey == [modified |-> Absent, id |-> Absent]
NoPage == [cursor |-> "none", torn |-> FALSE, key |-> NoKey, of |-> Empty, filter |-> {}]

\* The commands: list --show-cursor, then list --cursor.  Each step but the last
\* of the second page is preceded by ensure_fresh.
FirstPage == <<"refresh", "query", "refresh", "sign">>
NextPage == <<"refresh", "verify", "refresh", "query">>

TypeOK ==
    /\ {head, index, work, rows, pending} \subseteq Tree
    /\ dropped \subseteq Path /\ changes \in 0..MaxChanges
    /\ db \in {"none", "partial", "building", "ok"}
    /\ meta \in [head : Tree, untracked : SUBSET Path, sameDirs : BOOLEAN, sameIndex : BOOLEAN]
    /\ lock \in Procs \cup {NoProc}
    /\ \A p \in Procs :
          /\ script[p] \in Seq({"refresh", "load", "fill", "query", "sign", "verify"})
          /\ scan[p].kind \in {"none", "changed", "rebuild"} /\ scan[p].changed \subseteq Path
          /\ page[p].cursor \in {"none", "unsigned", "live", "stale"}
          /\ filter[p] \in Filters \cup {{}}
    /\ touched \in [Procs -> BOOLEAN] /\ late \in [Procs -> SUBSET Path]

Init ==
    /\ head \in Tree /\ index = head /\ work = head
    /\ pending = Empty /\ changes = 0 /\ dropped = {}
    /\ db = "none" /\ rows = Empty
    /\ meta = [head |-> Empty, untracked |-> {}, sameDirs |-> FALSE, sameIndex |-> FALSE]
    /\ lock = NoProc
    /\ script = [p \in Procs |-> <<>>]
    /\ scan = [p \in Procs |-> NoScan]
    /\ touched = [p \in Procs |-> FALSE] /\ late = [p \in Procs |-> {}]
    /\ filter = [p \in Procs |-> {}] /\ page = [p \in Procs |-> NoPage]

Untracked == {f \in Path : work[f] # Absent /\ index[f] = Absent}

(***************************************************************************)
(* Freshness.                                                              *)
(***************************************************************************)

Doing(p, step) == script[p] # <<>> /\ Head(script[p]) = step

\* The step at hand becomes another one, or is done.
Becomes(p, step) == script' = [script EXCEPT ![p][1] = step]
Done(p) == script' = [script EXCEPT ![p] = Tail(@)]

\* The files that may differ from their rows: those that differ between the HEAD
\* recorded and HEAD, those that git status reports, the untracked files recorded
\* where they differ, and all untracked files if a directory has changed.
Suspects ==
    {f \in Path :
        \/ meta.head[f] # head[f]
        \/ index[f] # head[f]
        \/ index[f] # Absent /\ work[f] # index[f]
        \/ f \in meta.untracked /\ rows[f] # work[f]
        \/ f \in Untracked /\ ~meta.sameDirs}

\* Mutant of NewRevision: the revision stays.
OldRevision == UNCHANGED page

\* A new revision, and with it every cursor given so far is stale.  A cursor
\* that is not signed yet is going to carry the new revision all the same.
NewRevision ==
    page' = [q \in Procs |->
        IF page[q].cursor = "live" THEN [page[q] EXCEPT !.cursor = "stale"]
        ELSE IF page[q].cursor = "unsigned" THEN [page[q] EXCEPT !.torn = TRUE]
        ELSE page[q]]

\* _cache_refresh_lock: one refresh at a time.
Lease(p) ==
    /\ Doing(p, "refresh")
    /\ lock = NoProc /\ lock' = p
    /\ touched' = [touched EXCEPT ![p] = FALSE] /\ late' = [late EXCEPT ![p] = {}]
    /\ UNCHANGED <<files, pending, dropped, filter, page>>

\* A command that waits for too long fails.
LeaseTimeout(p) ==
    /\ Doing(p, "refresh") /\ lock # NoProc
    /\ script' = [script EXCEPT ![p] = <<>>]
    /\ page' = [page EXCEPT ![p] = IF @.cursor = "unsigned" THEN NoPage ELSE @]
    /\ UNCHANGED <<files, pending, cache, lock, scan, touched, late, dropped, filter>>

\* ensure_fresh: what does Git say?  _ensure_query_cache rejects a database that
\* an upsert has begun, which lacks the identity of the archive; read_all_tasks
\* takes it for complete.
Scan(p) ==
    /\ Lease(p)
    /\ db = "ok" \/ (db = "partial" /\ p \notin Listers)
    /\ scan' = [scan EXCEPT ![p] = [kind |-> "changed", changed |-> Suspects, read |-> Empty]]
    /\ Becomes(p, "load")
    /\ UNCHANGED cache

\* rebuild_cache reads every file.
ScanAll(p) ==
    /\ Lease(p)
    /\ db # "ok" /\ db' = "building" /\ rows' = Empty
    /\ scan' = [scan EXCEPT ![p] = [kind |-> "rebuild", changed |-> {}, read |-> work]]
    /\ Becomes(p, "fill")
    /\ UNCHANGED meta

\* The metadata are those of the moment they are written.
Metadata(untracked) ==
    [head |-> head, untracked |-> untracked, sameDirs |-> TRUE, sameIndex |-> TRUE]

\* The untracked files recorded are found anew only if a directory has changed.
\* Mutant of Recorded: never.
RecordedKept == meta.untracked
Recorded == IF meta.sameDirs THEN meta.untracked ELSE Untracked

Copied(changed) == [f \in Path |-> IF f \in changed THEN work[f] ELSE rows[f]]

\* Copy the files found and, if that or the signatures ask for it, write the
\* metadata.
Load(p) ==
    /\ Doing(p, "load")
    /\ rows' = Copied(scan[p].changed)
    /\ IF rows' # rows \/ ~meta.sameIndex \/ ~meta.sameDirs \/ meta.head # head
       THEN meta' = Metadata(Recorded) /\ NewRevision
       ELSE UNCHANGED <<meta, page>>
    /\ scan' = [scan EXCEPT ![p] = NoScan]
    /\ Done(p)
    /\ lock' = NoProc
    /\ UNCHANGED <<files, pending, db, touched, late, dropped, filter>>

\* rebuild: the files were read before the new database was created.
Fill(p) ==
    /\ Doing(p, "fill")
    /\ db' = "ok" /\ rows' = scan[p].read
    /\ meta' = Metadata(Untracked) /\ NewRevision
    /\ scan' = [scan EXCEPT ![p] = NoScan]
    /\ Done(p)
    /\ lock' = NoProc
    /\ UNCHANGED <<files, pending, touched, late, dropped, filter>>

\* read_all_tasks, and the commands that query once.
ReadAll(p) ==
    /\ script[p] = <<>> /\ p \notin Listers
    /\ script' = [script EXCEPT ![p] = <<"refresh", "query">>]
    /\ UNCHANGED <<files, pending, cache, lock, scan, touched, late, dropped, filter, page>>

(***************************************************************************)
(* Listing page by page, one task per page.                                *)
(***************************************************************************)

\* ORDER BY: the task last modified comes first, of equals the greater ID.
First(S) ==
    CHOOSE f \in S : \A g \in S : rows[g] < rows[f] \/ (rows[g] = rows[f] /\ g <= f)

\* The WHERE clause of a cursor.  Mutant of After: only last_modified is compared.
AfterModified(f, key) == rows[f] < key.modified
After(f, key) == rows[f] < key.modified \/ (rows[f] = key.modified /\ f < key.id)

\* The rows that the filter lets pass, and of those the ones behind the cursor.
Matches(F) == {f \in Path : rows[f] \in F}

Rest(p) ==
    IF page[p].key = NoKey THEN Matches(filter[p])
    ELSE {f \in Matches(filter[p]) : After(f, page[p].key)}

List(p, F) ==
    /\ p \in Listers
    /\ script[p] = <<>> /\ page[p].cursor \in {"none", "stale"}
    /\ script' = [script EXCEPT ![p] = FirstPage]
    /\ filter' = [filter EXCEPT ![p] = F]
    /\ page' = [page EXCEPT ![p] = NoPage]
    /\ UNCHANGED <<files, pending, cache, lock, scan, touched, late, dropped>>

Continue(p, F) ==
    /\ script[p] = <<>> /\ page[p].cursor \in {"live", "stale"}
    /\ script' = [script EXCEPT ![p] = NextPage]
    /\ filter' = [filter EXCEPT ![p] = F]
    /\ UNCHANGED <<files, pending, cache, lock, scan, touched, late, dropped, page>>

\* cache.query, outside the lease.  The first page gets a cursor if there is
\* more to list.
Query(p) ==
    /\ Doing(p, "query")
    /\ \/ /\ Len(script[p]) > 1 /\ Cardinality(Rest(p)) > 1
          /\ page' = [page EXCEPT ![p] =
                [cursor |-> "unsigned", torn |-> FALSE, of |-> rows, filter |-> filter[p],
                 key |-> [modified |-> rows[First(Rest(p))], id |-> First(Rest(p))]]]
          /\ Done(p)
       \/ /\ Len(script[p]) = 1 \/ Cardinality(Rest(p)) <= 1
          /\ page' = [page EXCEPT ![p] = NoPage]
          /\ script' = [script EXCEPT ![p] = <<>>]
    /\ UNCHANGED <<files, pending, cache, lock, scan, touched, late, dropped, filter>>

\* _set_next_cursor: the cursor carries the revision of now, which is not the
\* one the query returned if it has changed in between.
Sign(p) ==
    /\ Doing(p, "sign")
    /\ page' = [page EXCEPT ![p].cursor = "live"]
    /\ Done(p)
    /\ UNCHANGED <<files, pending, cache, lock, scan, touched, late, dropped, filter>>

\* _validate_pagination_args: a stale cursor is refused, and one of another query.
Verify(p) ==
    /\ Doing(p, "verify")
    /\ IF page[p].cursor = "live" /\ page[p].filter = filter[p]
       THEN Done(p) /\ UNCHANGED page
       ELSE /\ script' = [script EXCEPT ![p] = <<>>]
            /\ page' = [page EXCEPT ![p] = NoPage]
    /\ UNCHANGED <<files, pending, cache, lock, scan, touched, late, dropped, filter>>

(***************************************************************************)
(* The board changes.                                                      *)
(***************************************************************************)

\* A change of the files; inPlace if no directory entry changes.
Change(kind, newHead, newIndex, newWork, inPlace) ==
    /\ kind \in Changes
    /\ lock # NoProc => "refreshing" \in Changes
    /\ head' = newHead /\ index' = newIndex /\ work' = newWork
    /\ <<head', index', work'>> # <<head, index, work>>
    /\ changes < MaxChanges /\ changes' = changes + 1
    /\ touched' = [p \in Procs |-> TRUE]
    /\ dropped' = dropped \cup
          {f \in Path : index[f] # Absent /\ newIndex[f] = Absent /\ newWork[f] # Absent}
    /\ meta' = [meta EXCEPT !.sameDirs = @ /\ inPlace, !.sameIndex = @ /\ newIndex = index]
    /\ UNCHANGED <<db, rows, lock, script, scan, late, filter, page>>

\* A mutation replaces or creates a task file, the finalization of an umbrella
\* several that are there.  It holds the board lock until it has stored them ...
Write(S, new) ==
    /\ pending = Empty /\ S # {}
    /\ Cardinality(S) = 1 \/ \A f \in S : work[f] # Absent
    /\ Change("write", head, index, [f \in Path |-> IF f \in S THEN new[f] ELSE work[f]], FALSE)
    /\ pending' = [f \in Path |-> IF f \in S THEN new[f] ELSE Absent]

\* The metadata of an upsert have the HEAD and the index of now, but keep the
\* directory signature, and of the untracked files only this one is looked at.
UpsertMetadata(f) ==
    [meta EXCEPT !.head = head, !.sameIndex = TRUE,
                 !.untracked = IF f \in Untracked THEN @ \cup {f} ELSE @ \ {f}]

\* The metadata of a database that an upsert begins.
BegunMetadata(f) ==
    [head |-> head, untracked |-> {f} \cap Untracked, sameDirs |-> TRUE, sameIndex |-> TRUE]

\* ... one after the other, as they were put into the files, even if those have
\* changed again: an upsert needs the file, but does not read it.  It creates a
\* database where there is none, with this row alone.
Upsert(f) ==
    /\ pending[f] # Absent /\ db # "building" /\ work[f] # Absent
    /\ pending' = [pending EXCEPT ![f] = Absent]
    /\ rows' = [rows EXCEPT ![f] = pending[f]]
    /\ IF db = "none" THEN db' = "partial" /\ meta' = BegunMetadata(f) /\ NewRevision
       ELSE IF rows' # rows THEN db' = db /\ meta' = UpsertMetadata(f) /\ NewRevision
       ELSE UNCHANGED <<db, meta, page>>
    /\ late' = [p \in Procs |-> IF rows'[f] = work[f] THEN late[p] ELSE late[p] \cup {f}]
    /\ UNCHANGED <<files, lock, script, scan, touched, dropped, filter>>

\* The database is busy or broken, the file is gone or the process dies: the record
\* is not stored, and nobody is told.
UpsertFails(f) ==
    /\ pending[f] # Absent
    /\ pending' = [pending EXCEPT ![f] = Absent]
    /\ UNCHANGED <<files, cache, lock, script, scan, touched, late, dropped, filter, page>>

\* People edit, create and delete task files ...
Edit(f, v) ==
    /\ Change("edit", head, index, [work EXCEPT ![f] = v], work[f] # Absent /\ v # Absent)
    /\ UNCHANGED pending

\* ... and use Git.
GitAdd(f) ==
    /\ Change("add", head, [index EXCEPT ![f] = work[f]], work, TRUE)
    /\ UNCHANGED pending

\* git commit, of what is in the index, or with -a of all tracked files
GitCommit ==
    /\ \E tree \in {index, [f \in Path |-> IF index[f] = Absent THEN Absent ELSE work[f]]} :
          Change("commit", tree, tree, work, TRUE)
    /\ UNCHANGED pending

\* git rm --cached, and git reset -- f
GitUnstage(f) ==
    /\ \E v \in {Absent, head[f]} : Change("reset", head, [index EXCEPT ![f] = v], work, TRUE)
    /\ UNCHANGED pending

\* git reset to another commit, which leaves the files alone
GitReset(tree) ==
    /\ Change("reset", tree, tree, work, TRUE)
    /\ UNCHANGED pending

\* git checkout -- f
GitRestore(f) ==
    /\ index[f] # Absent
    /\ Change("restore", head, index, [work EXCEPT ![f] = index[f]], FALSE)
    /\ UNCHANGED pending

\* A pull, a merge or a switch to another commit; Git refuses to overwrite what
\* is not committed.
GitCheckout(tree) ==
    LET moved == {f \in Path : tree[f] # head[f]} IN
    /\ \A f \in moved : index[f] = head[f] /\ work[f] = head[f]
    /\ Change("checkout", tree, [f \in Path |-> IF f \in moved THEN tree[f] ELSE index[f]],
              [f \in Path |-> IF f \in moved THEN tree[f] ELSE work[f]], FALSE)
    /\ UNCHANGED pending

\* The database is deleted or becomes unreadable, or the configuration changes.
Invalidate ==
    /\ "invalidate" \in Changes
    /\ db \in {"ok", "partial"} /\ lock = NoProc
    /\ changes < MaxChanges /\ changes' = changes + 1
    /\ db' = "none" /\ rows' = Empty
    /\ touched' = [p \in Procs |-> TRUE]
    /\ UNCHANGED <<head, index, work, pending, meta, lock, script, scan, late, dropped, filter, page>>

Step(p) ==
    \/ ReadAll(p) \/ Scan(p) \/ ScanAll(p) \/ LeaseTimeout(p) \/ Load(p) \/ Fill(p)
    \/ \E F \in Filters : List(p, F) \/ Continue(p, F)
    \/ Query(p) \/ Sign(p) \/ Verify(p)

Outside ==
    \/ \E f \in Path : Upsert(f) \/ UpsertFails(f) \/ GitAdd(f) \/ GitRestore(f) \/ GitUnstage(f)
    \/ \E S \in SUBSET Path : \E new \in [S -> Version] : Write(S, new)
    \/ \E f \in Path, v \in Content : Edit(f, v)
    \/ GitCommit \/ Invalidate
    \/ \E tree \in Tree : GitCheckout(tree) \/ GitReset(tree)

Next == (\E p \in Procs : Step(p)) \/ Outside

Spec == Init /\ [][Next]_vars

(***************************************************************************)
(* Properties.                                                             *)
(***************************************************************************)

\* A process is about to query, and nothing has changed since its refresh began.
Settled(p) == Doing(p, "query") /\ ~touched[p]

Committed(f) == work[f] = index[f] /\ index[f] = head[f]

\* A file that Git has ceased to track while no directory changed: refreshes do not
\* come to know of it.
Overlooked == {f \in Untracked : f \in dropped /\ f \notin meta.untracked}

\* A file that differs from HEAD or from the index, or that Git does not track, is
\* not listed stale from a complete database, unless it is overlooked, or a mutation
\* has stored an outdated record of it since the refresh began.
DirtyServed ==
    \A p \in Procs : Settled(p) /\ db = "ok" =>
        \A f \in Path \ (Overlooked \cup late[p]) : rows[f] = work[f] \/ Committed(f)

\* "Public reads validate it against Git/filesystem truth": what is listed is what
\* the files hold, where Git sees a difference.  (It does not hold: a mutation that
\* stores its record after the file was edited again undoes what a refresh has just
\* copied.  Neither does it hold of committed files: one that is edited, listed and
\* put back is served as it was edited.)
TruthServed ==
    \A p \in Procs : Settled(p) /\ db = "ok" =>
        \A f \in Path : rows[f] = work[f] \/ Committed(f)

\* Hashing the untracked files "closes the ... direct-edit gap".  (It does not: those
\* that Git has ceased to track are not on the list, and are not hashed.)
UntrackedServed ==
    \A p \in Procs : Settled(p) /\ db = "ok" =>
        \A f \in Untracked \ late[p] : rows[f] = work[f]

\* read_all_tasks is to "serve collections from a freshness-validated derived cache":
\* no file is missing.  (It does not hold: a database begun by an upsert passes.)
AllServed ==
    \A p \in Procs : Settled(p) /\ db \in {"ok", "partial"} =>
        \A f \in Path : work[f] # Absent => rows[f] # Absent

\* Cursors are not "reusable after mutation": while a cursor is accepted the rows
\* are those its page was listed from, if the revision did not change between
\* the query and the signature.
CursorStable ==
    \A p \in Procs :
        page[p].cursor = "live" /\ ~page[p].torn /\ db = "ok" => rows = page[p].of

\* "A cursor is bound to the exact freshness-validated cache snapshot."  (It does
\* not hold: the revision is read again after the query.)
CursorBound == \A p \in Procs : page[p].cursor = "live" /\ db = "ok" => rows = page[p].of

\* Between two pages of the same rows no task is skipped, and none comes twice.
NoneSkipped ==
    \A p \in Procs :
        page[p].cursor = "live" /\ ~page[p].torn /\ db = "ok" /\ filter[p] = page[p].filter =>
            Rest(p) = Matches(filter[p]) \ {page[p].key.id}
=============================================================================
