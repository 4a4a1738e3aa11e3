------------------------------- MODULE Cutover -------------------------------
(***************************************************************************)
(* kanban/storage.py: the commands that replace a whole board.  convert    *)
(* makes the Git-native board of a legacy one, "rollback immediate" takes  *)
(* the cutover commit back, "rollback post-write" makes a legacy board of  *)
(* a Git-native one, and "compatibility accept" and "lift" end the         *)
(* compatibility window.  One of them runs at a time; mutations, the       *)
(* legacy runtime and people who commit come in between.                   *)
(*                                                                         *)
(* A part of the board has a form and holds so many of the writes that     *)
(* were acknowledged.  Production rules: the board is in a Git repository. *)
(***************************************************************************)
EXTENDS Naturals, Sequences, FiniteSets

CONSTANTS
    FaultKinds, \* what goes wrong: "error", "undo", "interrupt", "kill"
    MaxFaults, MaxCommands, MaxWrites   \* how often, how many commands, how many writes

ASSUME BoundsAssumption == MaxFaults \in Nat /\ MaxCommands \in Nat /\ MaxWrites \in Nat

VARIABLES
    disk,       \* part of .juno_task -> what is there
    where,      \* the legacy NDJSON is in the "tree" of tasks, or "beside" it
    log,        \* commits: what they hold, and what was frozen
    freeze,     \* freeze files
    pc, cmd,    \* the command that runs, or ran last
    stage, backup,  \* .juno-conversion-*: the board to be, and the one that was
    tar,        \* archive of a post-write rollback
    receipt,    \* of the last conversion
    acceptance, \* receipt of compatibility accept
    admitted,   \* has a mutation found no freeze, and not written yet?
    acked, raced,   \* acknowledged writes; was one of them made in spite of a freeze?
    commands, faults    \* counters

board == <<disk, where, log, freeze>>
aside == <<stage, backup, tar>>
papers == <<receipt, acceptance>>
clients == <<admitted, acked, raced>>
vars == <<board, pc, cmd, aside, papers, clients, commands, faults>>

Part == {"tasks", "config", "ledger", "archive", "source"}
Nothing == [form |-> "none", data |-> 0]
Old(n) == [form |-> "old", data |-> n]
New(n) == [form |-> "new", data |-> n]
Bare == [p \in Part |-> Nothing]

\* config.json is in the tasks directory, and the legacy NDJSON may be.
Dir(p) ==
    IF p = "tasks" THEN {"tasks", "config"} \cup (IF where = "tree" THEN {"source"} ELSE {}) ELSE {p}

Moved(to, from, parts) == [p \in Part |-> IF p \in parts THEN from[p] ELSE to[p]]

\* The writes that a board holds.
Held(b) ==
    CASE b["tasks"].form = "new" -> b["tasks"].data
      [] b["tasks"].form = "mixed" -> b["source"].data + b["tasks"].data
      [] OTHER -> b["source"].data

Legacy(b) ==
    /\ {b[p].form : p \in {"tasks", "config", "source"}} = {"old"}
    /\ "new" \notin {b[p].form : p \in Part}
Native(b) ==
    /\ {b[p].form : p \in {"tasks", "ledger", "archive"}} = {"new"}
    /\ b["config"].form \in {"new", "lifted"} /\ b["source"] = Nothing
    /\ b["tasks"].data = b["ledger"].data
Whole(b) == Legacy(b) \/ Native(b)

Tree == log[Len(log)].tree

\* git status: nothing is modified, and no freeze file and no stage lies about.
Clean == disk = Tree /\ freeze = {} /\ stage = Bare /\ backup = Bare

NoPaper == [commit |-> 0, data |-> 0, window |-> 0]
NoCommand ==
    [kind |-> "none", read |-> 0, before |-> Bare, frozen |-> {}, base |-> 0, i |-> 1,
     active |-> {}, end |-> "none", hurt |-> FALSE]

Init ==
    /\ where \in {"tree", "beside"}
    /\ \E prior \in {Nothing, Old(0)} :
          disk = [p \in Part |-> IF p \in {"ledger", "archive"} THEN prior ELSE Old(0)]
    /\ log = << [tree |-> disk, frozen |-> {}] >> /\ freeze = {}
    /\ pc = "idle" /\ cmd = NoCommand
    /\ stage = Bare /\ backup = Bare /\ tar = Bare
    /\ receipt = NoPaper /\ acceptance = NoPaper
    /\ admitted = FALSE /\ acked = 0 /\ raced = FALSE
    /\ commands = 0 /\ faults = 0

Start(kind, step, read) ==
    /\ pc = "idle" /\ commands < MaxCommands
    /\ commands' = commands + 1
    /\ pc' = step
    /\ cmd' = [NoCommand EXCEPT !.kind = kind, !.read = read, !.before = disk, !.frozen = freeze,
                                !.base = Len(log), !.hurt = cmd.hurt]

Goto(step) == pc' = step /\ cmd' = [cmd EXCEPT !.i = 1]
End(how) == pc' = "idle" /\ cmd' = [cmd EXCEPT !.end = how]

Commit(tree) == log' = Append(log, [tree |-> tree, frozen |-> freeze])

(***************************************************************************)
(* convert_legacy.                                                         *)
(***************************************************************************)

\* Mutant of Committed: any state will do.
CommittedOrNot == TRUE
Committed == disk = Tree

\* Refuse uncommitted changes, then read all rows.
Convert ==
    /\ disk["source"].form = "old"
    /\ Committed
    /\ Start("convert", "freeze", disk["source"].data)
    /\ UNCHANGED <<board, aside, papers, clients, faults>>

WriteFreeze ==
    /\ pc = "freeze"
    /\ IF "conversion" \in freeze
       THEN End("refused") /\ UNCHANGED freeze
       ELSE freeze' = freeze \cup {"conversion"} /\ Goto("preflight")
    /\ UNCHANGED <<disk, where, log, aside, papers, clients, commands, faults>>

\* The source and HEAD are those of the freeze, and there is no Markdown task.  Each
\* conversion has a stage of its own; people may remove what an earlier one has left.
Preflight ==
    /\ pc = "preflight"
    /\ IF /\ disk["source"].data = cmd.read /\ Len(log) = cmd.base
          /\ disk["tasks"].form \notin {"new", "mixed"}
       THEN Goto("prepare") /\ UNCHANGED freeze /\ stage' = Bare /\ backup' = Bare
       ELSE End("refused") /\ freeze' = freeze \ {"conversion"} /\ UNCHANGED <<stage, backup>>
    /\ UNCHANGED <<disk, where, log, tar, papers, clients, commands, faults>>

StagedConfig == [form |-> "staged", data |-> cmd.base]

\* A stage with a configuration is made, under no try clause: whatever stops the
\* command here leaves the freeze, and perhaps the stage.
Prepare ==
    /\ pc = "prepare"
    /\ \/ stage = Bare /\ stage' = [Bare EXCEPT !["config"] = StagedConfig] /\ UNCHANGED <<pc, cmd>>
       \/ stage # Bare /\ Goto("stage") /\ UNCHANGED stage
    /\ UNCHANGED <<board, backup, tar, papers, clients, commands, faults>>

Stage ==
    /\ pc = "stage"
    /\ stage' = [p \in Part |->
          CASE p = "source" -> Nothing
            [] p = "config" -> StagedConfig
            [] OTHER -> New(cmd.read)]
    /\ Goto("activate")
    /\ UNCHANGED <<board, backup, tar, papers, clients, commands, faults>>

\* The activation, replacement by replacement.
Activation ==
    << <<"save", "tasks">>, <<"save", "ledger">>, <<"save", "archive">>,
       <<"put", "tasks">>, <<"put", "ledger">>, <<"put", "archive">>,
       <<"configure", "config">>, <<"dispose", "source">> >>

Activating(move) == pc = "activate" /\ cmd.i <= Len(Activation) /\ Activation[cmd.i][1] = move
This == Dir(Activation[cmd.i][2])
Advance == cmd' = [cmd EXCEPT !.i = @ + 1] /\ UNCHANGED pc

\* A directory is moved to the backups; so is a source beside the tasks.
Save ==
    /\ Activating("save") \/ (Activating("dispose") /\ where = "beside")
    /\ backup' = Moved(backup, disk, This) /\ disk' = Moved(disk, Bare, This)
    /\ Advance
    /\ UNCHANGED <<where, log, freeze, stage, tar, papers, clients, commands, faults>>

\* A staged directory is moved to its place, which must be empty.
Put ==
    /\ Activating("put")
    /\ disk[Activation[cmd.i][2]] = Nothing
    /\ disk' = Moved(disk, stage, This) /\ stage' = Moved(stage, Bare, This)
    /\ cmd' = [cmd EXCEPT !.i = @ + 1, !.active = @ \cup {Activation[cmd.i][2]}] /\ UNCHANGED pc
    /\ UNCHANGED <<where, log, freeze, backup, tar, papers, clients, commands, faults>>

PutFails ==
    /\ Activating("put")
    /\ disk[Activation[cmd.i][2]] # Nothing
    /\ Goto("undo")
    /\ UNCHANGED <<board, aside, papers, clients, commands, faults>>

Configure ==
    /\ Activating("configure")
    /\ disk' = [disk EXCEPT !["config"].form = "new"]
    /\ Advance
    /\ UNCHANGED <<where, log, freeze, aside, papers, clients, commands, faults>>

\* A source in the tasks directory is in its backup.
Dispose ==
    /\ Activating("dispose") /\ where # "beside"
    /\ Advance
    /\ UNCHANGED <<board, aside, papers, clients, commands, faults>>

\* Doctor, cutover.json, and the freeze ends ...
Thaw ==
    /\ pc = "activate" /\ cmd.i > Len(Activation)
    /\ freeze' = freeze \ {"conversion"}
    /\ Goto("commit")
    /\ UNCHANGED <<disk, where, log, aside, papers, clients, commands, faults>>

\* ... before the commit.
CutoverCommit ==
    /\ pc = "commit"
    /\ Commit(disk)
    /\ Goto("report")
    /\ UNCHANGED <<disk, where, freeze, aside, papers, clients, commands, faults>>

Report ==
    /\ pc = "report"
    /\ receipt' = [commit |-> Len(log), data |-> cmd.read, window |-> cmd.base]
    /\ Goto("finish")
    /\ UNCHANGED <<board, aside, acceptance, clients, commands, faults>>

Finish ==
    /\ pc = "finish"
    /\ stage' = Bare /\ backup' = Bare /\ freeze' = freeze \ {"conversion"}
    /\ End("ok")
    /\ UNCHANGED <<disk, where, log, tar, papers, clients, commands, faults>>

\* The except clause: what was activated is removed, what was saved is put back.
\* A source in the tasks directory comes back with it.
Undoing ==
    <<"archive", "ledger", "tasks">> \o (IF where = "beside" THEN <<"source">> ELSE <<>>)

\* Mutant of Restored: a part that was not there before stays.
RestoredIfSaved(p) == IF backup[p] # Nothing THEN Moved(disk, backup, Dir(p)) ELSE disk
Restored(p) ==
    IF backup[p] # Nothing THEN Moved(disk, backup, Dir(p))
    ELSE IF p \in cmd.active THEN Moved(disk, Bare, Dir(p)) ELSE disk

Undo ==
    /\ pc = "undo" /\ cmd.i <= Len(Undoing)
    /\ LET p == Undoing[cmd.i] IN
          \/ /\ p \in cmd.active \/ backup[p] = Nothing \/ disk[p] = Nothing
             /\ disk' = Restored(p)
             /\ Advance
          \/ \* something is in the way
             /\ p \notin cmd.active /\ backup[p] # Nothing /\ disk[p] # Nothing
             /\ pc' = "finally" /\ cmd' = [cmd EXCEPT !.end = "broken", !.hurt = TRUE]
             /\ UNCHANGED disk
    /\ UNCHANGED <<where, log, freeze, aside, papers, clients, commands, faults>>

Undone ==
    /\ pc = "undo" /\ cmd.i > Len(Undoing)
    /\ pc' = "finally" /\ cmd' = [cmd EXCEPT !.end = "error"]
    /\ UNCHANGED <<board, aside, papers, clients, commands, faults>>

\* The finally clause: stage and backups are removed, whatever became of them.
Finally ==
    /\ pc = "finally"
    /\ stage' = Bare /\ backup' = Bare /\ freeze' = freeze \ {"conversion"}
    /\ pc' = "idle" /\ UNCHANGED cmd
    /\ UNCHANGED <<disk, where, log, tar, papers, clients, commands, faults>>

(***************************************************************************)
(* The compatibility window.                                               *)
(***************************************************************************)

\* generate_acceptance_receipt, when the seven days are over.
Accept ==
    /\ pc = "idle" /\ disk["config"].form = "new"
    /\ acceptance' = [commit |-> Len(log), data |-> Held(disk), window |-> disk["config"].data]
    /\ UNCHANGED <<board, pc, cmd, aside, receipt, clients, commands, faults>>

\* Mutant of Accepted: the state is not compared.
AcceptedHead ==
    acceptance.commit = Len(log) /\ acceptance.window = disk["config"].data

Accepted ==
    /\ acceptance.commit = Len(log) /\ acceptance.window = disk["config"].data
    /\ acceptance.data = Held(disk)

Lift ==
    /\ disk["config"].form = "new" /\ Accepted
    /\ Start("lift", "lift", Held(disk))
    /\ UNCHANGED <<board, aside, papers, clients, faults>>

SaveLifted ==
    /\ pc = "lift"
    /\ disk' = [disk EXCEPT !["config"].form = "lifted"]
    /\ End("ok")
    /\ UNCHANGED <<where, log, freeze, aside, papers, clients, commands, faults>>

(***************************************************************************)
(* immediate_rollback.                                                     *)
(***************************************************************************)

RollBackNow ==
    /\ receipt # NoPaper /\ receipt.commit = Len(log) /\ Clean
    /\ Start("immediate", "revert", receipt.data)
    /\ UNCHANGED <<board, aside, papers, clients, faults>>

\* git revert refuses to overwrite a file that was modified, but not one that
\* was created.
Revert ==
    /\ pc = "revert"
    /\ LET before == log[receipt.commit - 1].tree IN
          \/ /\ disk = Tree
             /\ disk' = before /\ Commit(before)
             /\ Goto("verify")
          \/ /\ disk # Tree
             /\ disk' = [before EXCEPT !["tasks"] = [form |-> "mixed", data |-> Held(disk) - receipt.data]]
             /\ Commit(before)
             /\ Goto("verify")
          \/ /\ disk # Tree
             /\ End("refused")
             /\ UNCHANGED <<disk, log>>
    /\ UNCHANGED <<where, freeze, aside, papers, clients, commands, faults>>

Verify ==
    /\ pc = "verify"
    /\ End(IF disk["source"] # Nothing /\ disk["tasks"].form = "old" THEN "ok" ELSE "error")
    /\ UNCHANGED <<board, aside, papers, clients, commands, faults>>

(***************************************************************************)
(* execute_post_write_rollback.                                            *)
(***************************************************************************)

RollBack ==
    /\ Clean /\ Native(disk)
    /\ Start("rollback", "pw-freeze", Held(disk))
    /\ UNCHANGED <<board, aside, papers, clients, faults>>

RollbackFreeze ==
    /\ pc = "pw-freeze"
    /\ freeze' = freeze \cup {"rollback"}
    /\ Goto("export")
    /\ UNCHANGED <<disk, where, log, aside, papers, clients, commands, faults>>

SameState == Held(disk) = cmd.read

\* The export must be the state that was read before the freeze.
Export ==
    /\ pc = "export"
    /\ IF SameState THEN Goto("tar") ELSE End("error")
    /\ UNCHANGED <<board, aside, papers, clients, commands, faults>>

\* Mutant of Archive: with the archive the freeze ends.
ArchiveThawed ==
    /\ pc = "tar"
    /\ tar' = Moved(disk, Bare, {"source"}) /\ freeze' = freeze \ {"rollback"}
    /\ Goto("clear")
    /\ UNCHANGED <<disk, where, log, stage, backup, papers, clients, commands, faults>>

\* The archive, then the legacy runtime and its parity commands.
Archive ==
    /\ pc = "tar"
    /\ tar' = Moved(disk, Bare, {"source"})
    /\ Goto("clear")
    /\ UNCHANGED <<board, stage, backup, papers, clients, commands, faults>>

Clearing == <<"tasks", "ledger", "archive">>

Clear ==
    /\ pc = "clear"
    /\ disk' = Moved(disk, Bare, {Clearing[cmd.i]} \cup (IF cmd.i = 1 THEN {"config"} ELSE {}))
    /\ IF cmd.i < Len(Clearing) THEN Advance ELSE Goto("fill")
    /\ UNCHANGED <<where, log, freeze, aside, papers, clients, commands, faults>>

Fill ==
    /\ pc = "fill"
    /\ disk' = [disk EXCEPT !["source"] = Old(cmd.read), !["config"] = Old(0),
                            !["tasks"] = IF @ = Nothing THEN Old(0) ELSE @]
    /\ where' = "tree"
    /\ Goto("probe")
    /\ UNCHANGED <<log, freeze, aside, papers, clients, commands, faults>>

\* Mutant of Probe: the freeze ends after the commit.
ProbeFrozen ==
    /\ pc = "probe"
    /\ Goto("pw-commit")
    /\ UNCHANGED <<board, aside, papers, clients, commands, faults>>

Probe ==
    /\ pc = "probe"
    /\ freeze' = freeze \ {"rollback"}
    /\ Goto("pw-commit")
    /\ UNCHANGED <<disk, where, log, aside, papers, clients, commands, faults>>

RollbackCommit ==
    /\ pc = "pw-commit"
    /\ Commit(disk)
    /\ Goto("pw-report")
    /\ UNCHANGED <<disk, where, freeze, aside, papers, clients, commands, faults>>

RollbackReport ==
    /\ pc = "pw-report"
    /\ End("ok")
    /\ UNCHANGED <<board, aside, papers, clients, commands, faults>>

\* The except clause: all is removed, then the archive is unpacked.
Unpack ==
    /\ pc = "unpack"
    /\ \/ cmd.i = 1 /\ disk' = Bare /\ Advance
       \/ cmd.i > 1 /\ disk' = Moved(disk, tar, Dir(Clearing[cmd.i - 1]))
          /\ IF cmd.i <= Len(Clearing) THEN Advance ELSE End("error")
    /\ UNCHANGED <<where, log, freeze, aside, papers, clients, commands, faults>>

(***************************************************************************)
(* What goes wrong.                                                        *)
(***************************************************************************)

Trying == {"stage", "activate", "commit", "report", "finish"}
Guarded == {"probe", "pw-commit"}
Exposed == {"clear", "fill"}    \* a rollback activates before its try clause
Undoes == {"undo", "unpack"}
Plain ==
    {"pw-freeze", "export", "tar", "freeze", "prepare", "lift", "revert", "verify", "pw-report"}

Fails(kind) == kind \in FaultKinds /\ faults < MaxFaults /\ faults' = faults + 1

\* An exception; a full disk or a refused commit, say.
Error ==
    /\ \/ Fails("error") /\ pc \in Trying /\ Goto("undo") /\ UNCHANGED freeze
       \/ Fails("error") /\ pc = "preflight" /\ End("error") /\ freeze' = freeze \ {"conversion"}
       \/ Fails("error") /\ pc \in Guarded /\ Goto("unpack") /\ UNCHANGED freeze
       \/ Fails("error") /\ pc \in Plain \cup Exposed /\ End("error") /\ UNCHANGED freeze
    /\ UNCHANGED <<disk, where, log, aside, papers, clients, commands>>

\* rmtree has removed part of the backups when it fails.
FinishFails ==
    /\ pc = "finish" /\ Fails("error")
    /\ backup' = Moved(backup, Bare, Dir("tasks"))
    /\ pc' = "undo" /\ cmd' = [cmd EXCEPT !.i = 1, !.hurt = TRUE]
    /\ UNCHANGED <<board, stage, tar, papers, clients, commands>>

UndoError ==
    /\ Fails("undo") /\ pc \in Undoes
    /\ pc' = (IF pc = "undo" THEN "finally" ELSE "idle")
    /\ cmd' = [cmd EXCEPT !.end = "broken", !.hurt = TRUE]
    /\ UNCHANGED <<board, aside, papers, clients, commands>>

\* A KeyboardInterrupt is no Exception: of the clauses only finally is run.
Interrupt ==
    /\ Fails("interrupt") /\ pc # "idle"
    /\ pc' = (IF pc \in Trying \cup {"undo"} THEN "finally" ELSE "idle")
    /\ cmd' = [cmd EXCEPT !.end = "interrupted", !.hurt = @ \/ pc \in Trying \cup Undoes \cup {"finally"}]
    /\ UNCHANGED <<board, aside, papers, clients, commands>>

Kill ==
    /\ Fails("kill") /\ pc # "idle"
    /\ pc' = "idle"
    /\ cmd' = [cmd EXCEPT !.end = "killed", !.hurt = @ \/ (pc \in Undoes /\ freeze = {})]
    /\ UNCHANGED <<board, aside, papers, clients, commands>>

(***************************************************************************)
(* Everybody else.                                                         *)
(***************************************************************************)

\* A mutation looks for a freeze ...
Admit ==
    /\ freeze = {} /\ ~admitted /\ acked < MaxWrites
    /\ admitted' = TRUE
    /\ UNCHANGED <<board, pc, cmd, aside, papers, acked, raced, commands, faults>>

\* Here a command that is not frozen any more, or not at all, goes on working.
Late == {"commit", "report", "finish", "undo", "finally", "pw-commit", "pw-report", "unpack", "lift"}

\* What one more write makes of a board: native tasks among legacy ones, too.
Written(b) ==
    IF b["tasks"].form = "new"
    THEN [b EXCEPT !["tasks"].data = @ + 1, !["ledger"].data = @ + 1]
    ELSE [b EXCEPT !["tasks"] = [form |-> "mixed",
              data |-> 1 + (IF b["tasks"].form = "mixed" THEN b["tasks"].data ELSE 0)]]

\* ... and writes.
Write ==
    /\ admitted /\ admitted' = FALSE
    /\ disk' = Written(disk) /\ acked' = acked + 1
    /\ raced' = (raced \/ freeze # {} \/ pc \in Late \/ cmd.hurt)
    /\ cmd' = (IF pc = "idle" THEN cmd ELSE [cmd EXCEPT !.before = Written(@)])
    /\ UNCHANGED <<where, log, freeze, pc, aside, papers, commands, faults>>

GiveUp ==
    /\ admitted /\ admitted' = FALSE
    /\ UNCHANGED <<board, pc, cmd, aside, papers, acked, raced, commands, faults>>

\* The legacy runtime, which knows no freeze, is not used during a command.
LegacyWrite ==
    /\ pc = "idle" /\ disk["source"].form = "old" /\ disk["tasks"].form \in {"old", "mixed"}
    /\ acked < MaxWrites
    /\ disk' = [disk EXCEPT !["source"].data = @ + 1] /\ acked' = acked + 1
    /\ UNCHANGED <<where, log, freeze, pc, cmd, aside, papers, admitted, raced, commands, faults>>

PeopleCommit ==
    /\ pc = "idle" /\ disk # Tree
    /\ Whole(disk) /\ freeze = {}
    /\ Commit(disk)
    /\ UNCHANGED <<disk, where, freeze, pc, cmd, aside, papers, clients, commands, faults>>

Conversion ==
    \/ Convert \/ WriteFreeze \/ Preflight \/ Prepare \/ Stage \/ Save \/ Put \/ PutFails \/ Configure
    \/ Dispose \/ Thaw \/ CutoverCommit \/ Report \/ Finish \/ Undo \/ Undone \/ Finally

Rollback ==
    \/ RollBackNow \/ Revert \/ Verify
    \/ RollBack \/ RollbackFreeze \/ Export \/ Archive \/ Clear \/ Fill \/ Probe
    \/ RollbackCommit \/ RollbackReport \/ Unpack

Next ==
    \/ Conversion \/ Rollback
    \/ Accept \/ Lift \/ SaveLifted
    \/ Error \/ FinishFails \/ UndoError \/ Interrupt \/ Kill
    \/ Admit \/ Write \/ GiveUp \/ LegacyWrite \/ PeopleCommit

Spec == Init /\ [][Next]_vars

(***************************************************************************)
(* Properties.                                                             *)
(***************************************************************************)

TypeOK ==
    /\ {disk, stage, backup, tar} \subseteq
          [Part -> [form : {"none", "old", "staged", "new", "lifted", "mixed"}, data : Nat]]
    /\ where \in {"tree", "beside"} /\ freeze \subseteq {"conversion", "rollback"}
    /\ Tree \in [Part -> [form : {"none", "old", "new", "lifted", "mixed"}, data : Nat]]
    /\ stage["source"] = Nothing /\ tar["source"] = Nothing
    /\ receipt.commit \in 0..Len(log) /\ acceptance.commit \in 0..Len(log)
    /\ cmd.base \in 0..Len(log) /\ cmd.i \in 1..Len(Activation) + 1
    /\ acked \in 0..MaxWrites + 1 /\ commands \in 0..MaxCommands /\ faults \in 0..MaxFaults

Ends(how) == pc # "idle" /\ pc' = "idle" /\ cmd'.end = how

\* "Deterministically restore every canonical asset regardless of fault point":
\* a command that fails before its commit leaves the board as it was, with all
\* that was written in the meantime, unless it is a rollback that fails while it
\* activates; and a failed conversion no freeze, unless it fails to prepare its stage.
FailureRestores ==
    [][Ends("error") /\ Len(log') = cmd.base /\ ~raced /\ pc \notin Exposed =>
          /\ disk' = cmd.before
          /\ cmd.kind = "convert" /\ pc # "prepare" => freeze' = cmd.frozen]_vars

\* "Asset and target checks run after the machine freeze is persisted, but before
\* activation's broader rollback scope begins.  A refused preflight must not strand a
\* board-wide mutation freeze."  (It does not hold of what comes between the checks
\* and that scope: an error while the stage is prepared strands the freeze.)
FreezeNotStranded ==
    [][Ends("error") /\ cmd.kind = "convert" /\ "conversion" \notin cmd.frozen
          => "conversion" \notin freeze']_vars

\* "Every post-write rollback fault is frozen and preserves current truth."  (It
\* does not hold: while a rollback replaces the parts of the board, a fault leaves
\* some replaced.)
RollbackFaultPreserves ==
    [][Ends("error") /\ cmd.kind = "rollback" /\ pc # "pw-freeze" /\ Len(log') = cmd.base /\ ~raced
          /\ pc # "export"
          => disk' = cmd.before /\ "rollback" \in freeze']_vars

\* A command that reports success has done it: the board is converted, or
\* legacy again, with every write that was acknowledged, and committed; an
\* immediate rollback takes no later mutation back; a window is lifted in the
\* state that was accepted.
ReportsTrue ==
    [][Ends("ok") /\ ~raced =>
          /\ cmd.kind \in {"convert", "rollback", "immediate"} =>
                Held(disk') = acked /\ disk' = Tree' /\ {stage', backup'} = {Bare}
          /\ cmd.kind = "convert" => Native(disk')
          /\ cmd.kind \in {"rollback", "immediate"} => Legacy(disk')
          /\ cmd.kind = "lift" => acceptance.data = Held(disk')]_vars

\* What is committed is one board, legacy or native, and no freeze.
HeadWhole == ~raced => \A i \in 1..Len(log) : Whole(log[i].tree) /\ log[i].frozen = {}

\* No acknowledged write is ever lost: it is on the board, in its backup, in HEAD
\* or in the archive of a rollback.
Kept ==
    LET restored == [p \in Part |-> IF backup[p] # Nothing THEN backup[p] ELSE disk[p]]
    IN ~raced => acked \in {Held(disk), Held(restored), Held(tar), Held(Tree)}

\* A board that a command has left half way is frozen, unless the clauses that
\* clean up were interrupted or failed themselves.
HalfFrozen ==
    pc = "idle" /\ ~Whole(disk) /\ disk["tasks"].form # "mixed" => freeze # {} \/ cmd.hurt \/ raced
=============================================================================
