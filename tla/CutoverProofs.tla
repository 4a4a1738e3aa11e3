---------------------------- MODULE CutoverProofs ----------------------------
(***************************************************************************)
(* What the commands that replace a whole board promise, for every number  *)
(* of commands, writes and faults.                                         *)
(*                                                                         *)
(* The inductive invariant holds as long as no mutation has raced.  Truth  *)
(* is its center: a board that can be read holds every acknowledged write, *)
(* and if none can be read HEAD does.  What a command has done so far, and *)
(* what it can still take back, is said step by step (AtFreeze and so on). *)
(***************************************************************************)
EXTENDS Cutover, TLAPS

Content == [form : {"none", "old", "staged", "new", "lifted", "mixed"}, data : Nat]
Board == [Part -> Content]
Freeze == {"conversion", "rollback"}
Snapshot == [tree : Board, frozen : SUBSET Freeze]
Command ==
    [kind : {"none", "convert", "lift", "immediate", "rollback"}, read : Nat, before : Board,
     frozen : SUBSET Freeze, base : Nat, i : Nat, active : SUBSET {"tasks", "ledger", "archive"},
     end : {"none", "ok", "error", "refused", "broken", "interrupted", "killed"}, hurt : BOOLEAN]
Paper == [commit : Nat, data : Nat, window : Nat]

Typed ==
    /\ disk \in Board /\ stage \in Board /\ backup \in Board /\ tar \in Board
    /\ where \in {"tree", "beside"} /\ freeze \in SUBSET Freeze
    /\ log \in Seq(Snapshot) /\ Len(log) >= 1
    /\ cmd \in Command /\ acked \in Nat
    /\ receipt \in Paper /\ acceptance \in Paper

\* A board that a runtime can read.
Mixed(b) == b["tasks"].form = "mixed"
Readable(b) ==
    \/ b["tasks"].form = "new"
    \/ b["tasks"].form \in {"old", "mixed"} /\ b["source"].form = "old"
Sound(b) == Whole(b) \/ Mixed(b)
Same(a, b) == \A p \in Part : a[p] = b[p]

Truth ==
    /\ Readable(disk) => Held(disk) = acked
    /\ Mixed(disk) => disk["source"].form = "old"
    /\ Readable(disk) \/ Held(Tree) = acked

Heads == \A i \in 1..Len(log) : Whole(log[i].tree) /\ log[i].frozen = {}

\* A receipt names the commit of a conversion, and the legacy board is in its parent.
Receipted ==
    receipt # NoPaper =>
        /\ receipt.commit \in 2..Len(log) /\ receipt.data <= acked
        /\ Legacy(log[receipt.commit - 1].tree)
        /\ log[receipt.commit - 1].tree["source"].data = receipt.data
        /\ Held(log[receipt.commit].tree) = receipt.data

FrozenNative == "rollback" \in freeze => Native(Tree)

Tidy == stage = Bare /\ backup = Bare

(***************************************************************************)
(* Between commands, and before each step of a conversion.                 *)
(***************************************************************************)

AtRest == freeze = {} /\ ~cmd.hurt => Sound(disk)

Begun ==
    /\ cmd.kind = "convert" /\ cmd.base = Len(log) /\ cmd.active = {}
    /\ disk = cmd.before /\ Legacy(Tree)
    /\ (disk = Tree /\ disk["source"].data = cmd.read) \/ Mixed(disk)

AtFreeze == Begun /\ freeze = cmd.frozen
AtPreflight == Begun /\ freeze = {"conversion"} /\ cmd.frozen = {}

\* From now on nobody else writes.
Converts ==
    /\ cmd.kind = "convert" /\ cmd.frozen = {} /\ cmd.base \in 1..Len(log)
    /\ freeze \subseteq {"conversion"}
    /\ Legacy(cmd.before) /\ cmd.before["source"].data = cmd.read
    /\ cmd.read = acked /\ Held(Tree) = acked

NotYet == Tree = cmd.before /\ cmd.base = Len(log)

AtStage ==
    /\ Converts /\ NotYet /\ freeze = {"conversion"}
    /\ disk = cmd.before /\ cmd.active = {} /\ backup = Bare

\* A part is replaced in two moves.
Staged(p) ==
    CASE p = "source" -> Nothing
      [] p = "config" -> [form |-> "staged", data |-> cmd.base]
      [] OTHER -> New(cmd.read)
Original(p) == disk[p] = cmd.before[p] /\ backup[p] = Nothing /\ stage[p] = Staged(p)
Saved(p) == disk[p] = Nothing /\ backup[p] = cmd.before[p] /\ stage[p] = Staged(p)
Placed(p) == disk[p] = Staged(p) /\ backup[p] = cmd.before[p]
Walk(p, saved, placed) ==
    /\ cmd.i <= saved => Original(p)
    /\ cmd.i > saved /\ cmd.i <= placed => Saved(p)
    /\ cmd.i > placed => Placed(p)
Configured ==
    /\ disk["config"] = [form |-> "new", data |-> cmd.base]
    /\ backup["config"] = cmd.before["config"]

AtActivate ==
    /\ Converts /\ NotYet /\ freeze = {"conversion"}
    /\ cmd.i \in 1..9 /\ stage["source"] = Nothing
    /\ Walk("tasks", 1, 4) /\ Walk("ledger", 2, 5) /\ Walk("archive", 3, 6)
    /\ cmd.i <= 7 => Walk("config", 1, 4)
    /\ cmd.i > 7 => Configured
    /\ IF where = "tree" THEN Walk("source", 1, 1) ELSE Walk("source", 8, 8)
    /\ "tasks" \in cmd.active <=> cmd.i > 4
    /\ "ledger" \in cmd.active <=> cmd.i > 5
    /\ "archive" \in cmd.active <=> cmd.i > 6

Converted ==
    /\ Native(disk) /\ disk["tasks"] = New(cmd.read)
    /\ cmd.active = {"tasks", "ledger", "archive"} /\ Same(backup, cmd.before)

AtCommit == Converts /\ Converted /\ NotYet /\ freeze = {}
AtReport ==
    /\ Converts /\ Converted /\ freeze = {} /\ disk = Tree
    /\ Len(log) = cmd.base + 1 /\ log[cmd.base].tree = cmd.before

\* A part follows the one it is moved with, and this one is put back at its turn.
Lead(p) == IF p = "config" \/ (p = "source" /\ where = "tree") THEN "tasks" ELSE p
Turn(p) == CASE p = "archive" -> 1 [] p = "ledger" -> 2 [] p = "source" -> 4 [] OTHER -> 3
PutBack(p) == cmd.i > Turn(Lead(p))
Undoable(p) ==
    /\ \/ backup[p] = Nothing /\ disk[p] = cmd.before[p] /\ Lead(p) \notin cmd.active
       \/ /\ backup[p] = cmd.before[p]
          /\ IF PutBack(p) THEN disk[p] = cmd.before[p]
             ELSE Lead(p) \in cmd.active \/ disk[p] = Nothing
    /\ backup[p] = Nothing <=> backup[Lead(p)] = Nothing
AllUndoable == \A p \in Part : Undoable(p)

AtUndo ==
    /\ Converts /\ cmd.i \in 1..5
    /\ disk["tasks"] \in {cmd.before["tasks"], Nothing, New(cmd.read)}
    /\ disk["source"] \in {cmd.before["source"], Nothing}
    /\ \A p \in Part : backup[p] \in {cmd.before[p], Nothing}
    /\ AllUndoable \/ (cmd.hurt /\ Len(log) > cmd.base)

AtFinally ==
    /\ Converts /\ cmd.end \in {"error", "broken", "interrupted"}
    /\ \/ disk = cmd.before
       \/ cmd.hurt /\ (cmd.end = "error" => Len(log) > cmd.base)

(***************************************************************************)
(* Before each step of the other commands.                                 *)
(***************************************************************************)

AtLift ==
    /\ cmd.kind = "lift" /\ disk = cmd.before /\ AtRest
    /\ disk["config"].form = "new" /\ acceptance.data = Held(disk)

AtRevert ==
    /\ cmd.kind = "immediate" /\ Tidy /\ freeze = {} /\ disk = cmd.before /\ Sound(disk)
    /\ receipt # NoPaper /\ receipt.commit = Len(log) /\ cmd.base = Len(log)

AtVerify ==
    /\ cmd.kind = "immediate" /\ Tidy /\ freeze = {} /\ Len(log) > cmd.base
    /\ (disk = Tree /\ Legacy(disk)) \/ Mixed(disk)

Rolls ==
    /\ cmd.kind = "rollback" /\ Tidy /\ cmd.base = Len(log)
    /\ Native(Tree) /\ Held(Tree) = cmd.read /\ Native(cmd.before)

AtRollbackFreeze == Rolls /\ freeze = {} /\ disk = cmd.before
AtExport == Rolls /\ freeze = {"rollback"} /\ disk = cmd.before

Exported == Rolls /\ Held(cmd.before) = cmd.read /\ acked = cmd.read
AtArchive == Exported /\ freeze = {"rollback"} /\ disk = cmd.before

Archived == Exported /\ Same(tar, cmd.before)
AtClear ==
    /\ Archived /\ freeze = {"rollback"} /\ cmd.i \in 1..3 /\ disk["source"] = Nothing
    /\ cmd.i > 1 => disk["tasks"] = Nothing /\ disk["config"] = Nothing
    /\ cmd.i > 2 => disk["ledger"] = Nothing
AtFill == Archived /\ freeze = {"rollback"} /\ Same(disk, Bare)

Back == where = "tree" /\ Legacy(disk) /\ disk["source"].data = cmd.read
AtProbe == Archived /\ freeze = {"rollback"} /\ Back
AtRollbackCommit == Archived /\ freeze = {} /\ Back
AtRollbackReport ==
    /\ cmd.kind = "rollback" /\ Tidy /\ freeze = {} /\ Len(log) > cmd.base
    /\ disk = Tree /\ Legacy(disk)

AtUnpack ==
    /\ Archived /\ where = "tree" /\ freeze \subseteq {"rollback"} /\ cmd.i \in 1..4
    /\ cmd.i > 1 => disk["source"] = Nothing
    /\ cmd.i > 2 => disk["tasks"] = cmd.before["tasks"] /\ disk["config"] = cmd.before["config"]
    /\ cmd.i > 3 => disk["ledger"] = cmd.before["ledger"]

(***************************************************************************)
(* The inductive invariant.                                                *)
(***************************************************************************)

Lasting == Truth /\ Heads /\ Receipted /\ FrozenNative

Working ==
    \/ pc = "idle" /\ AtRest
    \/ pc = "freeze" /\ AtFreeze
    \/ pc = "preflight" /\ AtPreflight
    \/ pc \in {"prepare", "stage"} /\ AtStage
    \/ pc = "activate" /\ AtActivate
    \/ pc = "commit" /\ AtCommit
    \/ pc \in {"report", "finish"} /\ AtReport
    \/ pc = "undo" /\ AtUndo
    \/ pc = "finally" /\ AtFinally
    \/ pc = "lift" /\ AtLift
    \/ pc = "revert" /\ AtRevert
    \/ pc = "verify" /\ AtVerify
    \/ pc = "pw-freeze" /\ AtRollbackFreeze
    \/ pc = "export" /\ AtExport
    \/ pc = "tar" /\ AtArchive
    \/ pc = "clear" /\ AtClear
    \/ pc = "fill" /\ AtFill
    \/ pc = "probe" /\ AtProbe
    \/ pc = "pw-commit" /\ AtRollbackCommit
    \/ pc = "pw-report" /\ AtRollbackReport
    \/ pc = "unpack" /\ AtUnpack

Good == Typed /\ Lasting /\ Working
IInv == raced \/ Good

(***************************************************************************)
(* Boards, commits and commands.                                           *)
(***************************************************************************)

LEMMA BoardEqual ==
  ASSUME NEW a \in Board, NEW b \in Board, Same(a, b)
  PROVE  a = b
  BY DEF Board, Same

LEMMA BareBoard == Bare \in Board /\ \A p \in Part : Bare[p] = Nothing
  BY DEF Bare, Board, Content, Nothing

LEMMA MovedParts ==
  ASSUME NEW to \in Board, NEW from \in Board, NEW parts
  PROVE  /\ Moved(to, from, parts) \in Board
         /\ \A p \in Part : Moved(to, from, parts)[p] = IF p \in parts THEN from[p] ELSE to[p]
  BY DEF Moved, Board

LEMMA TreeBoard ==
  ASSUME Typed
  PROVE  /\ Tree \in Board /\ Len(log) \in 1..Len(log)
         /\ \A i \in 1..Len(log) : log[i].tree \in Board /\ log[i].frozen \in SUBSET Freeze
<1>1. \A i \in 1..Len(log) : log[i] \in Snapshot
  BY DEF Typed
<1>2. Len(log) \in 1..Len(log)
  BY DEF Typed
<1> QED
  BY <1>1, <1>2 DEF Tree, Snapshot

LEMMA Commits ==
  ASSUME Typed, NEW t \in Board, Commit(t)
  PROVE  /\ log' \in Seq(Snapshot) /\ Len(log') = Len(log) + 1
         /\ Tree' = t
         /\ log'[Len(log) + 1].tree = t /\ log'[Len(log) + 1].frozen = freeze
         /\ \A i \in 1..Len(log) : log'[i] = log[i]
<1> DEFINE s == [tree |-> t, frozen |-> freeze]
<1>1. s \in Snapshot
  BY DEF Typed, Snapshot
<1>2. log' = Append(log, s)
  BY DEF Commit
<1> HIDE DEF s
<1>3. /\ log' \in Seq(Snapshot) /\ Len(log') = Len(log) + 1 /\ log'[Len(log) + 1] = s
      /\ \A i \in 1..Len(log) : log'[i] = log[i]
  BY <1>1, <1>2 DEF Typed
<1> QED
  BY <1>3 DEF Tree, s

LEMMA GoesTo ==
  ASSUME cmd \in Command, NEW step, Goto(step)
  PROVE  /\ pc' = step /\ cmd' \in Command /\ cmd'.i = 1
         /\ cmd'.kind = cmd.kind /\ cmd'.read = cmd.read /\ cmd'.before = cmd.before
         /\ cmd'.frozen = cmd.frozen /\ cmd'.base = cmd.base /\ cmd'.active = cmd.active
         /\ cmd'.end = cmd.end /\ cmd'.hurt = cmd.hurt
  BY DEF Goto, Command

LEMMA Ended ==
  ASSUME cmd \in Command, NEW how \in {"ok", "error", "refused", "killed"}, End(how)
  PROVE  /\ pc' = "idle" /\ cmd' \in Command /\ cmd'.end = how
         /\ cmd'.kind = cmd.kind /\ cmd'.read = cmd.read /\ cmd'.before = cmd.before
         /\ cmd'.frozen = cmd.frozen /\ cmd'.base = cmd.base /\ cmd'.hurt = cmd.hurt
  BY DEF End, Command

LEMMA Advances ==
  ASSUME cmd \in Command, Advance
  PROVE  /\ pc' = pc /\ cmd' \in Command /\ cmd'.i = cmd.i + 1
         /\ cmd'.kind = cmd.kind /\ cmd'.read = cmd.read /\ cmd'.before = cmd.before
         /\ cmd'.frozen = cmd.frozen /\ cmd'.base = cmd.base /\ cmd'.active = cmd.active
         /\ cmd'.end = cmd.end /\ cmd'.hurt = cmd.hurt
  BY DEF Advance, Command

\* What a replacement changes of the command, ...
LEMMA NewActive ==
  ASSUME NEW c \in Command, NEW x, NEW y
  PROVE  [c EXCEPT !.i = x, !.active = y] =
            [kind |-> c.kind, read |-> c.read, before |-> c.before, frozen |-> c.frozen,
             base |-> c.base, i |-> x, active |-> y, end |-> c.end, hurt |-> c.hurt]
<1>1. [c EXCEPT !.i = x] =
            [kind |-> c.kind, read |-> c.read, before |-> c.before, frozen |-> c.frozen,
             base |-> c.base, i |-> x, active |-> c.active, end |-> c.end, hurt |-> c.hurt]
  BY DEF Command
<1>2. ASSUME NEW d, d = [c EXCEPT !.i = x]
      PROVE  [d EXCEPT !.active = y] =
            [kind |-> c.kind, read |-> c.read, before |-> c.before, frozen |-> c.frozen,
             base |-> c.base, i |-> x, active |-> y, end |-> c.end, hurt |-> c.hurt]
  <2>1. d = [kind |-> c.kind, read |-> c.read, before |-> c.before, frozen |-> c.frozen,
             base |-> c.base, i |-> x, active |-> c.active, end |-> c.end, hurt |-> c.hurt]
    BY <1>1, <1>2
  <2> QED
    BY <2>1
<1> QED
  BY Zenon, <1>2

\* ... an end in disorder, ...
LEMMA NewEnd ==
  ASSUME NEW c \in Command, NEW x, NEW y
  PROVE  [c EXCEPT !.end = x, !.hurt = y] =
            [kind |-> c.kind, read |-> c.read, before |-> c.before, frozen |-> c.frozen,
             base |-> c.base, i |-> c.i, active |-> c.active, end |-> x, hurt |-> y]
<1>1. [c EXCEPT !.end = x] =
            [kind |-> c.kind, read |-> c.read, before |-> c.before, frozen |-> c.frozen,
             base |-> c.base, i |-> c.i, active |-> c.active, end |-> x, hurt |-> c.hurt]
  BY DEF Command
<1>2. ASSUME NEW d, d = [c EXCEPT !.end = x]
      PROVE  [d EXCEPT !.hurt = y] =
            [kind |-> c.kind, read |-> c.read, before |-> c.before, frozen |-> c.frozen,
             base |-> c.base, i |-> c.i, active |-> c.active, end |-> x, hurt |-> y]
  <2>1. d = [kind |-> c.kind, read |-> c.read, before |-> c.before, frozen |-> c.frozen,
             base |-> c.base, i |-> c.i, active |-> c.active, end |-> x, hurt |-> c.hurt]
    BY <1>1, <1>2
  <2> QED
    BY <2>1
<1> QED
  BY Zenon, <1>2

\* ... and a finish that fails.
LEMMA NewHurt ==
  ASSUME NEW c \in Command, NEW x, NEW y
  PROVE  [c EXCEPT !.i = x, !.hurt = y] =
            [kind |-> c.kind, read |-> c.read, before |-> c.before, frozen |-> c.frozen,
             base |-> c.base, i |-> x, active |-> c.active, end |-> c.end, hurt |-> y]
<1>1. [c EXCEPT !.i = x] =
            [kind |-> c.kind, read |-> c.read, before |-> c.before, frozen |-> c.frozen,
             base |-> c.base, i |-> x, active |-> c.active, end |-> c.end, hurt |-> c.hurt]
  BY DEF Command
<1>2. ASSUME NEW d, d = [c EXCEPT !.i = x]
      PROVE  [d EXCEPT !.hurt = y] =
            [kind |-> c.kind, read |-> c.read, before |-> c.before, frozen |-> c.frozen,
             base |-> c.base, i |-> x, active |-> c.active, end |-> c.end, hurt |-> y]
  <2>1. d = [kind |-> c.kind, read |-> c.read, before |-> c.before, frozen |-> c.frozen,
             base |-> c.base, i |-> x, active |-> c.active, end |-> c.end, hurt |-> c.hurt]
    BY <1>1, <1>2
  <2> QED
    BY <2>1
<1> QED
  BY Zenon, <1>2

LEMMA Started ==
  ASSUME Typed, NEW kind \in {"convert", "lift", "immediate", "rollback"}, NEW step,
         NEW read \in Nat, Start(kind, step, read)
  PROVE  /\ pc = "idle" /\ pc' = step /\ cmd' \in Command
         /\ cmd'.kind = kind /\ cmd'.read = read /\ cmd'.before = disk
         /\ cmd'.frozen = freeze /\ cmd'.base = Len(log) /\ cmd'.active = {}
         /\ cmd'.i = 1 /\ cmd'.hurt = cmd.hurt
<1>1. cmd' = [kind |-> kind, read |-> read, before |-> disk, frozen |-> freeze,
              base |-> Len(log), i |-> 1, active |-> {}, end |-> "none", hurt |-> cmd.hurt]
  BY DEF Start, NoCommand
<1>2. Len(log) \in Nat /\ cmd.hurt \in BOOLEAN /\ disk \in Board /\ freeze \in SUBSET Freeze
  BY DEF Typed, Command
<1>3. cmd' \in Command
  BY <1>1, <1>2 DEF Command
<1>4. pc = "idle" /\ pc' = step
  BY DEF Start
<1> QED
  BY <1>1, <1>3, <1>4

\* The writes on a board are a number.
LEMMA HeldNumber ==
  ASSUME NEW b \in Board
  PROVE  Held(b) \in Nat
  BY DEF Held, Board, Content, Part

LEMMA WholeReadable ==
  ASSUME NEW b, Whole(b)
  PROVE  Readable(b) /\ ~Mixed(b)
  BY DEF Whole, Legacy, Native, Readable, Mixed, Part, Nothing

(***************************************************************************)
(* What is true at all times stays true ...                                *)
(***************************************************************************)

\* ... when the board is not touched,
LEMMA Quiet ==
  ASSUME Good, cmd' \in Command,
         UNCHANGED <<disk, log, tar, acked, receipt>>, where' = where, acceptance' \in Paper,
         stage' \in Board, backup' \in Board,
         freeze' \in SUBSET Freeze, "rollback" \in freeze' => Native(Tree)
  PROVE  Typed' /\ Lasting' /\ Tree' = Tree
<1>1. Typed'
  BY DEF Good, Typed
<1>2. Tree' = Tree /\ Truth' /\ FrozenNative'
  BY DEF Good, Lasting, Truth, FrozenNative, Tree
<1>3. Heads' /\ Receipted'
  BY DEF Good, Lasting, Heads, Receipted
<1> QED
  BY <1>1, <1>2, <1>3 DEF Lasting

\* when parts of it move,
LEMMA Moves ==
  ASSUME Good, cmd' \in Command, disk' \in Board,
         UNCHANGED <<log, acked, receipt, acceptance, freeze>>, where' \in {"tree", "beside"},
         stage' \in Board, backup' \in Board, tar' \in Board,
         Readable(disk') => Held(disk') = acked, Mixed(disk') => disk'["source"].form = "old",
         Readable(disk') \/ Held(Tree) = acked
  PROVE  Typed' /\ Lasting' /\ Tree' = Tree
<1>1. Typed'
  BY DEF Good, Typed
<1>2. Tree' = Tree /\ FrozenNative'
  BY DEF Good, Lasting, FrozenNative, Tree
<1>3. Heads' /\ Receipted'
  BY DEF Good, Lasting, Heads, Receipted
<1>4. Truth'
  BY <1>2 DEF Truth
<1> QED
  BY <1>1, <1>2, <1>3, <1>4 DEF Lasting

\* when a write is acknowledged,
LEMMA Acknowledges ==
  ASSUME Good, cmd' \in Command, disk' \in Board, acked' = acked + 1,
         UNCHANGED <<where, log, receipt, acceptance, freeze, stage, backup, tar>>,
         Readable(disk'), Held(disk') = acked + 1, Mixed(disk') => disk'["source"].form = "old"
  PROVE  Typed' /\ Lasting' /\ Tree' = Tree
<1>1. Typed'
  BY DEF Good, Typed
<1>2. Tree' = Tree /\ FrozenNative'
  BY DEF Good, Lasting, FrozenNative, Tree
<1>3. Heads' /\ Receipted'
  BY DEF Good, Lasting, Heads, Receipted, Typed, Paper
<1>4. Truth'
  BY DEF Truth
<1> QED
  BY <1>1, <1>2, <1>3, <1>4 DEF Lasting

\* and when a whole board is committed that nothing freezes.
LEMMA CommitsWhole ==
  ASSUME Good, cmd' \in Command, disk' \in Board, NEW t \in Board, Commit(t), Whole(t), freeze = {},
         UNCHANGED <<where, acked, receipt, acceptance, freeze, stage, backup, tar>>,
         Readable(disk'), Held(disk') = acked, Mixed(disk') => disk'["source"].form = "old"
  PROVE  /\ Typed' /\ Lasting' /\ Tree' = t /\ Len(log') = Len(log) + 1
         /\ \A i \in 1..Len(log) : log'[i] = log[i]
<1>1. /\ log' \in Seq(Snapshot) /\ Len(log') = Len(log) + 1 /\ Tree' = t
      /\ log'[Len(log) + 1].tree = t /\ log'[Len(log) + 1].frozen = {}
      /\ \A i \in 1..Len(log) : log'[i] = log[i]
  BY Commits DEF Good
<1>2. Typed'
  BY <1>1 DEF Good, Typed
<1>3. Heads'
  BY <1>1 DEF Good, Typed, Lasting, Heads
<1>4. Receipted'
  BY <1>1 DEF Good, Typed, Lasting, Receipted
<1>5. FrozenNative' /\ Truth'
  BY DEF FrozenNative, Truth
<1> QED
  BY <1>1, <1>2, <1>3, <1>4, <1>5 DEF Lasting

\* What can be read is the truth.
LEMMA ReadsTruth ==
  ASSUME Good, Sound(disk)
  PROVE  Readable(disk) /\ Held(disk) = acked
<1>1. Mixed(disk) => Readable(disk)
  BY DEF Good, Lasting, Truth, Mixed, Readable
<1> QED
  BY <1>1, WholeReadable DEF Sound, Good, Lasting, Truth

\* A legacy board has a source and no native tasks; HEAD is whole.
LEMMA LegacyParts ==
  ASSUME NEW b, Legacy(b)
  PROVE  /\ b["tasks"].form = "old" /\ b["config"].form = "old" /\ b["source"].form = "old"
         /\ Held(b) = b["source"].data /\ Whole(b) /\ ~Native(b)
  BY DEF Legacy, Native, Whole, Held, Part, Nothing

LEMMA NativeParts ==
  ASSUME NEW b, Native(b)
  PROVE  /\ b["tasks"].form = "new" /\ b["ledger"].form = "new" /\ b["archive"].form = "new"
         /\ b["config"].form \in {"new", "lifted"} /\ b["source"] = Nothing
         /\ Held(b) = b["tasks"].data /\ b["ledger"].data = b["tasks"].data /\ Whole(b)
  BY DEF Native, Whole, Held, Nothing

LEMMA HeadWholeNow ==
  ASSUME Good
  PROVE  Whole(Tree)
  BY TreeBoard DEF Good, Lasting, Heads, Tree

(***************************************************************************)
(* The steps of a conversion.                                              *)
(***************************************************************************)

LEMMA ConvertStep ==
  ASSUME Good, Convert
  PROVE  Good'
<1>1. /\ pc' = "freeze" /\ cmd' \in Command /\ cmd'.kind = "convert" /\ cmd'.before = disk
      /\ cmd'.read = disk["source"].data /\ cmd'.frozen = freeze /\ cmd'.base = Len(log)
      /\ cmd'.active = {}
  <2>1. disk["source"].data \in Nat
    BY DEF Good, Typed, Board, Content, Part
  <2> QED
    BY <2>1, Started DEF Good, Convert
<1>2. Typed' /\ Lasting' /\ Tree' = Tree
  BY <1>1, Quiet DEF Convert, board, aside, papers, clients, Good, Typed, Lasting, FrozenNative
<1>3. Legacy(Tree)
  BY HeadWholeNow DEF Convert, Committed, Whole, Native, Nothing
<1>4. AtFreeze'
  BY <1>1, <1>2, <1>3 DEF AtFreeze, Begun, Convert, Committed, board
<1> QED
  BY <1>1, <1>2, <1>4 DEF Good, Working

LEMMA WriteFreezeStep ==
  ASSUME Good, WriteFreeze
  PROVE  Good'
<1>1. AtFreeze /\ ~Native(Tree) /\ "rollback" \notin freeze
  BY LegacyParts DEF WriteFreeze, Good, Working, AtFreeze, Begun, Lasting, FrozenNative
<1>2. CASE "conversion" \in freeze
  <2>1. pc' = "idle" /\ cmd' \in Command /\ freeze' = freeze
    BY <1>2, Ended DEF WriteFreeze, Good, Typed
  <2>2. Typed' /\ Lasting'
    BY <2>1, Quiet DEF WriteFreeze, aside, papers, clients, Good, Typed, Lasting, FrozenNative
  <2>3. AtRest'
    BY <1>2, <2>1 DEF AtRest
  <2> QED
    BY <2>1, <2>2, <2>3 DEF Good, Working
<1>3. CASE "conversion" \notin freeze
  <2>1. freeze = {} /\ freeze' = {"conversion"} /\ Goto("preflight")
    BY <1>1, <1>3 DEF WriteFreeze, Good, Typed, Freeze
  <2>2. /\ pc' = "preflight" /\ cmd' \in Command /\ cmd'.kind = cmd.kind
        /\ cmd'.read = cmd.read /\ cmd'.before = cmd.before
        /\ cmd'.frozen = cmd.frozen /\ cmd'.base = cmd.base /\ cmd'.active = cmd.active
    BY <2>1, GoesTo DEF Good, Typed
  <2>3. Typed' /\ Lasting' /\ Tree' = Tree
    BY <2>1, <2>2, Quiet DEF WriteFreeze, aside, papers, clients, Good, Typed, Freeze
  <2>4. AtPreflight'
    BY <1>1, <2>1, <2>2, <2>3 DEF AtFreeze, AtPreflight, Begun, WriteFreeze
  <2> QED
    BY <2>2, <2>3, <2>4 DEF Good, Working
<1> QED
  BY <1>2, <1>3

LEMMA PreflightStep ==
  ASSUME Good, Preflight
  PROVE  Good'
<1>1. AtPreflight /\ pc = "preflight"
  BY DEF Preflight, Good, Working
<1>2. CASE /\ disk["source"].data = cmd.read /\ Len(log) = cmd.base
           /\ disk["tasks"].form \notin {"new", "mixed"}
  <2>1. Goto("prepare") /\ freeze' = freeze /\ stage' = Bare /\ backup' = Bare
    BY <1>2 DEF Preflight
  <2>2. /\ pc' = "prepare" /\ cmd' \in Command /\ cmd'.kind = cmd.kind
        /\ cmd'.read = cmd.read /\ cmd'.before = cmd.before
        /\ cmd'.frozen = cmd.frozen /\ cmd'.base = cmd.base /\ cmd'.active = cmd.active
    BY <2>1, GoesTo DEF Good, Typed
  <2>3. Typed' /\ Lasting' /\ Tree' = Tree
    BY <1>1, <2>1, <2>2, Quiet, BareBoard
       DEF Preflight, aside, papers, clients, Good, Typed, AtPreflight
  <2>4. disk = Tree /\ Legacy(disk) /\ cmd.before = disk
    BY <1>1, <1>2 DEF AtPreflight, Begun, Mixed
  <2>5. cmd.read = acked /\ Held(Tree) = acked
    BY <1>2, <2>4, LegacyParts, ReadsTruth DEF Sound
  <2>6. cmd.base \in 1..Len(log)
    BY <1>2, TreeBoard DEF Good
  <2>7. AtStage'
    BY <1>1, <1>2, <2>1, <2>2, <2>3, <2>4, <2>5, <2>6
       DEF AtPreflight, AtStage, Converts, NotYet, Begun, Preflight, clients
  <2> QED
    BY <2>2, <2>3, <2>7 DEF Good, Working
<1>3. CASE ~(/\ disk["source"].data = cmd.read /\ Len(log) = cmd.base
             /\ disk["tasks"].form \notin {"new", "mixed"})
  <2>1. End("refused") /\ freeze' = {} /\ stage' = stage /\ backup' = backup
    BY <1>1, <1>3 DEF Preflight, AtPreflight
  <2>2. pc' = "idle" /\ cmd' \in Command
    BY <2>1, Ended DEF Good, Typed
  <2>3. Typed' /\ Lasting'
    BY <2>1, <2>2, Quiet DEF Preflight, papers, clients, Good, Typed
  <2>4. Sound(disk)
    BY <1>1 DEF AtPreflight, Begun, Sound, Whole
  <2>5. AtRest'
    BY <2>4 DEF AtRest, Preflight
  <2> QED
    BY <2>2, <2>3, <2>5 DEF Good, Working
<1> QED
  BY <1>2, <1>3

LEMMA PrepareStep ==
  ASSUME Good, Prepare
  PROVE  Good'
<1>1. AtStage /\ pc = "prepare"
  BY DEF Prepare, Good, Working
<1>2. /\ pc' \in {"prepare", "stage"} /\ cmd' \in Command /\ cmd'.kind = cmd.kind
      /\ cmd'.read = cmd.read /\ cmd'.before = cmd.before
      /\ cmd'.frozen = cmd.frozen /\ cmd'.base = cmd.base /\ cmd'.active = cmd.active
  BY <1>1, GoesTo DEF Prepare, Good, Typed
<1>3. stage' \in Board
  <2>1. StagedConfig \in Content
    BY DEF StagedConfig, Content, Good, Typed, Command
  <2>2. [Bare EXCEPT !["config"] = StagedConfig] \in Board
    BY <2>1, BareBoard DEF Board
  <2> QED
    BY <2>2 DEF Prepare, Good, Typed
<1>4. Typed' /\ Lasting' /\ Tree' = Tree
  BY <1>2, <1>3, Quiet DEF Prepare, board, papers, clients, Good, Typed, Lasting, FrozenNative
<1>5. AtStage'
  BY <1>1, <1>2, <1>4 DEF AtStage, Converts, NotYet, Prepare, board, clients
<1> QED
  BY <1>2, <1>4, <1>5 DEF Good, Working

LEMMA StageStep ==
  ASSUME Good, Stage
  PROVE  Good'
<1>1. AtStage /\ pc = "stage"
  BY DEF Stage, Good, Working
<1>2. /\ pc' = "activate" /\ cmd' \in Command /\ cmd'.i = 1 /\ cmd'.kind = cmd.kind
      /\ cmd'.read = cmd.read /\ cmd'.before = cmd.before
      /\ cmd'.frozen = cmd.frozen /\ cmd'.base = cmd.base /\ cmd'.active = cmd.active
  BY GoesTo DEF Stage, Good, Typed
<1>3. cmd.base \in Nat /\ cmd.read \in Nat
  BY DEF Good, Typed, Command
<1>4. stage' \in Board /\ \A p \in Part : stage'[p] = Staged(p)
  <2>1. \A p \in Part : stage'[p] = Staged(p)
    BY DEF Stage, Staged, StagedConfig
  <2>2. \A p \in Part : Staged(p) \in Content
    BY <1>3 DEF Staged, Content, Nothing, New
  <2>3. stage' = [p \in Part |-> Staged(p)]
    BY DEF Stage, Staged, StagedConfig
  <2> QED
    BY <2>1, <2>2, <2>3 DEF Board
<1>5. \A p \in Part : Staged(p)' = Staged(p)
  BY <1>2 DEF Staged
<1>6. Typed' /\ Lasting' /\ Tree' = Tree
  BY <1>1, <1>2, <1>4, Quiet
     DEF Stage, board, papers, clients, Good, Typed, Lasting, FrozenNative
<1>7. \A p \in Part : Original(p)'
  BY <1>1, <1>2, <1>4, <1>5, BareBoard DEF Original, AtStage, Stage, board
<1>8. AtActivate'
  BY <1>1, <1>2, <1>4, <1>6, <1>7
     DEF AtActivate, AtStage, Walk, Staged, Part, Converts, NotYet, Stage, board, clients
<1> QED
  BY <1>2, <1>6, <1>8 DEF Good, Working

LEMMA ActivationMoves ==
  /\ Len(Activation) = 8
  /\ Activation[1] = <<"save", "tasks">> /\ Activation[2] = <<"save", "ledger">>
  /\ Activation[3] = <<"save", "archive">>
  /\ Activation[4] = <<"put", "tasks">> /\ Activation[5] = <<"put", "ledger">>
  /\ Activation[6] = <<"put", "archive">>
  /\ Activation[7] = <<"configure", "config">> /\ Activation[8] = <<"dispose", "source">>
  BY DEF Activation

LEMMA MovesInTurn ==
  ASSUME Good
  PROVE  /\ Activating("save") => cmd.i \in {1, 2, 3}
         /\ Activating("put") => cmd.i \in {4, 5, 6}
         /\ Activating("configure") => cmd.i = 7
         /\ Activating("dispose") => cmd.i = 8
<1> SUFFICES ASSUME pc = "activate", cmd.i <= Len(Activation)
             PROVE  /\ Activation[cmd.i][1] = "save" => cmd.i \in {1, 2, 3}
                    /\ Activation[cmd.i][1] = "put" => cmd.i \in {4, 5, 6}
                    /\ Activation[cmd.i][1] = "configure" => cmd.i = 7
                    /\ Activation[cmd.i][1] = "dispose" => cmd.i = 8
  BY DEF Activating
<1>1. cmd.i \in 1..8
  BY ActivationMoves DEF Good, Working, AtActivate
<1> QED
  BY <1>1, ActivationMoves

\* A move of the activation takes every part one step further.
LEMMA Activates ==
  ASSUME Good, pc = "activate", pc' = "activate", cmd' \in Command, cmd'.i = cmd.i + 1, cmd.i \in 1..8,
         cmd'.kind = cmd.kind, cmd'.read = cmd.read, cmd'.before = cmd.before,
         cmd'.frozen = cmd.frozen, cmd'.base = cmd.base,
         UNCHANGED <<where, log, freeze, tar, papers, clients>>,
         disk' \in Board, stage' \in Board, backup' \in Board, stage'["source"] = Nothing,
         Walk("tasks", 1, 4)', Walk("ledger", 2, 5)', Walk("archive", 3, 6)',
         cmd.i <= 6 => Walk("config", 1, 4)', cmd.i > 6 => Configured',
         where = "tree" => Walk("source", 1, 1)', where # "tree" => Walk("source", 8, 8)',
         "tasks" \in cmd'.active <=> cmd.i >= 4,
         "ledger" \in cmd'.active <=> cmd.i >= 5,
         "archive" \in cmd'.active <=> cmd.i >= 6
  PROVE  Good'
<1>1. AtActivate
  BY DEF Good, Working
<1>2. disk'["tasks"] = Nothing \/ disk'["tasks"] = New(cmd.read)
  BY DEF Walk, Saved, Placed, Staged
<1>3. Typed' /\ Lasting' /\ Tree' = Tree
  BY <1>1, <1>2, Moves DEF papers, clients, Good, Typed, AtActivate, Converts, Readable, Mixed,
     Held, New, Nothing
<1>4. AtActivate'
  BY <1>1, <1>3 DEF AtActivate, Converts, NotYet, clients
<1> QED
  BY <1>3, <1>4 DEF Good, Working

\* What a saving move does, part by part.
LEMMA SaveStep ==
  ASSUME Good, Save
  PROVE  Good'
<1>1. AtActivate /\ pc = "activate"
  BY DEF Save, Activating, Good, Working
<1>2. /\ pc' = pc /\ cmd' \in Command /\ cmd'.i = cmd.i + 1 /\ cmd'.kind = cmd.kind
      /\ cmd'.read = cmd.read /\ cmd'.before = cmd.before
      /\ cmd'.frozen = cmd.frozen /\ cmd'.base = cmd.base /\ cmd'.active = cmd.active
  BY Advances DEF Save, Good, Typed
<1>3. /\ disk' \in Board /\ \A p \in Part : disk'[p] = IF p \in This THEN Nothing ELSE disk[p]
      /\ backup' \in Board /\ \A p \in Part : backup'[p] = IF p \in This THEN disk[p] ELSE backup[p]
  BY MovedParts, BareBoard DEF Save, Good, Typed
<1>4. \A p \in Part : Staged(p)' = Staged(p)
  BY <1>2 DEF Staged
<1>5. stage' = stage /\ UNCHANGED <<where, log, freeze, tar, papers, clients>> /\ stage \in Board
  BY DEF Save, Good, Typed
<1>6. cmd.i \in {1, 2, 3} \/ (cmd.i = 8 /\ where = "beside")
  BY MovesInTurn DEF Save
<1>7. /\ cmd.i = 1 => This = {"tasks", "config"} \cup (IF where = "tree" THEN {"source"} ELSE {})
      /\ cmd.i = 2 => This = {"ledger"}
      /\ cmd.i = 3 => This = {"archive"}
      /\ cmd.i = 8 => This = {"source"}
  BY ActivationMoves DEF This, Dir
<1>8. cmd.i \in 1..8 /\ cmd'.i \in 2..9
  BY <1>2, <1>6
<1>9. /\ "tasks" \in This <=> cmd.i = 1
      /\ "config" \in This <=> cmd.i = 1
      /\ "ledger" \in This <=> cmd.i = 2
      /\ "archive" \in This <=> cmd.i = 3
      /\ "source" \in This <=> IF where = "tree" THEN cmd.i = 1 ELSE cmd.i = 8
  <2>1. CASE cmd.i = 1
    BY <1>7, <2>1
  <2>2. CASE cmd.i = 2
    BY <1>7, <2>2
  <2>3. CASE cmd.i = 3
    BY <1>7, <2>3
  <2>4. CASE cmd.i = 8 /\ where = "beside"
    BY <1>7, <2>4
  <2> QED
    BY <1>6, <2>1, <2>2, <2>3, <2>4
<1> DEFINE Takes(p, k) ==
       /\ cmd.i = k => disk'[p] = Nothing /\ backup'[p] = disk[p]
       /\ cmd.i # k => disk'[p] = disk[p] /\ backup'[p] = backup[p]
<1>10. /\ Takes("tasks", 1) /\ Takes("config", 1) /\ Takes("ledger", 2) /\ Takes("archive", 3)
       /\ Takes("source", IF where = "tree" THEN 1 ELSE 8)
  BY <1>3, <1>9 DEF Part
<1>11. ASSUME NEW p \in Part, NEW k \in {1, 2, 3, 8}, NEW n \in 1..8, Walk(p, k, n), Takes(p, k),
              (k < n /\ cmd.i # n) \/ (k = n /\ p = "source")
       PROVE  Walk(p, k, n)'
  <2>1. p = "source" => Staged(p) = Nothing
    BY DEF Staged
  <2>2. CASE cmd.i < k
    BY <1>2, <1>4, <1>5, <1>8, <1>11, <2>2 DEF Walk, Original
  <2>3. CASE cmd.i = k
    BY <1>2, <1>4, <1>5, <1>8, <1>11, <2>1, <2>3 DEF Walk, Original, Saved, Placed
  <2>4. CASE cmd.i > k
    BY <1>2, <1>4, <1>5, <1>8, <1>11, <2>4 DEF Walk, Saved, Placed
  <2> QED
    BY <1>8, <2>2, <2>3, <2>4
<1>12. /\ Walk("tasks", 1, 4)' /\ Walk("ledger", 2, 5)' /\ Walk("archive", 3, 6)'
       /\ where = "tree" => Walk("source", 1, 1)'
       /\ where # "tree" => Walk("source", 8, 8)'
  BY <1>1, <1>6, <1>10, <1>11 DEF AtActivate, Part
<1>13. cmd.i <= 6 => Walk("config", 1, 4)'
  BY <1>1, <1>6, <1>10, <1>11 DEF AtActivate, Part
<1>14. cmd.i > 6 => Configured'
  BY <1>1, <1>2, <1>6, <1>10 DEF AtActivate, Configured
<1> QED
  BY <1>1, <1>2, <1>3, <1>5, <1>8, <1>6, <1>12, <1>13, <1>14, Activates DEF AtActivate

LEMMA PutStep ==
  ASSUME Good, Put
  PROVE  Good'
<1>1. AtActivate /\ pc = "activate"
  BY DEF Put, Activating, Good, Working
<1> DEFINE part == Activation[cmd.i][2]
<1>2. cmd.i \in {4, 5, 6}
  BY MovesInTurn DEF Put
<1>3. /\ cmd.i = 4 => part = "tasks"
      /\ cmd.i = 5 => part = "ledger"
      /\ cmd.i = 6 => part = "archive"
  BY ActivationMoves
<1>4. /\ pc' = pc /\ cmd' \in Command /\ cmd'.i = cmd.i + 1 /\ cmd'.kind = cmd.kind
      /\ cmd'.read = cmd.read /\ cmd'.before = cmd.before
      /\ cmd'.frozen = cmd.frozen /\ cmd'.base = cmd.base /\ cmd'.active = cmd.active \cup {part}
  <2>1. part \in {"tasks", "ledger", "archive"}
    BY <1>2, <1>3
  <2>2. cmd' = [cmd EXCEPT !.i = @ + 1, !.active = @ \cup {part}] /\ pc' = pc
    BY DEF Put
  <2> HIDE DEF part
  <2>3. cmd \in Command /\ cmd.i + 1 \in Nat
    BY DEF Good, Typed, Command
  <2>4. cmd' = [kind |-> cmd.kind, read |-> cmd.read, before |-> cmd.before, frozen |-> cmd.frozen,
                base |-> cmd.base, i |-> cmd.i + 1, active |-> cmd.active \cup {part},
                end |-> cmd.end, hurt |-> cmd.hurt]
    BY <2>2, <2>3, NewActive, Zenon
  <2> QED
    BY <2>1, <2>2, <2>3, <2>4 DEF Command
<1>5. /\ disk' \in Board /\ \A p \in Part : disk'[p] = IF p \in This THEN stage[p] ELSE disk[p]
      /\ stage' \in Board /\ \A p \in Part : stage'[p] = IF p \in This THEN Nothing ELSE stage[p]
  BY MovedParts, BareBoard DEF Put, Good, Typed
<1>6. \A p \in Part : Staged(p)' = Staged(p)
  BY <1>4 DEF Staged
<1>7. backup' = backup /\ UNCHANGED <<where, log, freeze, tar, papers, clients>> /\ backup \in Board
  BY DEF Put, Good, Typed
<1>8. /\ "tasks" \in This <=> cmd.i = 4
      /\ "config" \in This <=> cmd.i = 4
      /\ "ledger" \in This <=> cmd.i = 5
      /\ "archive" \in This <=> cmd.i = 6
      /\ "source" \in This <=> (where = "tree" /\ cmd.i = 4)
  <2>1. CASE cmd.i = 4
    BY <1>3, <2>1 DEF This, Dir
  <2>2. CASE cmd.i = 5
    BY <1>3, <2>2 DEF This, Dir
  <2>3. CASE cmd.i = 6
    BY <1>3, <2>3 DEF This, Dir
  <2> QED
    BY <1>2, <2>1, <2>2, <2>3
<1> HIDE DEF part
<1> DEFINE Takes(p, n) ==
       /\ cmd.i = n => disk'[p] = stage[p]
       /\ cmd.i # n => disk'[p] = disk[p] /\ stage'[p] = stage[p]
<1>9. /\ Takes("tasks", 4) /\ Takes("config", 4) /\ Takes("ledger", 5) /\ Takes("archive", 6)
      /\ IF where = "tree" THEN Takes("source", 4) ELSE Takes("source", 0)
  BY <1>2, <1>5, <1>8 DEF Part
<1>10. ASSUME NEW p \in Part, NEW k \in {1, 2, 3}, NEW n \in {4, 5, 6}, Walk(p, k, n), Takes(p, n)
       PROVE  Walk(p, k, n)'
  <2>1. CASE cmd.i < n
    BY <1>2, <1>4, <1>6, <1>7, <1>10, <2>1 DEF Walk, Saved
  <2>2. CASE cmd.i = n
    BY <1>2, <1>4, <1>6, <1>7, <1>10, <2>2 DEF Walk, Saved, Placed
  <2>3. CASE cmd.i > n
    BY <1>2, <1>4, <1>6, <1>7, <1>10, <2>3 DEF Walk, Placed
  <2> QED
    BY <1>2, <2>1, <2>2, <2>3
<1>11. /\ Walk("tasks", 1, 4)' /\ Walk("ledger", 2, 5)' /\ Walk("archive", 3, 6)'
       /\ Walk("config", 1, 4)'
  BY <1>1, <1>2, <1>9, <1>10 DEF AtActivate, Part
<1>12. stage'["source"] = Nothing /\ Staged("source") = Nothing
  BY <1>1, <1>5 DEF AtActivate, Part, Staged
<1>13. where = "tree" => Walk("source", 1, 1)'
  <2> HAVE where = "tree"
  <2>1. Placed("source")
    BY <1>1, <1>2 DEF AtActivate, Walk
  <2>2. disk'["source"] = Nothing
    BY <1>1, <1>9, <1>12, <2>1 DEF Placed, AtActivate
  <2> QED
    BY <1>2, <1>4, <1>6, <1>7, <1>12, <2>1, <2>2 DEF Walk, Placed, Part
<1>14. where # "tree" => Walk("source", 8, 8)'
  BY <1>1, <1>2, <1>4, <1>6, <1>7, <1>9 DEF AtActivate, Walk, Original, Part
<1>15. /\ "tasks" \in cmd'.active <=> cmd.i >= 4
       /\ "ledger" \in cmd'.active <=> cmd.i >= 5
       /\ "archive" \in cmd'.active <=> cmd.i >= 6
  BY <1>1, <1>2, <1>3, <1>4 DEF AtActivate
<1> QED
  BY <1>1, <1>2, <1>4, <1>5, <1>7, <1>11, <1>12, <1>13, <1>14, <1>15, Activates

LEMMA ConfigureStep ==
  ASSUME Good, Configure
  PROVE  Good'
<1>1. AtActivate /\ pc = "activate" /\ cmd.i = 7
  BY MovesInTurn DEF Configure, Activating, Good, Working
<1>2. /\ pc' = pc /\ cmd' \in Command /\ cmd'.i = cmd.i + 1 /\ cmd'.kind = cmd.kind
      /\ cmd'.read = cmd.read /\ cmd'.before = cmd.before
      /\ cmd'.frozen = cmd.frozen /\ cmd'.base = cmd.base /\ cmd'.active = cmd.active
  BY Advances DEF Configure, Good, Typed
<1>3. cmd.base \in Nat /\ disk \in Board
  BY DEF Good, Typed, Command
<1>4. disk["config"] = [form |-> "staged", data |-> cmd.base] /\ backup["config"] = cmd.before["config"]
  BY <1>1 DEF AtActivate, Walk, Placed, Staged
<1>5. /\ disk' \in Board /\ disk'["config"] = [form |-> "new", data |-> cmd.base]
      /\ \A p \in Part \ {"config"} : disk'[p] = disk[p]
  BY <1>3, <1>4 DEF Configure, Board, Content, Part
<1>6. \A p \in Part : Staged(p)' = Staged(p)
  BY <1>2 DEF Staged
<1>7. UNCHANGED <<where, log, freeze, stage, backup, tar, papers, clients>>
  BY DEF Configure, aside
<1>8. /\ Walk("tasks", 1, 4)' /\ Walk("ledger", 2, 5)' /\ Walk("archive", 3, 6)'
  BY <1>1, <1>2, <1>5, <1>6, <1>7 DEF AtActivate, Walk, Placed, Part
<1>9. where = "tree" => Walk("source", 1, 1)'
  BY <1>1, <1>2, <1>5, <1>6, <1>7 DEF AtActivate, Walk, Placed, Part
<1>10. where # "tree" => Walk("source", 8, 8)'
  BY <1>1, <1>2, <1>5, <1>6, <1>7 DEF AtActivate, Walk, Original, Part
<1>11. Configured'
  BY <1>2, <1>4, <1>5, <1>7 DEF Configured
<1>12. /\ "tasks" \in cmd'.active <=> cmd.i >= 4
       /\ "ledger" \in cmd'.active <=> cmd.i >= 5
       /\ "archive" \in cmd'.active <=> cmd.i >= 6
  BY <1>1, <1>2 DEF AtActivate
<1>13. stage'["source"] = Nothing /\ stage' \in Board /\ backup' \in Board
  BY <1>1, <1>7 DEF AtActivate, Good, Typed
<1> QED
  BY <1>1, <1>2, <1>5, <1>7, <1>8, <1>9, <1>10, <1>11, <1>12, <1>13, Activates

LEMMA DisposeStep ==
  ASSUME Good, Dispose
  PROVE  Good'
<1>1. AtActivate /\ pc = "activate" /\ cmd.i = 8
  BY MovesInTurn DEF Dispose, Activating, Good, Working
<1>2. /\ pc' = pc /\ cmd' \in Command /\ cmd'.i = cmd.i + 1 /\ cmd'.kind = cmd.kind
      /\ cmd'.read = cmd.read /\ cmd'.before = cmd.before
      /\ cmd'.frozen = cmd.frozen /\ cmd'.base = cmd.base /\ cmd'.active = cmd.active
  BY Advances DEF Dispose, Good, Typed
<1>3. \A p \in Part : Staged(p)' = Staged(p)
  BY <1>2 DEF Staged
<1>4. UNCHANGED <<disk, where, log, freeze, stage, backup, tar, papers, clients>>
  BY DEF Dispose, aside, board
<1>5. /\ Walk("tasks", 1, 4)' /\ Walk("ledger", 2, 5)' /\ Walk("archive", 3, 6)'
      /\ Walk("source", 1, 1)' /\ where = "tree"
  BY <1>1, <1>2, <1>3, <1>4 DEF Dispose, AtActivate, Walk, Placed, Part, Good, Typed
<1>6. Configured'
  BY <1>1, <1>2, <1>4 DEF AtActivate, Configured
<1>7. /\ "tasks" \in cmd'.active <=> cmd.i >= 4
      /\ "ledger" \in cmd'.active <=> cmd.i >= 5
      /\ "archive" \in cmd'.active <=> cmd.i >= 6
  BY <1>1, <1>2 DEF AtActivate
<1>8. stage'["source"] = Nothing /\ disk' \in Board /\ stage' \in Board /\ backup' \in Board
  BY <1>1, <1>4 DEF AtActivate, Good, Typed
<1> QED
  BY <1>1, <1>2, <1>4, <1>5, <1>6, <1>7, <1>8, Activates

LEMMA ThawStep ==
  ASSUME Good, Thaw
  PROVE  Good'
<1>1. AtActivate /\ pc = "activate" /\ cmd.i = 9
  BY ActivationMoves DEF Thaw, Good, Working, AtActivate
<1>2. /\ pc' = "commit" /\ cmd' \in Command /\ cmd'.kind = cmd.kind
      /\ cmd'.read = cmd.read /\ cmd'.before = cmd.before
      /\ cmd'.frozen = cmd.frozen /\ cmd'.base = cmd.base /\ cmd'.active = cmd.active
  BY GoesTo DEF Thaw, Good, Typed
<1>3. freeze' = {} /\ UNCHANGED <<disk, where, log, stage, backup, tar, papers, clients>>
  BY <1>1 DEF Thaw, aside, AtActivate
<1>4. Typed' /\ Lasting' /\ Tree' = Tree
  BY <1>2, <1>3, Quiet DEF papers, clients, Good, Typed
<1>5. /\ disk["tasks"] = New(cmd.read) /\ disk["ledger"] = New(cmd.read) /\ disk["archive"] = New(cmd.read)
      /\ disk["config"] = [form |-> "new", data |-> cmd.base] /\ disk["source"] = Nothing
  BY <1>1 DEF AtActivate, Walk, Placed, Staged, Configured
<1>6. Native(disk)
  BY <1>5 DEF Native, New
<1>7. Same(backup, cmd.before)
  BY <1>1 DEF AtActivate, Walk, Placed, Configured, Same, Part
<1>8. cmd.active = {"tasks", "ledger", "archive"}
  BY <1>1 DEF AtActivate, Good, Typed, Command
<1>9. AtCommit'
  BY <1>1, <1>2, <1>3, <1>4, <1>5, <1>6, <1>7, <1>8
     DEF AtActivate, AtCommit, Converts, Converted, NotYet, Same, clients
<1> QED
  BY <1>2, <1>4, <1>9 DEF Good, Working

LEMMA CutoverCommitStep ==
  ASSUME Good, CutoverCommit
  PROVE  Good'
<1>1. AtCommit /\ pc = "commit"
  BY DEF CutoverCommit, Good, Working
<1>2. /\ pc' = "report" /\ cmd' \in Command /\ cmd'.kind = cmd.kind
      /\ cmd'.read = cmd.read /\ cmd'.before = cmd.before
      /\ cmd'.frozen = cmd.frozen /\ cmd'.base = cmd.base /\ cmd'.active = cmd.active
  BY GoesTo DEF CutoverCommit, Good, Typed
<1>3. Commit(disk) /\ UNCHANGED <<disk, where, freeze, stage, backup, tar, papers, clients>>
  BY DEF CutoverCommit, aside
<1>4. Readable(disk) /\ Held(disk) = acked /\ Whole(disk) /\ ~Mixed(disk)
  BY <1>1, NativeParts, ReadsTruth, WholeReadable DEF AtCommit, Converted, Sound
<1>5. /\ Typed' /\ Lasting' /\ Tree' = disk /\ Len(log') = Len(log) + 1
      /\ \A i \in 1..Len(log) : log'[i] = log[i]
  BY <1>1, <1>2, <1>3, <1>4, CommitsWhole DEF AtCommit, papers, clients, Good, Typed
<1>6. cmd.base = Len(log) /\ cmd.base \in 1..Len(log) /\ log[cmd.base].tree = cmd.before
  BY <1>1 DEF AtCommit, NotYet, Tree, Converts
<1>7. AtReport'
  BY <1>1, <1>2, <1>3, <1>4, <1>5, <1>6
     DEF AtCommit, AtReport, Converts, Converted, Same, clients
<1> QED
  BY <1>2, <1>5, <1>7 DEF Good, Working

LEMMA ReportStep ==
  ASSUME Good, Report
  PROVE  Good'
<1>1. AtReport /\ pc = "report"
  BY DEF Report, Good, Working
<1>2. /\ pc' = "finish" /\ cmd' \in Command /\ cmd'.kind = cmd.kind
      /\ cmd'.read = cmd.read /\ cmd'.before = cmd.before
      /\ cmd'.frozen = cmd.frozen /\ cmd'.base = cmd.base /\ cmd'.active = cmd.active
  BY GoesTo DEF Report, Good, Typed
<1>3. UNCHANGED <<disk, where, log, freeze, stage, backup, tar, acceptance, clients>> /\ Tree' = Tree
  BY DEF Report, aside, board, Tree
<1>4. /\ receipt' \in Paper /\ receipt'.commit = Len(log) /\ receipt'.data = cmd.read
  BY DEF Report, Good, Typed, Command, Paper
<1>5. Typed'
  BY <1>2, <1>3, <1>4 DEF Good, Typed, clients
<1>6. /\ Len(log) = cmd.base + 1 /\ cmd.base \in 1..Len(log) /\ log[cmd.base].tree = cmd.before
      /\ Held(log[Len(log)].tree) = acked
  BY <1>1 DEF AtReport, Converts, Tree
<1>7. Receipted'
  BY <1>1, <1>3, <1>4, <1>6 DEF Receipted, AtReport, Converts, clients, Good, Typed
<1>8. Lasting'
  BY <1>3, <1>7 DEF Good, Lasting, Truth, Heads, FrozenNative, clients
<1>9. AtReport'
  BY <1>1, <1>2, <1>3 DEF AtReport, Converts, Converted, Same, clients
<1> QED
  BY <1>2, <1>5, <1>8, <1>9 DEF Good, Working

LEMMA FinishStep ==
  ASSUME Good, Finish
  PROVE  Good'
<1>1. AtReport /\ pc = "finish"
  BY DEF Finish, Good, Working
<1>2. pc' = "idle" /\ cmd' \in Command
  BY Ended DEF Finish, Good, Typed
<1>3. Typed' /\ Lasting'
  BY <1>1, <1>2, Quiet, BareBoard DEF Finish, AtReport, papers, clients, Good, Typed
<1>4. Sound(disk)
  BY <1>1, NativeParts DEF AtReport, Converted, Sound
<1>5. AtRest'
  BY <1>4 DEF AtRest, Finish
<1> QED
  BY <1>2, <1>3, <1>5 DEF Good, Working

(***************************************************************************)
(* The undoing of a conversion.                                            *)
(***************************************************************************)

\* Whatever was done so far, it can be undone.
LEMMA CanUndo ==
  ASSUME Good, pc \in {"stage", "activate", "commit", "report", "finish"},
         cmd' \in Command, cmd'.i = 1, cmd'.before = cmd.before, cmd'.active = cmd.active,
         UNCHANGED <<disk, where, backup>>
  PROVE  AllUndoable'
<1>1. AtStage \/ AtActivate \/ ((AtCommit \/ AtReport) /\ Converted)
  BY DEF Good, Working, AtCommit, AtReport
<1>2. /\ cmd.before["tasks"] # Nothing /\ cmd.before["config"] # Nothing
      /\ cmd.before["source"] # Nothing
  BY <1>1, LegacyParts DEF AtStage, AtActivate, AtCommit, AtReport, Converts, Nothing
<1>3. \A p \in Part : ~PutBack(p)'
  BY DEF PutBack, Turn, Part
<1>4. \A p \in Part : Lead(p)' = Lead(p) /\ Lead(p) \in Part
  BY DEF Lead, Part
<1>5. CASE AtStage
  <2>1. \A p \in Part : /\ disk[p] = cmd.before[p] /\ backup[p] = Nothing
                        /\ Lead(p) \notin cmd.active
    BY <1>5, BareBoard DEF AtStage
  <2> QED
    BY <1>4, <2>1 DEF AllUndoable, Undoable
<1>6. CASE AtActivate
  <2> DEFINE Half(p) ==
         \/ disk[p] = cmd.before[p] /\ backup[p] = Nothing /\ Lead(p) \notin cmd.active
         \/ backup[p] = cmd.before[p] /\ (Lead(p) \in cmd.active \/ disk[p] = Nothing)
  <2>1. cmd.i \in 1..9
    BY <1>6 DEF AtActivate
  <2>2. Half("tasks") /\ Half("ledger") /\ Half("archive")
    BY <1>6, <2>1 DEF AtActivate, Walk, Original, Saved, Placed, Lead
  <2>3. Half("config") /\ (backup["config"] = Nothing <=> backup["tasks"] = Nothing)
    BY <1>2, <1>6, <2>1 DEF AtActivate, Walk, Original, Saved, Placed, Configured, Lead
  <2>4. Half("source") /\ (where = "tree" => (backup["source"] = Nothing <=> backup["tasks"] = Nothing))
    <3>1. CASE where = "tree"
      BY <1>2, <1>6, <2>1, <3>1 DEF AtActivate, Walk, Original, Saved, Placed, Staged, Lead
    <3>2. CASE where # "tree"
      <4>1. Lead("source") = "source" /\ "source" \notin cmd.active
        BY <3>2 DEF Lead, Good, Typed, Command
      <4>2. Walk("source", 8, 8) /\ Staged("source") = Nothing
        BY <1>6, <3>2 DEF AtActivate, Staged
      <4> QED
        BY <2>1, <3>2, <4>1, <4>2 DEF Walk, Original, Placed
    <3> QED
      BY <3>1, <3>2
  <2>5. \A p \in Part : Half(p) /\ (backup[p] = Nothing <=> backup[Lead(p)] = Nothing)
    BY <2>2, <2>3, <2>4 DEF Part, Lead
  <2> QED
    BY <1>3, <1>4, <2>5 DEF AllUndoable, Undoable
<1>7. CASE (AtCommit \/ AtReport) /\ Converted
  <2>1. \A p \in Part : backup[p] = cmd.before[p]
    BY <1>7 DEF Converted, Same
  <2>2. \A p \in Part : Lead(p) \in cmd.active \/ disk[p] = Nothing
    BY <1>7, NativeParts DEF Converted, Lead, Part
  <2>3. \A p \in Part : backup[p] = Nothing <=> backup[Lead(p)] = Nothing
    BY <1>2, <2>1 DEF Lead, Part
  <2> QED
    BY <1>3, <1>4, <2>1, <2>2, <2>3 DEF AllUndoable, Undoable
<1> QED
  BY <1>1, <1>5, <1>6, <1>7

LEMMA UndoBegins ==
  ASSUME Good, pc \in {"stage", "activate", "commit", "report", "finish"}, pc' = "undo",
         cmd' \in Command, cmd'.i = 1, cmd'.kind = cmd.kind,
         cmd'.read = cmd.read, cmd'.before = cmd.before,
         cmd'.frozen = cmd.frozen, cmd'.base = cmd.base, cmd'.active = cmd.active,
         UNCHANGED <<disk, where, log, freeze, stage, tar, papers, clients>>,
         backup' \in Board,
         \/ backup' = backup
         \/ /\ pc = "finish" /\ cmd'.hurt /\ \A p \in Part : backup'[p] \in {backup[p], Nothing}
  PROVE  Good'
<1>1. AtStage \/ AtActivate \/ ((AtCommit \/ AtReport) /\ Converted)
  BY DEF Good, Working, AtCommit, AtReport
<1>2. Typed' /\ Lasting' /\ Tree' = Tree
  BY Quiet DEF papers, clients, Good, Typed, Lasting, FrozenNative
<1>3. Converts'
  BY <1>1, <1>2 DEF AtStage, AtActivate, AtCommit, AtReport, Converts, clients
<1>4. disk["tasks"] \in {cmd.before["tasks"], Nothing, New(cmd.read)}
  BY <1>1 DEF AtStage, AtActivate, Converted, Walk, Original, Saved, Placed, Staged
<1>5. disk["source"] \in {cmd.before["source"], Nothing}
  <2>1. Staged("source") = Nothing
    BY DEF Staged
  <2> QED
    BY <1>1, <2>1, NativeParts DEF AtStage, AtActivate, Converted, Walk, Original, Saved, Placed
<1>6. \A p \in Part : backup[p] \in {cmd.before[p], Nothing}
  BY <1>1, BareBoard DEF AtStage, AtActivate, Converted, Same, Walk, Original, Saved, Placed,
     Configured, Part
<1>7. AllUndoable' \/ (cmd'.hurt /\ Len(log') > cmd'.base)
  <2>1. CASE backup' = backup
    BY <2>1, CanUndo
  <2>2. CASE pc = "finish" /\ cmd'.hurt
    <3>1. AtReport
      BY <2>2 DEF Good, Working
    <3> QED
      BY <2>2, <3>1 DEF AtReport, Converts, Good, Typed
  <2> QED
    BY <2>1, <2>2
<1>8. AtUndo'
  BY <1>3, <1>4, <1>5, <1>6, <1>7 DEF AtUndo
<1> QED
  BY <1>2, <1>8 DEF Good, Working

LEMMA PutFailsStep ==
  ASSUME Good, PutFails
  PROVE  Good'
<1>1. pc = "activate"
  BY DEF PutFails, Activating
<1> QED
  BY <1>1, GoesTo, UndoBegins DEF PutFails, board, aside, Good, Typed

LEMMA FinishFailsStep ==
  ASSUME Good, FinishFails
  PROVE  Good'
<1>1. cmd \in Command /\ backup \in Board
  BY DEF Good, Typed
<1>2. cmd' = [kind |-> cmd.kind, read |-> cmd.read, before |-> cmd.before, frozen |-> cmd.frozen,
              base |-> cmd.base, i |-> 1, active |-> cmd.active, end |-> cmd.end, hurt |-> TRUE]
  BY <1>1, NewHurt, Zenon DEF FinishFails
<1>3. cmd' \in Command
  BY <1>1, <1>2 DEF Command
<1>4. backup' \in Board /\ \A p \in Part : backup'[p] \in {backup[p], Nothing}
  BY <1>1, MovedParts, BareBoard DEF FinishFails
<1> QED
  BY <1>2, <1>3, <1>4, UndoBegins DEF FinishFails, board

LEMMA UndoingParts ==
  /\ Undoing[1] = "archive" /\ Undoing[2] = "ledger" /\ Undoing[3] = "tasks"
  /\ where = "beside" => Len(Undoing) = 4 /\ Undoing[4] = "source"
  /\ where # "beside" => Len(Undoing) = 3
  BY DEF Undoing

\* Putting one part back keeps what is said of all of them.
LEMMA PutsBack ==
  ASSUME Good, AtUndo, AllUndoable, cmd.i <= Len(Undoing), NEW p, p = Undoing[cmd.i],
         p \in cmd.active \/ backup[p] = Nothing \/ disk[p] = Nothing,
         disk' = Restored(p), cmd' \in Command, cmd'.i = cmd.i + 1, cmd'.before = cmd.before,
         cmd'.active = cmd.active, UNCHANGED <<where, backup>>
  PROVE  AllUndoable'
<1>1. where \in {"tree", "beside"} /\ cmd.i \in 1..5 /\ disk \in Board /\ backup \in Board
  BY DEF Good, Typed, AtUndo
<1>2. \/ cmd.i = 1 /\ p = "archive"
      \/ cmd.i = 2 /\ p = "ledger"
      \/ cmd.i = 3 /\ p = "tasks"
      \/ cmd.i = 4 /\ p = "source" /\ where = "beside"
  <2>1. cmd.i \in {1, 2, 3} \/ (cmd.i = 4 /\ where = "beside")
    BY <1>1, UndoingParts
  <2> QED
    BY <2>1, UndoingParts
<1>3. \A q \in Part : q \in Dir(p) <=> Lead(q) = p
  BY <1>1, <1>2 DEF Dir, Lead, Part
<1>4. \A q \in Part : /\ Lead(q)' = Lead(q) /\ Lead(q) \in {"tasks", "ledger", "archive", "source"}
                      /\ PutBack(q)' <=> (PutBack(q) \/ Lead(q) = p)
                      /\ Lead(q) = p => ~PutBack(q)
  BY <1>1, <1>2 DEF Lead, PutBack, Turn, Part
<1>5. \A q \in Part : disk'[q] =
         IF q \notin Dir(p) THEN disk[q]
         ELSE IF backup[p] # Nothing THEN backup[q]
         ELSE IF p \in cmd.active THEN Nothing ELSE disk[q]
  BY <1>1, MovedParts, BareBoard DEF Restored
<1>6. ASSUME NEW q \in Part
      PROVE  Undoable(q)'
  <2>1. Undoable(q) /\ Undoable(p)
    BY <1>2 DEF AllUndoable, Part
  <2>2. Lead(p) = p
    BY <1>2 DEF Lead
  <2>3. CASE Lead(q) # p
    BY <1>3, <1>4, <1>5, <2>1, <2>3 DEF Undoable
  <2>4. CASE Lead(q) = p
    <3>1. backup[q] = Nothing <=> backup[p] = Nothing
      BY <2>1, <2>4 DEF Undoable
    <3>2. disk'[q] = IF backup[p] # Nothing THEN backup[q]
                     ELSE IF p \in cmd.active THEN Nothing ELSE disk[q]
      BY <1>3, <1>5, <2>4
    <3>3. disk'[q] = cmd.before[q] /\ (backup[q] = cmd.before[q] \/ p \notin cmd.active)
      BY <1>4, <2>1, <2>4, <3>1, <3>2 DEF Undoable
    <3>4. PutBack(q)' /\ ~PutBack(q)
      BY <1>4, <2>4
    <3> QED
      BY <1>4, <2>1, <2>4, <3>1, <3>3, <3>4 DEF Undoable
  <2> QED
    BY <2>3, <2>4
<1> QED
  BY <1>6 DEF AllUndoable

LEMMA UndoStep ==
  ASSUME Good, Undo
  PROVE  Good'
<1>1. AtUndo /\ pc = "undo" /\ cmd.i <= Len(Undoing) /\ cmd \in Command /\ Converts
  BY DEF Undo, Good, Working, Typed, AtUndo
<1> DEFINE p == Undoing[cmd.i]
<1>2. UNCHANGED <<where, log, freeze, stage, backup, tar, papers, clients>>
  BY DEF Undo, aside
<1>3. CASE /\ p \in cmd.active \/ backup[p] = Nothing \/ disk[p] = Nothing
           /\ disk' = Restored(p) /\ Advance
  <2>1. /\ pc' = pc /\ cmd' \in Command /\ cmd'.i = cmd.i + 1 /\ cmd'.kind = cmd.kind
        /\ cmd'.read = cmd.read /\ cmd'.before = cmd.before /\ cmd'.frozen = cmd.frozen
        /\ cmd'.base = cmd.base /\ cmd'.active = cmd.active /\ cmd'.hurt = cmd.hurt
    BY <1>1, <1>3, Advances
  <2>2. /\ disk' \in Board
        /\ \A q \in Part : disk'[q] \in {disk[q], backup[q], Nothing}
    BY <1>3, MovedParts, BareBoard DEF Restored, Good, Typed
  <2>3. disk'["tasks"] \in {cmd.before["tasks"], Nothing, New(cmd.read)}
    BY <1>1, <2>2 DEF AtUndo, Part
  <2>4. disk'["source"] \in {cmd.before["source"], Nothing}
    BY <1>1, <2>2 DEF AtUndo, Part
  <2>5. cmd.before["tasks"].form = "old"
    BY <1>1, LegacyParts DEF Converts
  <2>6. Typed' /\ Lasting' /\ Tree' = Tree
    BY <1>1, <1>2, <2>1, <2>2, <2>3, <2>4, <2>5, Moves
       DEF papers, clients, Good, Typed, Converts, Readable, Mixed, Held, New, Nothing
  <2>7. cmd'.i \in 1..5
    <3>1. Len(Undoing) \in {3, 4}
      BY UndoingParts
    <3>2. cmd.i \in 1..5 /\ cmd.i <= Len(Undoing)
      BY <1>1 DEF AtUndo
    <3>3. \A n \in {3, 4} : Len(Undoing) = n => cmd.i <= n
      BY <3>2
    <3>4. cmd.i \in 1..4
      BY <3>1, <3>2, <3>3
    <3> QED
      BY <2>1, <3>4
  <2>8. AllUndoable => AllUndoable'
    BY <1>1, <1>2, <1>3, <2>1, PutsBack
  <2>9. AtUndo'
    BY <1>1, <1>2, <2>1, <2>3, <2>4, <2>6, <2>7, <2>8 DEF AtUndo, Converts, clients
  <2> QED
    BY <1>1, <2>1, <2>6, <2>9 DEF Good, Working
<1>4. CASE /\ pc' = "finally" /\ cmd' = [cmd EXCEPT !.end = "broken", !.hurt = TRUE]
           /\ UNCHANGED disk
  <2>1. cmd' = [kind |-> cmd.kind, read |-> cmd.read, before |-> cmd.before, frozen |-> cmd.frozen,
                base |-> cmd.base, i |-> cmd.i, active |-> cmd.active, end |-> "broken", hurt |-> TRUE]
    BY <1>1, <1>4, NewEnd, Zenon
  <2>2. cmd' \in Command
    BY <1>1, <2>1 DEF Command
  <2>3. Typed' /\ Lasting' /\ Tree' = Tree
    BY <1>2, <1>4, <2>2, Quiet DEF papers, clients, Good, Typed, Lasting, FrozenNative
  <2>4. AtFinally'
    BY <1>1, <1>2, <1>4, <2>1, <2>3 DEF AtFinally, Converts, clients
  <2> QED
    BY <1>4, <2>3, <2>4 DEF Good, Working
<1> QED
  BY <1>3, <1>4 DEF Undo

LEMMA UndoneStep ==
  ASSUME Good, Undone
  PROVE  Good'
<1>1. AtUndo /\ cmd.i > Len(Undoing) /\ cmd \in Command /\ Converts
  BY DEF Undone, Good, Working, Typed, AtUndo
<1>2. /\ pc' = "finally" /\ cmd' \in Command /\ cmd'.end = "error" /\ cmd'.kind = cmd.kind
      /\ cmd'.read = cmd.read /\ cmd'.before = cmd.before /\ cmd'.frozen = cmd.frozen
      /\ cmd'.base = cmd.base /\ cmd'.hurt = cmd.hurt
  BY <1>1 DEF Undone, Command
<1>3. UNCHANGED <<board, stage, backup, tar, papers, clients>>
  BY DEF Undone, aside
<1>4. Typed' /\ Lasting' /\ Tree' = Tree
  BY <1>2, <1>3, Quiet DEF board, papers, clients, Good, Typed, Lasting, FrozenNative
<1>5. AllUndoable => disk = cmd.before
  <2>1. \A p \in Part : PutBack(p)
    BY <1>1, UndoingParts DEF PutBack, Lead, Turn, Part, AtUndo, Good, Typed
  <2>2. AllUndoable => Same(disk, cmd.before)
    BY <2>1 DEF AllUndoable, Undoable, Same
  <2> QED
    BY <2>2, BoardEqual DEF Good, Typed, Command
<1>6. AtFinally'
  BY <1>1, <1>2, <1>3, <1>4, <1>5 DEF AtFinally, AtUndo, Converts, board, clients
<1> QED
  BY <1>2, <1>4, <1>6 DEF Good, Working

LEMMA FinallyStep ==
  ASSUME Good, Finally
  PROVE  Good'
<1>1. AtFinally /\ pc = "finally"
  BY DEF Finally, Good, Working
<1>2. Typed' /\ Lasting'
  BY <1>1, Quiet, BareBoard DEF Finally, papers, clients, Good, Typed, AtFinally, Converts,
     Lasting, FrozenNative
<1>3. AtRest'
  BY <1>1, LegacyParts DEF AtRest, Finally, AtFinally, Converts, Sound
<1> QED
  BY <1>2, <1>3 DEF Finally, Good, Working

(***************************************************************************)
(* The compatibility window and the immediate rollback.                    *)
(***************************************************************************)

LEMMA AcceptStep ==
  ASSUME Good, Accept
  PROVE  Good'
<1>1. acceptance' \in Paper
  <2>1. disk["config"].data \in Nat
    BY DEF Good, Typed, Board, Content, Part
  <2>2. Len(log) \in Nat
    BY DEF Good, Typed
  <2>3. Held(disk) \in Nat
    BY HeldNumber DEF Good, Typed
  <2> QED
    BY <2>1, <2>2, <2>3 DEF Accept, Paper
<1>2. Typed' /\ Lasting'
  BY <1>1, Quiet DEF Accept, board, aside, clients, Good, Typed, Lasting, FrozenNative
<1>3. pc' = "idle" /\ AtRest'
  BY DEF Accept, board, AtRest, Good, Working
<1> QED
  BY <1>2, <1>3 DEF Good, Working

LEMMA LiftStep ==
  ASSUME Good, Lift
  PROVE  Good'
<1>1. /\ pc' = "lift" /\ cmd' \in Command /\ cmd'.kind = "lift" /\ cmd'.before = disk
      /\ cmd'.hurt = cmd.hurt /\ pc = "idle"
  BY Started, HeldNumber DEF Lift, Good, Typed
<1>2. Typed' /\ Lasting'
  BY <1>1, Quiet DEF Lift, board, aside, papers, clients, Good, Typed, Lasting, FrozenNative
<1>3. AtLift'
  BY <1>1 DEF Lift, Accepted, AtLift, AtRest, board, papers, Good, Working
<1> QED
  BY <1>1, <1>2, <1>3 DEF Good, Working

LEMMA SaveLiftedStep ==
  ASSUME Good, SaveLifted
  PROVE  Good'
<1>1. AtLift /\ pc = "lift" /\ disk \in Board
  BY DEF SaveLifted, Good, Working, Typed
<1>2. pc' = "idle" /\ cmd' \in Command /\ cmd'.hurt = cmd.hurt
  BY Ended DEF SaveLifted, Good, Typed
<1>3. /\ disk' \in Board /\ \A p \in Part \ {"config"} : disk'[p] = disk[p]
      /\ disk'["config"].form = "lifted"
  BY <1>1 DEF SaveLifted, Board, Content, Part
<1>4. UNCHANGED <<where, log, freeze, stage, backup, tar, papers, clients>>
  BY DEF SaveLifted, aside
<1>5. /\ Readable(disk') <=> Readable(disk)
      /\ Mixed(disk') <=> Mixed(disk)
      /\ Held(disk') = Held(disk)
  BY <1>3 DEF Readable, Mixed, Held, Part
<1>6. disk'["source"] = disk["source"]
  BY <1>3 DEF Part
<1>7. Typed' /\ Lasting'
  BY <1>2, <1>3, <1>4, <1>5, <1>6, Moves DEF papers, clients, Good, Typed, Lasting, Truth
<1>8. ASSUME freeze = {}, ~cmd.hurt
      PROVE  Sound(disk')
  <2>1. Sound(disk)
    BY <1>1, <1>8 DEF AtLift, AtRest
  <2>2. CASE Native(disk)
    BY <1>3, <2>2 DEF Native, Sound, Whole, Part
  <2>3. CASE Legacy(disk)
    BY <1>1, <2>3, LegacyParts DEF AtLift
  <2>4. CASE Mixed(disk)
    BY <1>5, <2>4 DEF Sound
  <2> QED
    BY <2>1, <2>2, <2>3, <2>4 DEF Sound, Whole
<1>9. AtRest'
  BY <1>2, <1>4, <1>8 DEF AtRest
<1> QED
  BY <1>2, <1>7, <1>9 DEF Good, Working

LEMMA RollBackNowStep ==
  ASSUME Good, RollBackNow
  PROVE  Good'
<1>1. /\ pc' = "revert" /\ cmd' \in Command /\ cmd'.kind = "immediate" /\ cmd'.before = disk
      /\ cmd'.base = Len(log)
  BY Started DEF RollBackNow, Good, Typed, Paper
<1>2. Typed' /\ Lasting'
  BY <1>1, Quiet DEF RollBackNow, board, aside, papers, clients, Good, Typed, Lasting, FrozenNative
<1>3. Sound(disk)
  BY HeadWholeNow DEF RollBackNow, Clean, Sound
<1>4. AtRevert'
  BY <1>1, <1>3 DEF RollBackNow, Clean, AtRevert, Tidy, board, aside, papers
<1> QED
  BY <1>1, <1>2, <1>4 DEF Good, Working

LEMMA RevertStep ==
  ASSUME Good, Revert
  PROVE  Good'
<1>1. AtRevert /\ cmd \in Command /\ disk \in Board
  BY DEF Revert, Good, Working, Typed
<1> DEFINE before == log[receipt.commit - 1].tree
<1>2. /\ before \in Board /\ Legacy(before) /\ before["source"].data = receipt.data
      /\ Held(Tree) = receipt.data /\ receipt.data <= acked /\ receipt.data \in Nat
  <2>1. receipt.commit \in 2..Len(log)
    BY <1>1 DEF AtRevert, Good, Lasting, Receipted
  <2>2. receipt.commit - 1 \in 1..Len(log)
    BY <2>1 DEF Good, Typed
  <2>3. before \in Board
    BY <2>2, TreeBoard DEF Good
  <2> QED
    BY <1>1, <2>3 DEF AtRevert, Good, Lasting, Receipted, Tree, Typed, Paper
<1>3. UNCHANGED <<where, freeze, stage, backup, tar, papers, clients>>
  BY DEF Revert, aside
<1>4. Readable(disk) /\ Held(disk) = acked
  BY <1>1, ReadsTruth DEF AtRevert
<1> HIDE DEF before
<1>5. CASE disk = Tree /\ disk' = before /\ Commit(before) /\ Goto("verify")
  <2>1. pc' = "verify" /\ cmd' \in Command /\ cmd'.kind = cmd.kind /\ cmd'.base = cmd.base
    BY <1>1, <1>5, GoesTo
  <2>2. Held(before) = acked /\ Readable(before) /\ Whole(before) /\ ~Mixed(before)
    BY <1>2, <1>4, <1>5, LegacyParts, WholeReadable
  <2>3. Typed' /\ Lasting' /\ Tree' = before /\ Len(log') = Len(log) + 1
    BY <1>1, <1>2, <1>3, <1>5, <2>1, <2>2, CommitsWhole DEF AtRevert, papers, clients
  <2>4. AtVerify'
    BY <1>1, <1>2, <1>3, <1>5, <2>1, <2>3 DEF AtRevert, AtVerify, Tidy, Good, Typed
  <2> QED
    BY <2>1, <2>3, <2>4 DEF Good, Working
<1>6. CASE /\ disk' = [before EXCEPT !["tasks"] = [form |-> "mixed", data |-> Held(disk) - receipt.data]]
           /\ Commit(before) /\ Goto("verify")
  <2>1. pc' = "verify" /\ cmd' \in Command /\ cmd'.kind = cmd.kind /\ cmd'.base = cmd.base
    BY <1>1, <1>6, GoesTo
  <2>2. acked \in Nat /\ acked - receipt.data \in Nat
    BY <1>2 DEF Good, Typed
  <2>3. /\ disk'["tasks"] = [form |-> "mixed", data |-> acked - receipt.data]
        /\ disk'["source"] = before["source"] /\ disk' \in Board
    BY <1>2, <1>4, <1>6, <2>2 DEF Board, Content, Part
  <2>4. before["source"].form = "old" /\ Whole(before)
    BY <1>2, LegacyParts
  <2>5. Readable(disk') /\ Held(disk') = acked /\ Mixed(disk')
    BY <1>2, <2>2, <2>3, <2>4 DEF Readable, Held, Mixed
  <2>6. Typed' /\ Lasting' /\ Len(log') = Len(log) + 1
    BY <1>1, <1>2, <1>3, <1>6, <2>1, <2>3, <2>4, <2>5, CommitsWhole DEF AtRevert, papers, clients
  <2>7. AtVerify'
    BY <1>1, <1>3, <2>1, <2>5, <2>6 DEF AtRevert, AtVerify, Tidy, Good, Typed
  <2> QED
    BY <2>1, <2>6, <2>7 DEF Good, Working
<1>7. CASE End("refused") /\ UNCHANGED <<disk, log>>
  <2>1. pc' = "idle" /\ cmd' \in Command
    BY <1>1, <1>7, Ended
  <2>2. Typed' /\ Lasting'
    BY <1>3, <1>7, <2>1, Quiet DEF papers, clients, Good, Typed, Lasting, FrozenNative
  <2>3. AtRest'
    BY <1>1, <1>7 DEF AtRest, AtRevert
  <2> QED
    BY <2>1, <2>2, <2>3 DEF Good, Working
<1> QED
  BY <1>5, <1>6, <1>7 DEF Revert, before

LEMMA VerifyStep ==
  ASSUME Good, Verify
  PROVE  Good'
<1>1. AtVerify /\ pc = "verify"
  BY DEF Verify, Good, Working
<1>2. pc' = "idle" /\ cmd' \in Command
  BY Ended DEF Verify, Good, Typed
<1>3. Typed' /\ Lasting'
  BY <1>2, Quiet DEF Verify, board, aside, papers, clients, Good, Typed, Lasting, FrozenNative
<1>4. AtRest'
  BY <1>1 DEF AtRest, AtVerify, Sound, Whole, Verify, board
<1> QED
  BY <1>2, <1>3, <1>4 DEF Good, Working

(***************************************************************************)
(* The post-write rollback.                                                *)
(***************************************************************************)

LEMMA RollBackStep ==
  ASSUME Good, RollBack
  PROVE  Good'
<1>1. /\ pc' = "pw-freeze" /\ cmd' \in Command /\ cmd'.kind = "rollback" /\ cmd'.before = disk
      /\ cmd'.read = Held(disk) /\ cmd'.base = Len(log)
  BY Started, HeldNumber DEF RollBack, Good, Typed
<1>2. Typed' /\ Lasting' /\ Tree' = Tree
  BY <1>1, Quiet DEF RollBack, board, aside, papers, clients, Good, Typed, Lasting, FrozenNative
<1>3. AtRollbackFreeze'
  BY <1>1, <1>2 DEF RollBack, Clean, AtRollbackFreeze, Rolls, Tidy, board, aside
<1> QED
  BY <1>1, <1>2, <1>3 DEF Good, Working

LEMMA RollbackFreezeStep ==
  ASSUME Good, RollbackFreeze
  PROVE  Good'
<1>1. AtRollbackFreeze /\ pc = "pw-freeze"
  BY DEF RollbackFreeze, Good, Working
<1>2. /\ pc' = "export" /\ cmd' \in Command /\ cmd'.kind = cmd.kind
      /\ cmd'.read = cmd.read /\ cmd'.before = cmd.before /\ cmd'.base = cmd.base
  BY GoesTo DEF RollbackFreeze, Good, Typed
<1>3. freeze' = {"rollback"} /\ UNCHANGED <<disk, where, log, stage, backup, tar, papers, clients>>
  BY <1>1 DEF RollbackFreeze, AtRollbackFreeze, aside
<1>4. Typed' /\ Lasting' /\ Tree' = Tree
  BY <1>1, <1>2, <1>3, Quiet DEF AtRollbackFreeze, Rolls, papers, clients, Good, Typed, Freeze
<1>5. AtExport'
  BY <1>1, <1>2, <1>3, <1>4 DEF AtRollbackFreeze, AtExport, Rolls, Tidy
<1> QED
  BY <1>2, <1>4, <1>5 DEF Good, Working

LEMMA ExportStep ==
  ASSUME Good, Export
  PROVE  Good'
<1>1. AtExport /\ pc = "export"
  BY DEF Export, Good, Working
<1>2. UNCHANGED <<disk, where, log, freeze, stage, backup, tar, papers, clients>>
  BY DEF Export, aside, board
<1>3. CASE Held(disk) = cmd.read /\ Goto("tar")
  <2>1. /\ pc' = "tar" /\ cmd' \in Command /\ cmd'.kind = cmd.kind
        /\ cmd'.read = cmd.read /\ cmd'.before = cmd.before /\ cmd'.base = cmd.base
    BY <1>3, GoesTo DEF Good, Typed
  <2>2. Typed' /\ Lasting' /\ Tree' = Tree
    BY <1>2, <2>1, Quiet DEF papers, clients, Good, Typed, Lasting, FrozenNative
  <2>3. Held(disk) = acked
    BY <1>1, NativeParts, ReadsTruth DEF AtExport, Rolls, Sound
  <2>4. AtArchive'
    BY <1>1, <1>2, <1>3, <2>1, <2>2, <2>3 DEF AtExport, AtArchive, Exported, Rolls, Tidy, clients
  <2> QED
    BY <2>1, <2>2, <2>4 DEF Good, Working
<1>4. CASE End("error")
  <2>1. pc' = "idle" /\ cmd' \in Command
    BY <1>4, Ended DEF Good, Typed
  <2>2. Typed' /\ Lasting'
    BY <1>2, <2>1, Quiet DEF papers, clients, Good, Typed, Lasting, FrozenNative
  <2>3. AtRest'
    BY <1>1, <1>2 DEF AtRest, AtExport
  <2> QED
    BY <2>1, <2>2, <2>3 DEF Good, Working
<1> QED
  BY <1>3, <1>4 DEF Export, SameState

LEMMA ArchiveStep ==
  ASSUME Good, Archive
  PROVE  Good'
<1>1. AtArchive /\ pc = "tar"
  BY DEF Archive, Good, Working
<1>2. /\ pc' = "clear" /\ cmd' \in Command /\ cmd'.kind = cmd.kind /\ cmd'.i = 1
      /\ cmd'.read = cmd.read /\ cmd'.before = cmd.before /\ cmd'.base = cmd.base
  BY GoesTo DEF Archive, Good, Typed
<1>3. UNCHANGED <<disk, where, log, freeze, stage, backup, papers, clients>>
  BY DEF Archive, board
<1>4. disk["source"] = Nothing
  BY <1>1, NativeParts DEF AtArchive, Exported, Rolls
<1>5. tar' \in Board /\ Same(tar', disk)
  BY <1>4, MovedParts, BareBoard DEF Archive, Same, Good, Typed
<1>6. Typed' /\ Lasting' /\ Tree' = Tree
  BY <1>2, <1>3, <1>5, Moves DEF papers, clients, Good, Typed, Lasting, Truth
<1>7. AtClear'
  BY <1>1, <1>2, <1>3, <1>4, <1>5, <1>6
     DEF AtArchive, AtClear, Archived, Exported, Rolls, Tidy, Same, clients
<1> QED
  BY <1>2, <1>6, <1>7 DEF Good, Working

LEMMA ClearStep ==
  ASSUME Good, Clear
  PROVE  Good'
<1>1. AtClear /\ pc = "clear" /\ cmd.i \in 1..3
  BY DEF Clear, Good, Working, AtClear
<1>2. /\ Clearing[1] = "tasks" /\ Clearing[2] = "ledger" /\ Clearing[3] = "archive"
      /\ Len(Clearing) = 3
  BY DEF Clearing
<1> DEFINE parts == {Clearing[cmd.i]} \cup (IF cmd.i = 1 THEN {"config"} ELSE {})
<1>3. disk' \in Board /\ \A p \in Part : disk'[p] = IF p \in parts THEN Nothing ELSE disk[p]
  BY MovedParts, BareBoard DEF Clear, Good, Typed
<1>4. /\ cmd.i = 1 => parts = {"tasks", "config"}
      /\ cmd.i = 2 => parts = {"ledger"}
      /\ cmd.i = 3 => parts = {"archive"}
  BY <1>2
<1> HIDE DEF parts
<1>5. /\ disk'["source"] = Nothing /\ disk'["tasks"] = Nothing /\ disk'["config"] = Nothing
      /\ cmd.i >= 2 => disk'["ledger"] = Nothing
      /\ cmd.i = 3 => disk'["archive"] = Nothing
  <2>1. CASE cmd.i = 1
    BY <1>1, <1>3, <1>4, <2>1 DEF AtClear, Part
  <2>2. CASE cmd.i = 2
    BY <1>1, <1>3, <1>4, <2>2 DEF AtClear, Part
  <2>3. CASE cmd.i = 3
    BY <1>1, <1>3, <1>4, <2>3 DEF AtClear, Part
  <2> QED
    BY <1>1, <2>1, <2>2, <2>3
<1>6. UNCHANGED <<where, log, freeze, stage, backup, tar, papers, clients>>
  BY DEF Clear, aside
<1>7. ~Readable(disk') /\ ~Mixed(disk') /\ Held(Tree) = acked
  BY <1>1, <1>5 DEF Readable, Mixed, Nothing, AtClear, Archived, Exported, Rolls
<1>8. CASE cmd.i < 3
  <2>1. /\ pc' = pc /\ cmd' \in Command /\ cmd'.kind = cmd.kind /\ cmd'.i = cmd.i + 1
        /\ cmd'.read = cmd.read /\ cmd'.before = cmd.before /\ cmd'.base = cmd.base
    BY <1>2, <1>8, Advances DEF Clear, Good, Typed
  <2>2. Typed' /\ Lasting' /\ Tree' = Tree
    BY <1>3, <1>6, <1>7, <2>1, Moves DEF papers, clients, Good, Typed
  <2>3. AtClear'
    BY <1>1, <1>5, <1>6, <1>8, <2>1, <2>2
       DEF AtClear, Archived, Exported, Rolls, Tidy, Same, clients
  <2> QED
    BY <1>1, <2>1, <2>2, <2>3 DEF Good, Working
<1>9. CASE cmd.i = 3
  <2>1. /\ pc' = "fill" /\ cmd' \in Command /\ cmd'.kind = cmd.kind
        /\ cmd'.read = cmd.read /\ cmd'.before = cmd.before /\ cmd'.base = cmd.base
    BY <1>2, <1>9, GoesTo DEF Clear, Good, Typed
  <2>2. Typed' /\ Lasting' /\ Tree' = Tree
    BY <1>3, <1>6, <1>7, <2>1, Moves DEF papers, clients, Good, Typed
  <2>3. Same(disk', Bare)
    BY <1>5, <1>9, BareBoard DEF Same, Part
  <2>4. AtFill'
    BY <1>1, <1>6, <2>1, <2>2, <2>3
       DEF AtClear, AtFill, Archived, Exported, Rolls, Tidy, Same, clients
  <2> QED
    BY <2>1, <2>2, <2>4 DEF Good, Working
<1> QED
  BY <1>1, <1>8, <1>9

LEMMA FillStep ==
  ASSUME Good, Fill
  PROVE  Good'
<1>1. AtFill /\ pc = "fill" /\ disk \in Board
  BY DEF Fill, Good, Working, Typed
<1>2. /\ pc' = "probe" /\ cmd' \in Command /\ cmd'.kind = cmd.kind
      /\ cmd'.read = cmd.read /\ cmd'.before = cmd.before /\ cmd'.base = cmd.base
  BY GoesTo DEF Fill, Good, Typed
<1>3. UNCHANGED <<log, freeze, stage, backup, tar, papers, clients>> /\ where' = "tree"
  BY DEF Fill, aside
<1>4. \A p \in Part : disk[p] = Nothing
  BY <1>1, BareBoard DEF AtFill, Same
<1>5. cmd.read \in Nat
  BY DEF Good, Typed, Command
<1>6. /\ disk' \in Board /\ disk'["source"] = Old(cmd.read) /\ disk'["config"] = Old(0)
      /\ disk'["tasks"] = Old(0) /\ disk'["ledger"] = Nothing /\ disk'["archive"] = Nothing
  BY <1>1, <1>4, <1>5 DEF Fill, Board, Content, Part, Old, Nothing
<1>7. Legacy(disk')
  BY <1>6 DEF Legacy, Part, Old, Nothing
<1>8. Held(disk') = acked /\ Readable(disk') /\ ~Mixed(disk') /\ disk'["source"].data = cmd.read
  BY <1>1, <1>6, <1>7, LegacyParts, WholeReadable DEF AtFill, Archived, Exported, Old
<1>9. Typed' /\ Lasting' /\ Tree' = Tree
  BY <1>2, <1>3, <1>6, <1>8, Moves DEF papers, clients, Good, Typed
<1>10. AtProbe'
  BY <1>1, <1>2, <1>3, <1>7, <1>8, <1>9
     DEF AtFill, AtProbe, Back, Archived, Exported, Rolls, Tidy, Same, clients
<1> QED
  BY <1>2, <1>9, <1>10 DEF Good, Working

LEMMA ProbeStep ==
  ASSUME Good, Probe
  PROVE  Good'
<1>1. AtProbe /\ pc = "probe"
  BY DEF Probe, Good, Working
<1>2. /\ pc' = "pw-commit" /\ cmd' \in Command /\ cmd'.kind = cmd.kind
      /\ cmd'.read = cmd.read /\ cmd'.before = cmd.before /\ cmd'.base = cmd.base
  BY GoesTo DEF Probe, Good, Typed
<1>3. freeze' = {} /\ UNCHANGED <<disk, where, log, stage, backup, tar, papers, clients>>
  BY <1>1 DEF Probe, AtProbe, aside
<1>4. Typed' /\ Lasting' /\ Tree' = Tree
  BY <1>2, <1>3, Quiet DEF papers, clients, Good, Typed
<1>5. AtRollbackCommit'
  BY <1>1, <1>2, <1>3, <1>4
     DEF AtProbe, AtRollbackCommit, Back, Archived, Exported, Rolls, Tidy, Same, clients
<1> QED
  BY <1>2, <1>4, <1>5 DEF Good, Working

LEMMA RollbackCommitStep ==
  ASSUME Good, RollbackCommit
  PROVE  Good'
<1>1. AtRollbackCommit /\ pc = "pw-commit"
  BY DEF RollbackCommit, Good, Working
<1>2. pc' = "pw-report" /\ cmd' \in Command /\ cmd'.kind = cmd.kind /\ cmd'.base = cmd.base
  BY GoesTo DEF RollbackCommit, Good, Typed
<1>3. Commit(disk) /\ UNCHANGED <<disk, where, freeze, stage, backup, tar, papers, clients>>
  BY DEF RollbackCommit, aside
<1>4. Readable(disk) /\ Held(disk) = acked /\ Whole(disk) /\ ~Mixed(disk)
  BY <1>1, LegacyParts, ReadsTruth, WholeReadable DEF AtRollbackCommit, Back, Sound
<1>5. Typed' /\ Lasting' /\ Tree' = disk /\ Len(log') = Len(log) + 1
  BY <1>1, <1>2, <1>3, <1>4, CommitsWhole DEF AtRollbackCommit, papers, clients, Good, Typed
<1>6. AtRollbackReport'
  BY <1>1, <1>2, <1>3, <1>5
     DEF AtRollbackCommit, AtRollbackReport, Back, Archived, Exported, Rolls, Tidy
<1> QED
  BY <1>2, <1>5, <1>6 DEF Good, Working

LEMMA RollbackReportStep ==
  ASSUME Good, RollbackReport
  PROVE  Good'
<1>1. AtRollbackReport /\ pc = "pw-report"
  BY DEF RollbackReport, Good, Working
<1>2. pc' = "idle" /\ cmd' \in Command
  BY Ended DEF RollbackReport, Good, Typed
<1>3. Typed' /\ Lasting'
  BY <1>2, Quiet DEF RollbackReport, board, aside, papers, clients, Good, Typed, Lasting, FrozenNative
<1>4. AtRest'
  BY <1>1 DEF AtRest, AtRollbackReport, Sound, Whole, RollbackReport, board
<1> QED
  BY <1>2, <1>3, <1>4 DEF Good, Working

\* The board of before comes back from the archive, directory by directory.
LEMMA UnpackStep ==
  ASSUME Good, Unpack
  PROVE  Good'
<1>1. AtUnpack /\ pc = "unpack" /\ cmd.i \in 1..4 /\ where = "tree"
  BY DEF Unpack, Good, Working, AtUnpack
<1>2. UNCHANGED <<where, log, freeze, stage, backup, tar, papers, clients>>
  BY DEF Unpack, aside
<1>3. /\ Native(cmd.before) /\ Held(cmd.before) = acked /\ Held(Tree) = acked
      /\ \A p \in Part : tar[p] = cmd.before[p]
  BY <1>1 DEF AtUnpack, Archived, Exported, Rolls, Same
<1>4. /\ cmd.before["tasks"].form = "new" /\ cmd.before["tasks"].data = acked
      /\ cmd.before["source"] = Nothing
  BY <1>3, NativeParts
<1>5. CASE cmd.i = 1 /\ disk' = Bare /\ Advance
  <2>1. /\ pc' = pc /\ cmd' \in Command /\ cmd'.kind = cmd.kind /\ cmd'.i = 2
        /\ cmd'.read = cmd.read /\ cmd'.before = cmd.before /\ cmd'.base = cmd.base
    BY <1>5, Advances DEF Good, Typed
  <2>2. disk' \in Board /\ disk'["tasks"] = Nothing /\ disk'["source"] = Nothing
    BY <1>5, BareBoard DEF Part
  <2>3. Typed' /\ Lasting' /\ Tree' = Tree
    BY <1>2, <1>3, <2>1, <2>2, Moves DEF papers, clients, Good, Typed, Readable, Mixed, Nothing
  <2>4. AtUnpack'
    BY <1>1, <1>2, <2>1, <2>2, <2>3 DEF AtUnpack, Archived, Exported, Rolls, Tidy, Same, clients
  <2> QED
    BY <1>1, <2>1, <2>3, <2>4 DEF Good, Working
<1>6. CASE cmd.i > 1
  <2>1. /\ Clearing[1] = "tasks" /\ Clearing[2] = "ledger" /\ Clearing[3] = "archive"
        /\ Len(Clearing) = 3
    BY DEF Clearing
  <2> DEFINE parts == Dir(Clearing[cmd.i - 1])
  <2>2. disk' \in Board /\ \A p \in Part : disk'[p] = IF p \in parts THEN cmd.before[p] ELSE disk[p]
    BY <1>3, <1>6, MovedParts DEF Unpack, Good, Typed
  <2>3. /\ cmd.i = 2 => parts = {"tasks", "config", "source"}
        /\ cmd.i = 3 => parts = {"ledger"}
        /\ cmd.i = 4 => parts = {"archive"}
    BY <1>1, <2>1 DEF Dir
  <2> HIDE DEF parts
  <2>4. /\ disk'["source"] = Nothing /\ disk'["tasks"] = cmd.before["tasks"]
        /\ disk'["config"] = cmd.before["config"]
        /\ cmd.i > 2 => disk'["ledger"] = cmd.before["ledger"]
        /\ cmd.i > 3 => disk'["archive"] = cmd.before["archive"]
    <3>1. CASE cmd.i = 2
      BY <1>1, <1>4, <2>2, <2>3, <3>1 DEF AtUnpack, Part
    <3>2. CASE cmd.i = 3
      BY <1>1, <1>4, <2>2, <2>3, <3>2 DEF AtUnpack, Part
    <3>3. CASE cmd.i = 4
      BY <1>1, <1>4, <2>2, <2>3, <3>3 DEF AtUnpack, Part
    <3> QED
      BY <1>1, <1>6, <3>1, <3>2, <3>3
  <2>5. Readable(disk') /\ Held(disk') = acked /\ ~Mixed(disk')
    BY <1>4, <2>4 DEF Readable, Held, Mixed
  <2>6. CASE cmd.i < 4
    <3>1. /\ pc' = pc /\ cmd' \in Command /\ cmd'.kind = cmd.kind /\ cmd'.i = cmd.i + 1
          /\ cmd'.read = cmd.read /\ cmd'.before = cmd.before /\ cmd'.base = cmd.base
      BY <1>1, <1>6, <2>1, <2>6, Advances DEF Unpack, Good, Typed
    <3>2. Typed' /\ Lasting' /\ Tree' = Tree
      BY <1>2, <2>2, <2>5, <3>1, Moves DEF papers, clients, Good, Typed
    <3>3. AtUnpack'
      BY <1>1, <1>2, <1>6, <2>4, <2>6, <3>1, <3>2
         DEF AtUnpack, Archived, Exported, Rolls, Tidy, Same, clients
    <3> QED
      BY <1>1, <3>1, <3>2, <3>3 DEF Good, Working
  <2>7. CASE cmd.i = 4
    <3>1. pc' = "idle" /\ cmd' \in Command
      BY <1>6, <2>1, <2>7, Ended DEF Unpack, Good, Typed
    <3>2. Typed' /\ Lasting'
      BY <1>2, <2>2, <2>5, <3>1, Moves DEF papers, clients, Good, Typed
    <3>3. disk' = cmd.before
      <4>1. Same(disk', cmd.before)
        BY <1>4, <2>4, <2>7 DEF Same, Part
      <4> QED
        BY <2>2, <4>1, BoardEqual DEF Good, Typed, Command
    <3>4. AtRest'
      BY <1>3, <3>3 DEF AtRest, Sound, Whole
    <3> QED
      BY <3>1, <3>2, <3>4 DEF Good, Working
  <2> QED
    BY <1>1, <2>6, <2>7
<1> QED
  BY <1>5, <1>6 DEF Unpack

(***************************************************************************)
(* What goes wrong.                                                        *)
(***************************************************************************)

\* Only a command that is undoing something leaves an unsound board unfrozen.
LEMMA SoundUnlessFrozen ==
  ASSUME Good, pc \notin Undoes, freeze = {}, ~cmd.hurt
  PROVE  Sound(disk)
<1>1. pc \notin {"undo", "unpack"}
  BY DEF Undoes
<1>2. CASE pc \in {"idle", "lift", "revert"}
  BY <1>2 DEF Good, Working, AtRest, AtLift, AtRevert
<1>3. CASE pc \in {"freeze", "preflight"}
  BY <1>3 DEF Good, Working, AtFreeze, AtPreflight, Begun, Sound, Whole
<1>4. CASE pc \in {"prepare", "stage", "activate"}
  BY <1>4 DEF Good, Working, AtStage, AtActivate
<1>5. CASE pc \in {"commit", "report", "finish"}
  BY <1>5 DEF Good, Working, AtCommit, AtReport, Converted, Sound, Whole
<1>6. CASE pc = "finally"
  BY <1>6 DEF Good, Working, AtFinally, Converts, Sound, Whole
<1>7. CASE pc = "verify"
  BY <1>7 DEF Good, Working, AtVerify, Sound, Whole
<1>8. CASE pc = "pw-freeze"
  BY <1>8 DEF Good, Working, AtRollbackFreeze, Rolls, Sound, Whole
<1>9. CASE pc \in {"export", "tar", "clear", "fill", "probe"}
  BY <1>9 DEF Good, Working, AtExport, AtArchive, AtClear, AtFill, AtProbe
<1>10. CASE pc \in {"pw-commit", "pw-report"}
  BY <1>10 DEF Good, Working, AtRollbackCommit, AtRollbackReport, Back, Sound, Whole
<1> QED
  BY <1>1, <1>2, <1>3, <1>4, <1>5, <1>6, <1>7, <1>8, <1>9, <1>10 DEF Good, Working

LEMMA Stops ==
  ASSUME Good, pc' = "idle", cmd' \in Command, freeze = {} /\ ~cmd'.hurt => Sound(disk),
         UNCHANGED <<board, aside, papers, clients>>
  PROVE  Good'
<1>1. Typed' /\ Lasting'
  BY Quiet DEF board, aside, papers, clients, Good, Typed, Lasting, FrozenNative
<1>2. AtRest'
  BY DEF AtRest, board
<1> QED
  BY <1>1, <1>2 DEF Good, Working

\* An end in disorder changes the end and the hurt of the command.
LEMMA EndedInDisorder ==
  ASSUME Good, NEW how \in {"broken", "interrupted", "killed"}, NEW harm \in BOOLEAN,
         cmd' = [cmd EXCEPT !.end = how, !.hurt = harm]
  PROVE  /\ cmd' \in Command /\ cmd'.end = how /\ cmd'.hurt = harm
         /\ cmd'.kind = cmd.kind /\ cmd'.read = cmd.read /\ cmd'.before = cmd.before
         /\ cmd'.frozen = cmd.frozen /\ cmd'.base = cmd.base
<1>1. cmd \in Command
  BY DEF Good, Typed
<1>2. cmd' = [kind |-> cmd.kind, read |-> cmd.read, before |-> cmd.before, frozen |-> cmd.frozen,
              base |-> cmd.base, i |-> cmd.i, active |-> cmd.active, end |-> how, hurt |-> harm]
  BY <1>1, NewEnd, Zenon
<1> QED
  BY <1>1, <1>2 DEF Command

LEMMA ErrorStep ==
  ASSUME Good, Error
  PROVE  Good'
<1>1. UNCHANGED <<disk, where, log, aside, papers, clients>> /\ cmd \in Command
  BY DEF Error, Good, Typed
<1>2. CASE pc \in Trying /\ Goto("undo") /\ UNCHANGED freeze
  BY <1>1, <1>2, GoesTo, UndoBegins DEF Trying, aside, Good, Typed
<1>3. CASE pc = "preflight" /\ End("error") /\ freeze' = freeze \ {"conversion"}
  <2>1. pc' = "idle" /\ cmd' \in Command /\ AtPreflight
    BY <1>1, <1>3, Ended DEF Good, Working
  <2>2. freeze' = {} /\ Sound(disk)
    BY <1>3, <2>1 DEF AtPreflight, Begun, Sound, Whole
  <2>3. Typed' /\ Lasting'
    BY <1>1, <2>1, <2>2, Quiet DEF aside, papers, clients, Good, Typed
  <2>4. AtRest'
    BY <1>1, <2>2 DEF AtRest
  <2> QED
    BY <2>1, <2>3, <2>4 DEF Good, Working
<1>4. CASE pc \in Guarded /\ Goto("unpack") /\ UNCHANGED freeze
  <2>1. /\ pc' = "unpack" /\ cmd' \in Command /\ cmd'.kind = cmd.kind /\ cmd'.i = 1
        /\ cmd'.read = cmd.read /\ cmd'.before = cmd.before /\ cmd'.base = cmd.base
    BY <1>1, <1>4, GoesTo
  <2>2. Archived /\ where = "tree" /\ freeze \subseteq {"rollback"}
    BY <1>4 DEF Guarded, Good, Working, AtProbe, AtRollbackCommit, Back
  <2>3. Typed' /\ Lasting' /\ Tree' = Tree
    BY <1>1, <1>4, <2>1, Quiet DEF aside, papers, clients, Good, Typed, Lasting, FrozenNative
  <2>4. AtUnpack'
    BY <1>1, <1>4, <2>1, <2>2, <2>3
       DEF AtUnpack, Archived, Exported, Rolls, Tidy, Same, aside, clients
  <2> QED
    BY <2>1, <2>3, <2>4 DEF Good, Working
<1>5. CASE pc \in Plain \cup Exposed /\ End("error") /\ UNCHANGED freeze
  <2>1. pc' = "idle" /\ cmd' \in Command /\ cmd'.hurt = cmd.hurt
    BY <1>1, <1>5, Ended
  <2>2. freeze = {} /\ ~cmd.hurt => Sound(disk)
    BY <1>5, SoundUnlessFrozen DEF Plain, Exposed, Undoes
  <2> QED
    BY <1>1, <1>5, <2>1, <2>2, Stops DEF board
<1> QED
  BY <1>2, <1>3, <1>4, <1>5 DEF Error

LEMMA UndoErrorStep ==
  ASSUME Good, UndoError
  PROVE  Good'
<1>1. UNCHANGED <<board, aside, papers, clients>> /\ pc \in {"undo", "unpack"}
  BY DEF UndoError, Undoes
<1>2. /\ cmd' \in Command /\ cmd'.end = "broken" /\ cmd'.hurt = TRUE
      /\ cmd'.kind = cmd.kind /\ cmd'.read = cmd.read /\ cmd'.before = cmd.before
      /\ cmd'.frozen = cmd.frozen /\ cmd'.base = cmd.base
  BY EndedInDisorder DEF UndoError
<1>3. CASE pc = "undo"
  <2>1. pc' = "finally" /\ Converts
    BY <1>3 DEF UndoError, Good, Working, AtUndo
  <2>2. Typed' /\ Lasting' /\ Tree' = Tree
    BY <1>1, <1>2, Quiet DEF board, aside, papers, clients, Good, Typed, Lasting, FrozenNative
  <2>3. AtFinally'
    BY <1>1, <1>2, <2>1, <2>2 DEF AtFinally, Converts, board, clients
  <2> QED
    BY <2>1, <2>2, <2>3 DEF Good, Working
<1>4. CASE pc = "unpack"
  <2>1. pc' = "idle"
    BY <1>4 DEF UndoError
  <2> QED
    BY <1>1, <1>2, <2>1, Stops
<1> QED
  BY <1>1, <1>3, <1>4

LEMMA InterruptStep ==
  ASSUME Good, Interrupt
  PROVE  Good'
<1> DEFINE harm == cmd.hurt \/ pc \in Trying \cup Undoes \cup {"finally"}
<1>1. UNCHANGED <<board, aside, papers, clients>>
  BY DEF Interrupt
<1>2. harm \in BOOLEAN /\ cmd' = [cmd EXCEPT !.end = "interrupted", !.hurt = harm]
  BY DEF Interrupt, Good, Typed, Command
<1>3. harm <=> cmd.hurt \/ pc \in Trying \cup Undoes \cup {"finally"}
  OBVIOUS
<1> HIDE DEF harm
<1>4. /\ cmd' \in Command /\ cmd'.end = "interrupted" /\ cmd'.hurt = harm
      /\ cmd'.kind = cmd.kind /\ cmd'.read = cmd.read /\ cmd'.before = cmd.before
      /\ cmd'.frozen = cmd.frozen /\ cmd'.base = cmd.base
  BY <1>2, EndedInDisorder
<1>5. CASE pc \in Trying \cup {"undo"}
  <2>0. harm
    BY <1>3, <1>5 DEF Undoes
  <2>1. pc' = "finally" /\ Converts
    BY <1>5 DEF Interrupt, Trying, Good, Working, AtStage, AtActivate, AtCommit, AtReport, AtUndo
  <2>2. Typed' /\ Lasting' /\ Tree' = Tree
    BY <1>1, <1>4, Quiet DEF board, aside, papers, clients, Good, Typed, Lasting, FrozenNative
  <2>3. AtFinally'
    BY <1>1, <1>4, <2>0, <2>1, <2>2 DEF AtFinally, Converts, board, clients
  <2> QED
    BY <2>1, <2>2, <2>3 DEF Good, Working
<1>6. CASE pc \notin Trying \cup {"undo"}
  <2>1. pc' = "idle"
    BY <1>6 DEF Interrupt
  <2>2. freeze = {} /\ ~harm => Sound(disk)
    BY <1>3, SoundUnlessFrozen
  <2> QED
    BY <1>1, <1>4, <2>1, <2>2, Stops
<1> QED
  BY <1>5, <1>6

LEMMA KillStep ==
  ASSUME Good, Kill
  PROVE  Good'
<1> DEFINE harm == cmd.hurt \/ (pc \in Undoes /\ freeze = {})
<1>1. UNCHANGED <<board, aside, papers, clients>> /\ pc' = "idle"
  BY DEF Kill
<1>2. harm \in BOOLEAN /\ cmd' = [cmd EXCEPT !.end = "killed", !.hurt = harm]
  BY DEF Kill, Good, Typed, Command
<1>3. freeze = {} /\ ~harm => Sound(disk)
  BY SoundUnlessFrozen
<1> HIDE DEF harm
<1>4. cmd' \in Command /\ cmd'.hurt = harm
  BY <1>2, EndedInDisorder
<1> QED
  BY <1>1, <1>3, <1>4, Stops

(***************************************************************************)
(* Everybody else.                                                         *)
(***************************************************************************)

LEMMA WrittenParts ==
  ASSUME NEW b \in Board
  PROVE  /\ Written(b) \in Board
         /\ b["tasks"].form = "new" =>
               /\ Written(b)["tasks"] = New(b["tasks"].data + 1)
               /\ Written(b)["ledger"].form = b["ledger"].form
               /\ Written(b)["ledger"].data = b["ledger"].data + 1
               /\ \A p \in Part \ {"tasks", "ledger"} : Written(b)[p] = b[p]
         /\ b["tasks"].form # "new" =>
               /\ Written(b)["source"] = b["source"]
               /\ Written(b)["tasks"] = [form |-> "mixed",
                      data |-> IF b["tasks"].form = "mixed" THEN b["tasks"].data + 1 ELSE 1]
<1>1. \A p \in Part : b[p] \in Content /\ b[p].data \in Nat
  BY DEF Board, Content
<1>2. CASE b["tasks"].form = "new"
  <2> DEFINE c == [b EXCEPT !["tasks"].data = @ + 1]
  <2>1. c \in Board /\ c["tasks"] = New(b["tasks"].data + 1) /\ \A p \in Part \ {"tasks"} : c[p] = b[p]
    BY <1>1, <1>2 DEF Board, Content, Part, New
  <2>2. Written(b) = [c EXCEPT !["ledger"].data = @ + 1]
    BY <1>2 DEF Written
  <2> HIDE DEF c
  <2>3. c["ledger"] \in Content /\ c["ledger"] = b["ledger"]
    BY <2>1 DEF Board, Part
  <2> QED
    BY <1>2, <2>1, <2>2, <2>3 DEF Board, Content, Part
<1>3. CASE b["tasks"].form # "new"
  <2> DEFINE n == 1 + (IF b["tasks"].form = "mixed" THEN b["tasks"].data ELSE 0)
  <2>1. n \in Nat /\ Written(b) = [b EXCEPT !["tasks"] = [form |-> "mixed", data |-> n]]
    BY <1>1, <1>3 DEF Written, Part
  <2>2. n = IF b["tasks"].form = "mixed" THEN b["tasks"].data + 1 ELSE 1
    BY <1>1 DEF Part
  <2> HIDE DEF n
  <2>3. /\ Written(b) \in Board /\ Written(b)["tasks"] = [form |-> "mixed", data |-> n]
        /\ Written(b)["source"] = b["source"]
    BY <2>1 DEF Board, Content, Part
  <2> QED
    BY <1>3, <2>2, <2>3
<1> QED
  BY <1>2, <1>3

LEMMA WrittenSound ==
  ASSUME NEW b \in Board, Sound(b), Mixed(b) => b["source"].form = "old"
  PROVE  /\ Written(b) \in Board /\ Held(Written(b)) = Held(b) + 1 /\ Readable(Written(b))
         /\ Native(b) => Native(Written(b)) /\ ~Mixed(Written(b))
         /\ ~Native(b) => Mixed(Written(b))
         /\ Mixed(Written(b)) => Written(b)["source"].form = "old"
<1> DEFINE w == Written(b)
<1>1. b["tasks"].data \in Nat /\ b["source"].data \in Nat
  BY DEF Board, Content, Part
<1>2. CASE Native(b)
  <2>1. /\ w \in Board /\ w["tasks"] = New(b["tasks"].data + 1)
        /\ w["ledger"].form = "new" /\ w["ledger"].data = b["tasks"].data + 1
        /\ w["archive"] = b["archive"] /\ w["config"] = b["config"] /\ w["source"] = b["source"]
    <3>1. b["tasks"].form = "new" /\ b["ledger"].form = "new" /\ b["ledger"].data = b["tasks"].data
      BY <1>2, NativeParts
    <3>2. {"archive", "config", "source"} \subseteq Part \ {"tasks", "ledger"}
      BY DEF Part
    <3> QED
      BY <3>1, <3>2, WrittenParts
  <2> HIDE DEF w
  <2>2. Native(w)
    BY <1>2, <2>1 DEF Native, New
  <2>3. Held(w) = Held(b) + 1 /\ Readable(w) /\ ~Mixed(w)
    BY <1>2, <2>1, <2>2, NativeParts, WholeReadable DEF New
  <2> QED
    BY <1>2, <2>1, <2>2, <2>3 DEF w
<1>3. CASE ~Native(b)
  <2>1. b["source"].form = "old" /\ b["tasks"].form \in {"old", "mixed"}
    BY <1>3, LegacyParts DEF Sound, Whole, Mixed
  <2>2. /\ w \in Board /\ w["source"] = b["source"]
        /\ w["tasks"] = [form |-> "mixed",
              data |-> IF b["tasks"].form = "mixed" THEN b["tasks"].data + 1 ELSE 1]
    BY <2>1, WrittenParts
  <2> HIDE DEF w
  <2>3. Readable(w) /\ Mixed(w)
    BY <2>1, <2>2 DEF Readable, Mixed
  <2>4. Held(w) = b["source"].data + (IF b["tasks"].form = "mixed" THEN b["tasks"].data + 1 ELSE 1)
    BY <2>2 DEF Held
  <2>5. Held(b) = b["source"].data + (IF b["tasks"].form = "mixed" THEN b["tasks"].data ELSE 0)
    BY <1>1, <2>1 DEF Held
  <2>6. Held(w) = Held(b) + 1
    BY <1>1, <2>4, <2>5
  <2> QED
    BY <1>3, <2>1, <2>2, <2>3, <2>6 DEF w
<1> QED
  BY <1>2, <1>3

LEMMA WriteStep ==
  ASSUME Good, Write, ~raced'
  PROVE  Good'
<1>1. /\ freeze = {} /\ ~cmd.hurt /\ pc \notin Late /\ disk' = Written(disk) /\ acked' = acked + 1
      /\ pc' = pc /\ UNCHANGED <<where, log, freeze, stage, backup, tar, receipt, acceptance>>
  BY DEF Write, aside, papers
<1>2. Sound(disk)
  <2>1. pc \notin Undoes
    BY <1>1 DEF Late, Undoes
  <2> QED
    BY <1>1, <2>1, SoundUnlessFrozen
<1>3. /\ disk' \in Board /\ Held(disk') = acked + 1 /\ Readable(disk')
      /\ Native(disk) => Native(disk') /\ ~Mixed(disk')
      /\ ~Native(disk) => Mixed(disk')
      /\ Mixed(disk') => disk'["source"].form = "old"
  BY <1>1, <1>2, WrittenSound, ReadsTruth DEF Good, Typed, Lasting, Truth
<1>4. Sound(disk')
  BY <1>3 DEF Sound, Whole
<1>5. CASE pc = "idle"
  <2>1. cmd' = cmd
    BY <1>5 DEF Write
  <2>2. Typed' /\ Lasting'
    BY <1>1, <1>3, <2>1, Acknowledges DEF Good, Typed
  <2>3. AtRest'
    BY <1>4 DEF AtRest
  <2> QED
    BY <1>1, <1>5, <2>2, <2>3 DEF Good, Working
<1>6. CASE pc # "idle"
  <2>1. pc \in {"freeze", "pw-freeze", "revert", "verify"}
    BY <1>1, <1>6 DEF Late, Good, Working, AtPreflight, AtStage, AtActivate, AtExport, AtArchive, AtClear,
       AtFill, AtProbe
  <2>2. cmd' = [cmd EXCEPT !.before = Written(@)]
    BY <1>6 DEF Write
  <2>3. cmd.before \in Board /\ cmd \in Command /\ Written(cmd.before) \in Board
    BY WrittenParts DEF Good, Typed, Command
  <2>4. /\ cmd'.kind = cmd.kind /\ cmd'.read = cmd.read /\ cmd'.before = Written(cmd.before)
        /\ cmd'.frozen = cmd.frozen /\ cmd'.base = cmd.base /\ cmd'.active = cmd.active
        /\ cmd' \in Command
    BY <2>2, <2>3 DEF Command
  <2>5. Typed' /\ Lasting' /\ Tree' = Tree
    BY <1>1, <1>3, <2>4, Acknowledges DEF Good, Typed
  <2>6. CASE pc = "freeze"
    <3>1. AtFreeze /\ ~Native(disk)
      BY <2>6, LegacyParts, NativeParts, <1>2 DEF Good, Working, AtFreeze, Begun, Mixed
    <3>2. AtFreeze'
      BY <1>1, <1>3, <2>4, <2>5, <3>1 DEF AtFreeze, Begun
    <3> QED
      BY <1>1, <2>5, <2>6, <3>2 DEF Good, Working
  <2>7. CASE pc = "pw-freeze"
    <3>1. AtRollbackFreeze
      BY <2>7 DEF Good, Working
    <3>2. AtRollbackFreeze'
      BY <1>1, <1>3, <2>4, <2>5, <3>1 DEF AtRollbackFreeze, Rolls, Tidy
    <3> QED
      BY <1>1, <2>5, <2>7, <3>2 DEF Good, Working
  <2>8. CASE pc = "revert"
    <3>1. AtRevert
      BY <2>8 DEF Good, Working
    <3>2. AtRevert'
      BY <1>1, <1>4, <2>4, <2>5, <3>1 DEF AtRevert, Tidy
    <3> QED
      BY <1>1, <2>5, <2>8, <3>2 DEF Good, Working
  <2>9. CASE pc = "verify"
    <3>1. AtVerify /\ ~Native(disk)
      BY <2>9, LegacyParts, NativeParts DEF Good, Working, AtVerify, Mixed
    <3>2. AtVerify'
      BY <1>1, <1>3, <2>4, <2>5, <3>1 DEF AtVerify, Tidy
    <3> QED
      BY <1>1, <2>5, <2>9, <3>2 DEF Good, Working
  <2> QED
    BY <2>1, <2>6, <2>7, <2>8, <2>9
<1> QED
  BY <1>5, <1>6

LEMMA LegacyWriteStep ==
  ASSUME Good, LegacyWrite
  PROVE  Good'
<1>1. /\ pc = "idle" /\ disk["source"].form = "old" /\ disk["tasks"].form \in {"old", "mixed"}
      /\ acked' = acked + 1 /\ disk \in Board /\ AtRest /\ cmd \in Command
      /\ UNCHANGED <<pc, cmd, where, log, freeze, stage, backup, tar, receipt, acceptance>>
  BY DEF LegacyWrite, aside, papers, Good, Typed, Working
<1>2. \A p \in Part : disk[p] \in Content /\ disk[p].data \in Nat
  BY <1>1 DEF Board, Content
<1>3. /\ disk' \in Board /\ disk'["source"] = Old(disk["source"].data + 1)
      /\ \A p \in Part \ {"source"} : disk'[p] = disk[p]
  BY <1>1, <1>2 DEF LegacyWrite, Board, Content, Part, Old
<1>4. Held(disk) = acked
  BY <1>1 DEF Good, Lasting, Truth, Readable
<1>5. Held(disk') = acked + 1 /\ Readable(disk')
  BY <1>1, <1>2, <1>3, <1>4 DEF Held, Readable, Part, Old
<1>6. Typed' /\ Lasting'
  BY <1>1, <1>3, <1>5, Acknowledges DEF Old
<1>7. Legacy(disk) => Legacy(disk')
  BY <1>1, <1>3 DEF Legacy, Part, Old
<1>8. Mixed(disk) => Mixed(disk')
  BY <1>3 DEF Mixed, Part
<1>9. AtRest'
  BY <1>1, <1>7, <1>8, NativeParts DEF AtRest, Sound, Whole, Nothing
<1> QED
  BY <1>1, <1>6, <1>9 DEF Good, Working

LEMMA PeopleCommitStep ==
  ASSUME Good, PeopleCommit
  PROVE  Good'
<1>1. /\ Commit(disk) /\ Whole(disk) /\ freeze = {} /\ pc = "idle"
      /\ UNCHANGED <<pc, cmd, disk, where, freeze, stage, backup, tar, papers, clients>>
  BY DEF PeopleCommit, aside
<1>2. Typed' /\ Lasting'
  BY <1>1, CommitsWhole, WholeReadable, ReadsTruth DEF Sound, papers, clients, Good, Typed
<1>3. AtRest'
  BY <1>1 DEF AtRest, Sound
<1> QED
  BY <1>1, <1>2, <1>3 DEF Good, Working

\* Looking for a freeze, and giving up, is nothing the invariant is about.
LEMMA Unnoticed ==
  ASSUME Good, UNCHANGED <<board, pc, cmd, aside, papers, acked>>
  PROVE  Good'
<1>1. Typed' /\ Lasting' /\ Tree' = Tree
  BY Quiet DEF board, aside, papers, Good, Typed, Lasting, FrozenNative
<1>2. Working'
  BY <1>1 DEF board, aside, papers, Good, Working, AtRest, AtFreeze, AtPreflight, Begun, AtStage, Tidy,
     AtActivate, Walk, Original, Saved, Placed, Staged, Configured, AtCommit, AtReport, Converts,
     Converted, NotYet, AtUndo, AllUndoable, Undoable, PutBack, Lead, AtFinally, AtLift, AtRevert,
     AtVerify, Rolls, AtRollbackFreeze, AtExport, Exported, AtArchive, Archived, AtClear, AtFill, Back,
     AtProbe, AtRollbackCommit, AtRollbackReport, AtUnpack
<1> QED
  BY <1>1, <1>2 DEF Good

(***************************************************************************)
(* The invariant.                                                          *)
(***************************************************************************)

LEMMA InvariantInit == Init => IInv
<1> SUFFICES ASSUME Init PROVE Good
  BY DEF IInv
<1>1. \E prior \in {Nothing, Old(0)} :
         disk = [p \in Part |-> IF p \in {"ledger", "archive"} THEN prior ELSE Old(0)]
  BY DEF Init
<1>2. disk \in Board /\ Legacy(disk)
  BY <1>1 DEF Board, Content, Part, Old, Nothing, Legacy
<1>3. Held(disk) = 0 /\ ~Mixed(disk) /\ Whole(disk)
  BY <1>1, <1>2, LegacyParts DEF Part, Old, Mixed
<1> DEFINE s == [tree |-> disk, frozen |-> {}]
<1>4. s \in Snapshot /\ s.tree = disk /\ s.frozen = {}
  BY <1>2 DEF Snapshot
<1> HIDE DEF s
<1>5. log = <<s>>
  BY DEF Init, s
<1>6. log \in Seq(Snapshot) /\ Len(log) = 1 /\ log[1] = s
  BY <1>4, <1>5
<1>7. cmd \in Command
  BY BareBoard DEF Init, NoCommand, Command
<1>8. Typed
  BY <1>2, <1>6, <1>7, BareBoard DEF Init, Typed, NoPaper, Paper
<1>9. Heads
  BY <1>3, <1>4, <1>6 DEF Heads
<1>10. Truth
  BY <1>3, WholeReadable DEF Init, Truth
<1>11. Receipted /\ FrozenNative
  BY DEF Init, Receipted, FrozenNative
<1> QED
  BY <1>3, <1>8, <1>9, <1>10, <1>11 DEF Init, Good, Lasting, Working, AtRest, Sound

LEMMA InvariantStep == IInv /\ [Next]_vars => IInv'
<1> SUFFICES ASSUME IInv, [Next]_vars, ~raced' PROVE Good'
  BY DEF IInv
<1>1. CASE UNCHANGED vars
  <2>1. ~raced
    BY <1>1 DEF vars, clients
  <2> QED
    BY <1>1, <2>1, Unnoticed DEF IInv, vars, clients
<1>2. CASE Write
  BY <1>2, WriteStep DEF IInv, Write
<1>3. CASE Admit \/ GiveUp
  BY <1>3, Unnoticed DEF IInv, Admit, GiveUp
<1>4. CASE LegacyWrite
  BY <1>4, LegacyWriteStep DEF IInv, LegacyWrite
<1>5. CASE Conversion
  <2>1. ~raced
    BY <1>5 DEF Conversion, Convert, WriteFreeze, Preflight, Prepare, Stage, Save, Put, PutFails, Configure,
       Dispose, Thaw, CutoverCommit, Report, Finish, Undo, Undone, Finally, clients
  <2> QED
    BY <1>5, <2>1, ConvertStep, WriteFreezeStep, PreflightStep, PrepareStep, StageStep, SaveStep, PutStep, PutFailsStep,
       ConfigureStep, DisposeStep, ThawStep, CutoverCommitStep, ReportStep, FinishStep, UndoStep,
       UndoneStep, FinallyStep DEF IInv, Conversion
<1>6. CASE Rollback
  <2>1. ~raced
    BY <1>6 DEF Rollback, RollBackNow, Revert, Verify, RollBack, RollbackFreeze, Export, Archive, Clear,
       Fill, Probe, RollbackCommit, RollbackReport, Unpack, clients
  <2> QED
    BY <1>6, <2>1, RollBackNowStep, RevertStep, VerifyStep, RollBackStep, RollbackFreezeStep, ExportStep,
       ArchiveStep, ClearStep, FillStep, ProbeStep, RollbackCommitStep, RollbackReportStep, UnpackStep
       DEF IInv, Rollback
<1>7. CASE Accept \/ Lift \/ SaveLifted \/ PeopleCommit
  <2>1. ~raced
    BY <1>7 DEF Accept, Lift, SaveLifted, PeopleCommit, clients
  <2> QED
    BY <1>7, <2>1, AcceptStep, LiftStep, SaveLiftedStep, PeopleCommitStep DEF IInv
<1>8. CASE Error \/ FinishFails \/ UndoError \/ Interrupt \/ Kill
  <2>1. ~raced
    BY <1>8 DEF Error, FinishFails, UndoError, Interrupt, Kill, clients
  <2> QED
    BY <1>8, <2>1, ErrorStep, FinishFailsStep, UndoErrorStep, InterruptStep, KillStep DEF IInv
<1> QED
  BY <1>1, <1>2, <1>3, <1>4, <1>5, <1>6, <1>7, <1>8 DEF Next

\* The inductive invariant holds: what can be read is the truth, and every step knows
\* what it can take back, as long as no mutation has raced with a command.
THEOREM Invariant == Spec => []IInv
  BY InvariantInit, InvariantStep, PTL DEF Spec

(***************************************************************************)
(* What it is for.                                                         *)
(***************************************************************************)

\* What is committed is one board, legacy or native, and no freeze, whatever was
\* interrupted and however often.
THEOREM CommitsAreWhole == Spec => []HeadWhole
<1>1. IInv => HeadWhole
  BY DEF IInv, Good, Lasting, Heads, HeadWhole
<1> QED
  BY <1>1, Invariant, PTL

\* No acknowledged write is ever lost: a board that can be read has them all, and
\* when none can be read HEAD has them.
THEOREM WritesAreKept == Spec => []Kept
<1>1. IInv => Kept
  BY DEF IInv, Good, Lasting, Truth, Kept
<1> QED
  BY <1>1, Invariant, PTL

\* A board that a command has left half way is frozen.
THEOREM HalfBoardsAreFrozen == Spec => []HalfFrozen
<1>1. IInv => HalfFrozen
  BY DEF IInv, Good, Working, AtRest, Sound, Mixed, HalfFrozen
<1> QED
  BY <1>1, Invariant, PTL

LEMMA UnpackRestores ==
  ASSUME Good, Unpack, pc' = "idle"
  PROVE  disk' = cmd.before /\ cmd.kind = "rollback"
<1>1. AtUnpack /\ pc = "unpack" /\ cmd.i \in 1..4
  BY DEF Unpack, Good, Working, AtUnpack
<1>2. cmd.i = 4 /\ disk' = Moved(disk, tar, Dir("archive"))
  <2>1. Len(Clearing) = 3 /\ Clearing[3] = "archive"
    BY DEF Clearing
  <2>2. ~Advance
    BY <1>1 DEF Advance
  <2> QED
    BY <1>1, <2>1, <2>2 DEF Unpack
<1>3. disk' \in Board /\ \A p \in Part : disk'[p] = IF p = "archive" THEN tar[p] ELSE disk[p]
  BY <1>2, MovedParts DEF Dir, Good, Typed
<1>4. \A p \in Part : tar[p] = cmd.before[p]
  BY <1>1 DEF AtUnpack, Archived, Same
<1>5. cmd.before["source"] = Nothing
  BY <1>1, NativeParts DEF AtUnpack, Archived, Exported, Rolls
<1>6. Same(disk', cmd.before)
  BY <1>1, <1>2, <1>3, <1>4, <1>5 DEF AtUnpack, Same, Part
<1> QED
  BY <1>1, <1>3, <1>6, BoardEqual DEF AtUnpack, Archived, Exported, Rolls, Good, Typed, Command

\* The steps that end a command with an error, and with success.
LEMMA Endings ==
  ASSUME Good, [Next]_vars, pc # "idle", pc' = "idle"
  PROVE  /\ cmd'.end = "error" => \/ Finally \/ Verify \/ Export \/ Unpack \/ Error
         /\ cmd'.end = "ok" => \/ Finish \/ SaveLifted \/ Verify \/ RollbackReport
<1>1. cmd \in Command
  BY DEF Good, Typed
<1>2. ~UNCHANGED pc
  OBVIOUS
<1>3. Next
  BY DEF vars
<1>4. CASE Conversion
  <2>1. CASE Finish \/ Finally
    <3>1. Finish => cmd'.end = "ok"
      BY <1>1, Ended DEF Finish
    <3>2. Finally => cmd'.end # "ok"
      BY DEF Finally, Good, Working, AtFinally
    <3> QED
      BY <2>1, <3>1, <3>2
  <2>2. CASE WriteFreeze \/ Preflight
    <3>1. End("refused")
      BY <2>2 DEF WriteFreeze, Preflight, Goto
    <3> QED
      BY <1>1, <3>1, Ended
  <2> QED
    BY <1>2, <1>4, <2>1, <2>2 DEF Conversion, Convert, Start, Prepare, Stage, Save, Put, PutFails, Configure, Dispose, Thaw,
       CutoverCommit, Report, Undo, Undone, Goto, Advance
<1>5. CASE Rollback
  <2>1. CASE Revert
    <3>1. End("refused")
      BY <2>1 DEF Revert, Goto
    <3> QED
      BY <1>1, <3>1, Ended
  <2>2. CASE Verify
    BY <2>2
  <2>3. CASE Export
    <3>1. End("error")
      BY <2>3 DEF Export, Goto
    <3> QED
      BY <1>1, <2>3, <3>1, Ended
  <2>4. CASE RollbackReport
    <3>1. cmd'.end = "ok"
      BY <1>1, <2>4, Ended DEF RollbackReport
    <3> QED
      BY <2>4, <3>1
  <2>5. CASE Unpack
    <3>1. End("error")
      BY <1>2, <2>5 DEF Unpack, Advance
    <3> QED
      BY <1>1, <2>5, <3>1, Ended
  <2> QED
    BY <1>2, <1>5, <2>1, <2>2, <2>3, <2>4, <2>5 DEF Rollback, RollBackNow, RollBack, Start, RollbackFreeze,
       Archive, Clear, Fill, Probe, RollbackCommit, Goto, Advance
<1>6. CASE Accept \/ Lift \/ SaveLifted
  <2>1. SaveLifted
    BY <1>2, <1>6 DEF Accept, Lift, Start
  <2>2. cmd'.end = "ok"
    BY <1>1, <2>1, Ended DEF SaveLifted
  <2> QED
    BY <2>1, <2>2
<1>7. CASE Error
  <2>1. End("error")
    BY <1>7 DEF Error, Goto
  <2> QED
    BY <1>1, <1>7, <2>1, Ended
<1>8. CASE FinishFails \/ UndoError \/ Interrupt \/ Kill
  <2>1. CASE FinishFails
    BY <2>1 DEF FinishFails
  <2>2. CASE UndoError
    BY <2>2, EndedInDisorder DEF UndoError
  <2>3. CASE Interrupt
    <3>1. (cmd.hurt \/ pc \in Trying \cup Undoes \cup {"finally"}) \in BOOLEAN
      BY <1>1 DEF Command
    <3> QED
      BY <2>3, <3>1, EndedInDisorder DEF Interrupt
  <2>4. CASE Kill
    <3>1. (cmd.hurt \/ (pc \in Undoes /\ freeze = {})) \in BOOLEAN
      BY <1>1 DEF Command
    <3> QED
      BY <2>4, <3>1, EndedInDisorder DEF Kill
  <2> QED
    BY <1>8, <2>1, <2>2, <2>3, <2>4
<1>9. CASE Admit \/ Write \/ GiveUp \/ LegacyWrite \/ PeopleCommit
  BY <1>2, <1>9 DEF Admit, Write, GiveUp, LegacyWrite, PeopleCommit
<1> QED
  BY <1>3, <1>4, <1>5, <1>6, <1>7, <1>8, <1>9 DEF Next

\* A command that fails before its commit leaves the board as it was, with all that
\* was written in the meantime, and a failed conversion no freeze of its own unless it
\* failed to prepare its stage, which no clause of the code is in charge of.
THEOREM FailuresRestore == Spec => FailureRestores
<1> DEFINE Claim ==
       Ends("error") /\ Len(log') = cmd.base /\ ~raced /\ pc \notin Exposed =>
          /\ disk' = cmd.before
          /\ cmd.kind = "convert" /\ pc # "prepare" => freeze' = cmd.frozen
<1>1. IInv /\ [Next]_vars => [Claim]_vars
  <2> SUFFICES ASSUME Good, [Next]_vars, Ends("error"), Len(log') = cmd.base, pc \notin Exposed
               PROVE  /\ disk' = cmd.before
                      /\ cmd.kind = "convert" /\ pc # "prepare" => freeze' = cmd.frozen
    BY DEF IInv
  <2>1. cmd \in Command /\ cmd'.end = "error"
    BY DEF Good, Typed, Ends
  <2>2. CASE Finally
    BY <2>1, <2>2 DEF Finally, Good, Typed, Working, AtFinally, Converts
  <2>3. CASE Verify
    BY <2>3 DEF Verify, board, Good, Typed, Working, AtVerify
  <2>4. CASE Export
    BY <2>4 DEF Export, board, Good, Working, AtExport, Rolls
  <2>5. CASE Unpack
    BY <2>5, UnpackRestores DEF Ends
  <2>6. CASE Error
    <3>1. disk' = disk /\ log' = log
      BY <2>6 DEF Error
    <3>2. \/ pc = "preflight" /\ freeze' = freeze \ {"conversion"}
          \/ pc \in Plain /\ freeze' = freeze
      BY <2>6 DEF Error, Ends, Goto
    <3>3. CASE pc \in {"preflight", "freeze"}
      BY <3>1, <3>2, <3>3 DEF Plain, Good, Working, AtPreflight, AtFreeze, Begun
    <3>7. CASE pc = "prepare"
      BY <3>1, <3>7 DEF Good, Working, AtStage
    <3>4. CASE pc \in {"pw-freeze", "export", "tar"}
      BY <3>1, <3>4 DEF Good, Working, AtRollbackFreeze, AtExport, AtArchive, Exported, Rolls
    <3>5. CASE pc \in {"lift", "revert"}
      BY <3>1, <3>5 DEF Good, Working, AtLift, AtRevert
    <3>6. CASE pc \in {"verify", "pw-report"}
      BY <3>1, <3>6 DEF Good, Typed, Working, AtVerify, AtRollbackReport
    <3> QED
      BY <3>2, <3>3, <3>4, <3>5, <3>6, <3>7 DEF Plain
  <2> QED
    BY <2>1, <2>2, <2>3, <2>4, <2>5, <2>6, Endings DEF Ends
<1> QED
  BY <1>1, Invariant, PTL DEF Spec, FailureRestores

\* A command that reports success has done it: the board is converted, or legacy again,
\* with every acknowledged write, and committed; a window is lifted in the state that
\* was accepted.
THEOREM SuccessIsTrue == Spec => ReportsTrue
<1> DEFINE Claim ==
       Ends("ok") /\ ~raced =>
          /\ cmd.kind \in {"convert", "rollback", "immediate"} =>
                Held(disk') = acked /\ disk' = Tree' /\ {stage', backup'} = {Bare}
          /\ cmd.kind = "convert" => Native(disk')
          /\ cmd.kind \in {"rollback", "immediate"} => Legacy(disk')
          /\ cmd.kind = "lift" => acceptance.data = Held(disk')
<1>1. IInv /\ [Next]_vars => [Claim]_vars
  <2> SUFFICES ASSUME Good, [Next]_vars, Ends("ok")
               PROVE  /\ cmd.kind \in {"convert", "rollback", "immediate"} =>
                            Held(disk') = acked /\ disk' = Tree' /\ {stage', backup'} = {Bare}
                      /\ cmd.kind = "convert" => Native(disk')
                      /\ cmd.kind \in {"rollback", "immediate"} => Legacy(disk')
                      /\ cmd.kind = "lift" => acceptance.data = Held(disk')
    BY DEF IInv
  <2>1. cmd \in Command /\ cmd'.end = "ok"
    BY DEF Good, Typed, Ends
  <2>2. CASE Finish
    <3>1. AtReport /\ disk' = disk /\ log' = log /\ stage' = Bare /\ backup' = Bare
      BY <2>2 DEF Finish, Good, Working
    <3>2. cmd.kind = "convert" /\ Native(disk) /\ disk = Tree /\ Tree' = Tree
      BY <3>1 DEF AtReport, Converts, Converted, Tree
    <3>3. Held(disk) = acked
      BY <3>2, ReadsTruth DEF Sound, Whole
    <3> QED
      BY <3>1, <3>2, <3>3
  <2>3. CASE Verify
    <3>1. /\ AtVerify /\ disk' = disk /\ log' = log /\ stage' = stage /\ backup' = backup
          /\ disk["tasks"].form = "old"
      BY <2>1, <2>3, Ended DEF Verify, board, aside, Good, Working
    <3>2. cmd.kind = "immediate" /\ Legacy(disk) /\ disk = Tree /\ Tree' = Tree /\ Tidy
      BY <3>1 DEF AtVerify, Mixed, Tree
    <3>3. Held(disk) = acked
      BY <3>2, ReadsTruth DEF Sound, Whole
    <3> QED
      BY <3>1, <3>2, <3>3 DEF Tidy
  <2>4. CASE RollbackReport
    <3>1. AtRollbackReport /\ disk' = disk /\ log' = log /\ stage' = stage /\ backup' = backup
      BY <2>4 DEF RollbackReport, board, aside, Good, Working
    <3>2. cmd.kind = "rollback" /\ Legacy(disk) /\ disk = Tree /\ Tree' = Tree /\ Tidy
      BY <3>1 DEF AtRollbackReport, Tree
    <3>3. Held(disk) = acked
      BY <3>2, ReadsTruth DEF Sound, Whole
    <3> QED
      BY <3>1, <3>2, <3>3 DEF Tidy
  <2>5. CASE SaveLifted
    <3>1. AtLift /\ disk' = [disk EXCEPT !["config"].form = "lifted"] /\ disk \in Board
      BY <2>5 DEF SaveLifted, Good, Working, Typed
    <3>2. disk'["tasks"] = disk["tasks"] /\ disk'["source"] = disk["source"]
      BY <3>1 DEF Board, Part
    <3>3. Held(disk') = Held(disk)
      BY <3>2 DEF Held
    <3> QED
      BY <3>1, <3>3 DEF AtLift
  <2> QED
    BY <2>1, <2>2, <2>3, <2>4, <2>5, Endings DEF Ends
<1> QED
  BY <1>1, Invariant, PTL DEF Spec, ReportsTrue
=============================================================================
