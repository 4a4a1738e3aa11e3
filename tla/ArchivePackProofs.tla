------------------------- MODULE ArchivePackProofs -------------------------
(***************************************************************************)
(* No task is lost between the tiers, whoever archives, recovers, mutates  *)
(* and commits, and whatever fails or is killed.                           *)
(*                                                                         *)
(* Nothing may be said of a task that somebody has written under an        *)
(* archiving.  Of any other the invariant says which of four things it is: *)
(* settled in one tier, as HEAD has it there; being moved, HEAD still      *)
(* having it in the hot tier; moved, HEAD agreeing; or being put back.     *)
(* A freeze belongs to tasks that are all being moved or have all been     *)
(* moved, and for each point of the command, of its except clause and of   *)
(* the recovery the invariant says how far they have come.  The number of  *)
(* HEAD tells the two apart to a recovery that knows the freeze only.      *)
(***************************************************************************)
EXTENDS ArchivePack, TLAPS

(***************************************************************************)
(* The inductive invariant.                                                *)
(***************************************************************************)

Preparing == {"verified", "saved"}
Creating  == Preparing \cup Uncommitted \cup Undoing \cup Committed
Working   == Creating \cup Recovering
Changing  == {"admitted", "writing"}

\* Whoever is at work holds the lock, and nobody else does.
Locked ==
    \A p \in Procs : pc[p] \in {"idle"} \cup Changing \cup Working /\ (owner = p <=> pc[p] \in Working)

Entry == [hot : [Task -> Nat], cold : [Task -> Nat], by : {"people", "archive"}]

IsCreation(j) ==
    j = [kind |-> "create", source |-> j.source, parent |-> j.parent, plan |-> j.plan,
         backup |-> j.backup, packed |-> j.packed, activated |-> j.activated, left |-> j.left]
IsRecovery(j) == j = [kind |-> "recover", left |-> j.left]
IsMutation(j) ==
    /\ j = [kind |-> "update", task |-> j.task, version |-> j.version]
    /\ j.task \in Task /\ j.version \in Nat
IsFreeze(f) ==
    /\ f = [phase |-> f.phase, source |-> f.source, tasks |-> f.tasks, packs |-> f.packs,
            commit |-> f.commit]
    /\ f.phase \in {"frozen", "activating", "committed", "verified"}

Data ==
    /\ hot \in [Task -> Nat] /\ cold \in [Task -> Nat] /\ acked \in [Task -> Nat]
    /\ log \in Seq(Entry) /\ log # <<>>

Records ==
    /\ pc = [p \in Procs |-> pc[p]] /\ job = [p \in Procs |-> job[p]]
    /\ \A p \in Procs :
          /\ pc[p] \in Creating => IsCreation(job[p])
          /\ pc[p] \in Recovering => IsRecovery(job[p])
          /\ pc[p] \in Changing => IsMutation(job[p])

\* Where a task is that nobody has changed under an archiving.
InHot(t)  == hot[t] = acked[t] /\ cold[t] = 0
InCold(t) == hot[t] = 0 /\ cold[t] = acked[t]
Settled(t) == (InHot(t) \/ InCold(t)) /\ cold[t] = Tip.cold[t]

\* It is being moved, and HEAD still has it in the hot tier.
Moving(t) ==
    /\ acked[t] # 0 /\ Tip.hot[t] = acked[t] /\ Tip.cold[t] = 0
    /\ hot[t] \in {0, acked[t]} /\ cold[t] \in {0, acked[t]}

\* It has been moved, and HEAD agrees.
Moved(t) == acked[t] # 0 /\ InCold(t) /\ Tip.cold[t] = acked[t]

\* Copies of the versions of tasks.
Copies(version, S) ==
    \A t \in S : version[t] \in Nat /\ (t \notin raced => version[t] = acked[t])

PeopleSince(id) == \A i \in id + 1 .. HeadId : log[i].by = "people"

\* If the commits from source to commit are all an archiving's, it is one, and
\* it moves these tasks and nothing else.
Told(S, source, commit) ==
    (\A i \in source + 1 .. commit : log[i].by = "archive") =>
        /\ commit = source + 1
        /\ \A t \in S \ raced : log[commit].hot[t] = 0 /\ log[commit].cold[t] = log[source].hot[t]
        /\ \A t \in Task \ S : /\ log[commit].hot[t] = log[source].hot[t]
                               /\ log[commit].cold[t] = log[source].cold[t]

\* The frozen archiving has not committed yet, or it has.
Before ==
    /\ freeze.phase \in {"frozen", "activating"} /\ PeopleSince(freeze.source)
    /\ \A t \in freeze.tasks \ raced : Moving(t) /\ (t \notin freeze.packs => cold[t] = 0)
After == HeadId > freeze.source /\ \A t \in freeze.tasks \ raced : Moved(t)

Frozen ==
    freeze # NoFreeze =>
        /\ IsFreeze(freeze) /\ freeze.tasks \subseteq Task /\ freeze.packs \subseteq freeze.tasks
        /\ freeze.source \in 1..HeadId
        /\ \A id \in freeze.source + 1 .. HeadId : Told(freeze.tasks, freeze.source, id)
        /\ stage = NoStage \/ Copies(stage, freeze.tasks)
        /\ Before \/ After

Unfrozen == \A t \in Task \ raced : freeze = NoFreeze \/ t \notin freeze.tasks => Settled(t)

Receipted ==
    \A r \in receipts :
        /\ r.source \in 1..HeadId /\ r.commit \in r.source + 1 .. HeadId
        /\ Told(r.tasks, r.source, r.commit)

World == Data /\ Frozen /\ Unfrozen /\ Receipted

\* How far the archiving has come, and its undoing ...
PlanKept(p) ==
    /\ Selected(p) \subseteq Task /\ job[p].activated \subseteq Selected(p)
    /\ pc[p] \notin Committed => \A t \in Selected(p) \ raced : job[p].plan[t] = acked[t]
    /\ pc[p] \in {"saved"} \cup Uncommitted \cup Undoing => Copies(job[p].backup, Selected(p))
    /\ pc[p] = "saved" => job[p].parent \in 1..HeadId /\ PeopleSince(job[p].parent)
    /\ pc[p] \in {"packed", "checked", "copying", "unlinking", "staging", "removing",
                 "committing"} =>
          Copies(job[p].packed, Selected(p))
    /\ pc[p] \in {"copying", "unlinking", "restoring"} => job[p].left \subseteq Selected(p)

FreezeKept(p) ==
    /\ pc[p] \in Preparing => freeze = NoFreeze
    /\ pc[p] \notin Preparing => freeze # NoFreeze /\ freeze.tasks = Selected(p)
    /\ pc[p] \in Uncommitted \cup Undoing => Before
    /\ pc[p] \in Committed => After
    /\ pc[p] \in {"copying", "unlinking", "staging", "removing", "committing"} => freeze.packs = Selected(p)
    /\ pc[p] \in {"doctor", "receipt"} => freeze.commit \in freeze.source + 1 .. HeadId

Progress(p, t) ==
    /\ pc[p] \in Preparing => Moving(t)
    /\ pc[p] \in Preparing \cup {"frozen", "packed", "checked"} => InHot(t)
    /\ pc[p] \in Uncommitted \cup Undoing => cold[t] = 0 \/ t \in job[p].activated
    /\ pc[p] = "copying" => hot[t] = acked[t] /\ (t \notin job[p].left => cold[t] = acked[t])
    /\ pc[p] = "unlinking" => cold[t] = acked[t] /\ (t \notin job[p].left => hot[t] = 0)
    /\ pc[p] \in {"staging", "removing", "committing"} => InCold(t)
    /\ pc[p] = "restoring" => (t \notin job[p].left => hot[t] = acked[t])
    /\ pc[p] \in {"discarding", "thawing"} => hot[t] = acked[t]
    /\ pc[p] = "thawing" => cold[t] = 0

Archives(p) ==
    /\ PlanKept(p) /\ FreezeKept(p)
    /\ \A t \in Selected(p) \ raced : Progress(p, t)

\* ... and the recovery.
Recovers(p) ==
    /\ freeze # NoFreeze
    /\ pc[p] = "recover" => job[p].left = freeze.tasks
    /\ pc[p] = "returning" => job[p].left \subseteq freeze.tasks
    /\ pc[p] \in {"returning", "dropping", "inspecting", "cleaning"} => Before
    /\ pc[p] = "confirming" => After
    /\ \A t \in freeze.tasks \ raced :
          /\ pc[p] = "returning" => (t \notin job[p].left => hot[t] = acked[t])
          /\ pc[p] \in {"dropping", "inspecting", "cleaning"} => hot[t] = acked[t]
          /\ pc[p] \in {"inspecting", "cleaning"} => cold[t] = 0
          /\ pc[p] = "releasing" => Settled(t)

AtWork == \A p \in Procs : (pc[p] \in Creating => Archives(p)) /\ (pc[p] \in Recovering => Recovers(p))

Inv == World /\ Records /\ Locked /\ AtWork

(***************************************************************************)
(* Records and commits.                                                    *)
(***************************************************************************)

\* What the steps of an archiving change of its record.
LEMMA NewLeft ==
    ASSUME NEW c, IsCreation(c), NEW x
    PROVE  [c EXCEPT !.left = x] =
            [kind |-> "create", source |-> c.source, parent |-> c.parent, plan |-> c.plan,
             backup |-> c.backup, packed |-> c.packed, activated |-> c.activated, left |-> x]
  BY DEF IsCreation

LEMMA NewPacked ==
    ASSUME NEW c, IsCreation(c), NEW x
    PROVE  [c EXCEPT !.packed = x] =
            [kind |-> "create", source |-> c.source, parent |-> c.parent, plan |-> c.plan,
             backup |-> c.backup, packed |-> x, activated |-> c.activated, left |-> c.left]
  BY DEF IsCreation

LEMMA NewActivated ==
    ASSUME NEW c, IsCreation(c), NEW x, NEW y
    PROVE  [c EXCEPT !.left = x, !.activated = y] =
            [kind |-> "create", source |-> c.source, parent |-> c.parent, plan |-> c.plan,
             backup |-> c.backup, packed |-> c.packed, activated |-> y, left |-> x]
<1>1. [c EXCEPT !.left = x] =
        [kind |-> "create", source |-> c.source, parent |-> c.parent, plan |-> c.plan,
         backup |-> c.backup, packed |-> c.packed, activated |-> c.activated, left |-> x]
  BY DEF IsCreation
<1>2. ASSUME NEW d, d = [c EXCEPT !.left = x]
      PROVE  [d EXCEPT !.activated = y] =
              [kind |-> "create", source |-> c.source, parent |-> c.parent, plan |-> c.plan,
               backup |-> c.backup, packed |-> c.packed, activated |-> y, left |-> x]
  <2>1. d =
          [kind |-> "create", source |-> c.source, parent |-> c.parent, plan |-> c.plan,
           backup |-> c.backup, packed |-> c.packed, activated |-> c.activated, left |-> x]
    BY <1>1, <1>2
  <2> QED
    BY <2>1
<1> QED
  BY Zenon, <1>2

LEMMA NewBackup ==
    ASSUME NEW c, IsCreation(c), NEW x, NEW y
    PROVE  [c EXCEPT !.parent = x, !.backup = y] =
            [kind |-> "create", source |-> c.source, parent |-> x, plan |-> c.plan,
             backup |-> y, packed |-> c.packed, activated |-> c.activated, left |-> c.left]
<1>1. [c EXCEPT !.parent = x] =
        [kind |-> "create", source |-> c.source, parent |-> x, plan |-> c.plan,
         backup |-> c.backup, packed |-> c.packed, activated |-> c.activated, left |-> c.left]
  BY DEF IsCreation
<1>2. ASSUME NEW d, d = [c EXCEPT !.parent = x]
      PROVE  [d EXCEPT !.backup = y] =
              [kind |-> "create", source |-> c.source, parent |-> x, plan |-> c.plan,
               backup |-> y, packed |-> c.packed, activated |-> c.activated, left |-> c.left]
  <2>1. d =
          [kind |-> "create", source |-> c.source, parent |-> x, plan |-> c.plan,
           backup |-> c.backup, packed |-> c.packed, activated |-> c.activated, left |-> c.left]
    BY <1>1, <1>2
  <2> QED
    BY <2>1
<1> QED
  BY Zenon, <1>2

LEMMA NewRecovery ==
    ASSUME NEW c, IsRecovery(c), NEW x
    PROVE  IsRecovery([c EXCEPT !.left = x]) /\ [c EXCEPT !.left = x].left = x
  BY DEF IsRecovery

LEMMA NewVersion ==
    ASSUME NEW c, IsMutation(c), NEW x \in Nat
    PROVE  IsMutation([c EXCEPT !.version = x])
  BY DEF IsMutation

\* What they write into the freeze.
LEMMA NewPhase ==
    ASSUME NEW f, IsFreeze(f), NEW x
    PROVE  [f EXCEPT !.phase = x] =
            [phase |-> x, source |-> f.source, tasks |-> f.tasks, packs |-> f.packs,
             commit |-> f.commit]
  BY DEF IsFreeze

LEMMA NewPacks ==
    ASSUME NEW f, IsFreeze(f), NEW x, NEW y
    PROVE  [f EXCEPT !.phase = x, !.packs = y] =
            [phase |-> x, source |-> f.source, tasks |-> f.tasks, packs |-> y,
             commit |-> f.commit]
<1>1. [f EXCEPT !.phase = x] =
        [phase |-> x, source |-> f.source, tasks |-> f.tasks, packs |-> f.packs,
         commit |-> f.commit]
  BY DEF IsFreeze
<1>2. ASSUME NEW d, d = [f EXCEPT !.phase = x]
      PROVE  [d EXCEPT !.packs = y] =
              [phase |-> x, source |-> f.source, tasks |-> f.tasks, packs |-> y,
               commit |-> f.commit]
  <2>1. d = [phase |-> x, source |-> f.source, tasks |-> f.tasks, packs |-> f.packs,
             commit |-> f.commit]
    BY <1>1, <1>2
  <2> QED
    BY <2>1
<1> QED
  BY Zenon, <1>2

LEMMA NewCommit ==
    ASSUME NEW f, IsFreeze(f), NEW x, NEW y
    PROVE  [f EXCEPT !.phase = x, !.commit = y] =
            [phase |-> x, source |-> f.source, tasks |-> f.tasks, packs |-> f.packs,
             commit |-> y]
<1>1. [f EXCEPT !.phase = x] =
        [phase |-> x, source |-> f.source, tasks |-> f.tasks, packs |-> f.packs,
         commit |-> f.commit]
  BY DEF IsFreeze
<1>2. ASSUME NEW d, d = [f EXCEPT !.phase = x]
      PROVE  [d EXCEPT !.commit = y] =
              [phase |-> x, source |-> f.source, tasks |-> f.tasks, packs |-> f.packs,
               commit |-> y]
  <2>1. d = [phase |-> x, source |-> f.source, tasks |-> f.tasks, packs |-> f.packs,
             commit |-> f.commit]
    BY <1>1, <1>2
  <2> QED
    BY <2>1
<1> QED
  BY Zenon, <1>2

LEMMA FreezeThere == ASSUME NEW f, IsFreeze(f) PROVE f # NoFreeze
  BY DEF IsFreeze, NoFreeze

LEMMA NewTip ==
    ASSUME NEW c \in Entry, NEW t \in Task, NEW x \in Nat
    PROVE  [c EXCEPT !.hot[t] = x, !.by = "people"] =
            [hot |-> [c.hot EXCEPT ![t] = x], cold |-> c.cold, by |-> "people"]
<1>1. [c EXCEPT !.hot[t] = x] = [hot |-> [c.hot EXCEPT ![t] = x], cold |-> c.cold, by |-> c.by]
  BY DEF Entry
<1>2. ASSUME NEW d, d = [c EXCEPT !.hot[t] = x]
      PROVE  [d EXCEPT !.by = "people"] =
              [hot |-> [c.hot EXCEPT ![t] = x], cold |-> c.cold, by |-> "people"]
  <2>1. d = [hot |-> [c.hot EXCEPT ![t] = x], cold |-> c.cold, by |-> c.by]
    BY <1>1, <1>2
  <2> QED
    BY <2>1
<1> QED
  BY Zenon, <1>2

LEMMA TipEntry == ASSUME Data PROVE Tip \in Entry /\ HeadId \in Nat \ {0} /\ Tip = log[HeadId]
  BY DEF Data, Tip, HeadId, Last

LEMMA Appended ==
    ASSUME Data, NEW e \in Entry, log' = Append(log, e)
    PROVE  /\ log' \in Seq(Entry) /\ log' # <<>> /\ HeadId' = HeadId + 1 /\ Tip' = e
           /\ log'[HeadId'] = e /\ \A i \in 1..HeadId : log'[i] = log[i]
<1>1. log' \in Seq(Entry) /\ Len(log') = Len(log) + 1 /\ Len(log) \in Nat
  BY DEF Data
<1>2. log'[Len(log) + 1] = e /\ \A i \in 1..Len(log) : log'[i] = log[i]
  BY DEF Data
<1> QED
  BY <1>1, <1>2 DEF Tip, HeadId, Last

\* More commits after it, or more tasks changed under it, leave an account true.
LEMMA ToldStill ==
    ASSUME Data, raced \subseteq raced', log' = log \/ \E e \in Entry : log' = Append(log, e),
           NEW S, NEW source \in 1..HeadId, NEW c \in source + 1 .. HeadId,
           Told(S, source, c)
    PROVE  Told(S, source, c)'
<1>1. HeadId \in Nat \ {0}
  BY TipEntry
<1>2. \A i \in 1..HeadId : log'[i] = log[i]
  BY Appended
<1>3. log'[source] = log[source] /\ \A i \in source + 1 .. c : log'[i] = log[i]
  BY <1>1, <1>2
<1>4. log'[c] = log[c]
  BY <1>1, <1>2
<1> QED
  BY <1>3, <1>4 DEF Told

LEMMA ReceiptedStill ==
    ASSUME Data, raced \subseteq raced', log' = log \/ \E e \in Entry : log' = Append(log, e),
           UNCHANGED receipts, Receipted
    PROVE  Receipted'
<1> SUFFICES ASSUME NEW r \in receipts
             PROVE  /\ r.source \in 1..HeadId' /\ r.commit \in r.source + 1 .. HeadId'
                    /\ Told(r.tasks, r.source, r.commit)'
  BY DEF Receipted
<1>1. HeadId \in Nat \ {0} /\ HeadId' \in {HeadId, HeadId + 1}
  BY TipEntry, Appended DEF HeadId
<1>2. r.source \in 1..HeadId /\ r.commit \in r.source + 1 .. HeadId /\ Told(r.tasks, r.source, r.commit)
  BY DEF Receipted
<1> QED
  BY <1>1, <1>2, ToldStill

(***************************************************************************)
(* The tiers.                                                              *)
(***************************************************************************)

LEMMA WorldSame ==
    ASSUME World, UNCHANGED <<hot, cold, log, freeze, receipts, acked>>,
           stage' \in {stage, NoStage}, raced \subseteq raced'
    PROVE  World' /\ (Before => Before') /\ (After => After')
<1>1. Data' /\ Receipted' /\ HeadId' = HeadId /\ Tip' = Tip
  BY ReceiptedStill DEF World, Data, HeadId, Tip
<1>2. Unfrozen'
  BY <1>1 DEF World, Unfrozen, Settled, InHot, InCold
<1>3. Before => Before'
  BY <1>1 DEF Before, PeopleSince, Moving
<1>4. After => After'
  BY <1>1 DEF After, Moved, InCold
<1>5. Frozen'
  <2> SUFFICES ASSUME freeze # NoFreeze PROVE Frozen'
    BY DEF Frozen
  <2>1. \A id \in freeze.source + 1 .. HeadId : Told(freeze.tasks, freeze.source, id)'
    BY ToldStill DEF World, Frozen
  <2>2. stage = NoStage \/ \A t \in freeze.tasks :
           stage[t] \in Nat /\ (t \notin raced => stage[t] = acked[t])
    BY DEF World, Frozen, Copies
  <2> QED
    BY <1>1, <1>3, <1>4, <2>1, <2>2 DEF World, Frozen, Copies
<1> QED
  BY <1>1, <1>2, <1>3, <1>4, <1>5 DEF World

\* Files of the tasks of a freeze come and go.
LEMMA TiersMove ==
    ASSUME World, freeze # NoFreeze, Before, UNCHANGED <<log, freeze, stage, receipts, acked>>,
           raced \subseteq raced', hot' \in [Task -> Nat], cold' \in [Task -> Nat],
           \A t \in Task \ freeze.tasks : hot'[t] = hot[t] /\ cold'[t] = cold[t],
           \A t \in freeze.tasks \ raced' :
              /\ hot'[t] \in {0, acked[t]} /\ cold'[t] \in {0, acked[t]}
              /\ t \notin freeze.packs => cold'[t] = 0
    PROVE  World' /\ Before'
<1>1. Data' /\ Receipted' /\ HeadId' = HeadId /\ Tip' = Tip
  BY ReceiptedStill DEF World, Data, HeadId, Tip
<1>2. Unfrozen'
  BY <1>1 DEF World, Unfrozen, Settled, InHot, InCold
<1>3. Before'
  BY <1>1 DEF Before, PeopleSince, Moving
<1>4. Frozen'
  <2>1. \A id \in freeze.source + 1 .. HeadId : Told(freeze.tasks, freeze.source, id)'
    BY ToldStill DEF World, Frozen
  <2>2. stage = NoStage \/ Copies(stage, freeze.tasks)'
    BY DEF World, Frozen, Copies
  <2> QED
    BY <1>1, <1>3, <2>1, <2>2 DEF World, Frozen
<1> QED
  BY <1>1, <1>2, <1>3, <1>4 DEF World

\* The freeze takes note of how far its archiving is.
LEMMA FreezeChanges ==
    ASSUME World, freeze # NoFreeze, IsFreeze(freeze'),
           UNCHANGED <<hot, cold, log, stage, receipts, acked, raced>>,
           freeze'.source = freeze.source, freeze'.tasks = freeze.tasks,
           freeze'.packs \in {freeze.packs, freeze.tasks}
    PROVE  /\ Before /\ freeze'.phase \in {"frozen", "activating"} => World' /\ Before'
           /\ After => World' /\ After'
<1>1. Data' /\ Receipted' /\ HeadId' = HeadId /\ Tip' = Tip /\ freeze' # NoFreeze
  BY ReceiptedStill, FreezeThere DEF World, Data, HeadId, Tip
<1>2. Unfrozen'
  BY <1>1 DEF World, Unfrozen, Settled, InHot, InCold
<1>3. Before /\ freeze'.phase \in {"frozen", "activating"} => Before'
  BY <1>1 DEF Before, PeopleSince, Moving
<1>4. After => After'
  BY <1>1 DEF After, Moved, InCold
<1>5. Before' \/ After' => Frozen'
  <2>1. \A id \in freeze.source + 1 .. HeadId : Told(freeze.tasks, freeze.source, id)'
    BY ToldStill DEF World, Frozen
  <2>2. stage = NoStage \/ \A t \in freeze.tasks :
           stage[t] \in Nat /\ (t \notin raced => stage[t] = acked[t])
    BY DEF World, Frozen, Copies
  <2> QED
    BY <1>1, <2>1, <2>2 DEF World, Frozen, Copies, Told
<1> QED
  BY <1>1, <1>2, <1>3, <1>4, <1>5 DEF World

\* The freeze goes when all its tasks are settled.
LEMMA Thawed ==
    ASSUME World, UNCHANGED <<hot, cold, log, receipts, acked, raced>>, freeze' = NoFreeze,
           freeze # NoFreeze => \A t \in freeze.tasks \ raced : Settled(t)
    PROVE  World'
<1>1. Data' /\ Receipted' /\ Tip' = Tip
  BY ReceiptedStill DEF World, Data, Tip
<1>2. \A t \in Task \ raced : Settled(t)
  BY DEF World, Unfrozen
<1>3. Unfrozen'
  BY <1>1, <1>2 DEF Unfrozen, Settled, InHot, InCold
<1> QED
  BY <1>1, <1>3 DEF World, Frozen

\* A receipt repeats what the freeze says of a commit.
LEMMA ReceiptWritten ==
    ASSUME World, freeze # NoFreeze, freeze.commit \in freeze.source + 1 .. HeadId,
           receipts' = receipts \cup {Receipt},
           UNCHANGED <<hot, cold, log, freeze, stage, acked, raced>>
    PROVE  World' /\ (Before => Before') /\ (After => After')
<1>1. Data' /\ HeadId' = HeadId /\ Tip' = Tip
  BY DEF World, Data, HeadId, Tip
<1>2. Unfrozen'
  BY <1>1 DEF World, Unfrozen, Settled, InHot, InCold
<1>3. Before => Before'
  BY <1>1 DEF Before, PeopleSince, Moving
<1>4. After => After'
  BY <1>1 DEF After, Moved, InCold
<1>5. Frozen'
  <2>1. \A id \in freeze.source + 1 .. HeadId : Told(freeze.tasks, freeze.source, id)'
    BY ToldStill DEF World, Frozen
  <2>2. stage = NoStage \/ \A t \in freeze.tasks :
           stage[t] \in Nat /\ (t \notin raced => stage[t] = acked[t])
    BY DEF World, Frozen, Copies
  <2> QED
    BY <1>1, <1>3, <1>4, <2>1, <2>2 DEF World, Frozen, Copies
<1>6. Receipted'
  <2> SUFFICES ASSUME NEW r \in receipts'
               PROVE  /\ r.source \in 1..HeadId /\ r.commit \in r.source + 1 .. HeadId
                      /\ Told(r.tasks, r.source, r.commit)'
    BY <1>1 DEF Receipted
  <2>1. CASE r \in receipts
    BY <2>1, ToldStill DEF World, Receipted
  <2>2. CASE r = Receipt
    <3>1. r.source = freeze.source /\ r.tasks = freeze.tasks /\ r.commit = freeze.commit
      BY <2>2 DEF Receipt
    <3>2. /\ r.source \in 1..HeadId /\ r.commit \in r.source + 1 .. HeadId
          /\ Told(r.tasks, r.source, r.commit)
      BY <3>1 DEF World, Frozen
    <3> QED
      BY <3>2, ToldStill DEF World
  <2> QED
    BY <2>1, <2>2
<1> QED
  BY <1>1, <1>2, <1>3, <1>4, <1>5, <1>6 DEF World

(***************************************************************************)
(* Who is at work.                                                         *)
(***************************************************************************)

\* A step of an archiving, or of a recovery.
LEMMA WorkStep ==
    ASSUME Inv, NEW p \in Procs, pc[p] \in Working, NEW l \in Working,
           pc' = [pc EXCEPT ![p] = l], UNCHANGED owner,
           job' = [q \in Procs |-> job'[q]], \A q \in Procs \ {p} : job'[q] = job[q],
           World', l \in Creating => IsCreation(job'[p]) /\ Archives(p)',
           l \in Recovering => IsRecovery(job'[p]) /\ Recovers(p)'
    PROVE  Inv'
<1>1. pc'[p] = l /\ \A q \in Procs \ {p} : pc'[q] = pc[q] /\ pc[q] \notin Working
  BY DEF Inv, Records, Locked
<1>2. Locked'
  BY <1>1 DEF Inv, Locked
<1>3. \A q \in Procs \ {p} : pc'[q] \notin Creating /\ pc'[q] \notin Recovering
  BY <1>1 DEF Working
<1>4. l \notin Changing
  BY DEF Working, Creating, Preparing, Uncommitted, Undoing, Committed, Recovering, Changing
<1>5. Records'
  BY <1>1, <1>3, <1>4 DEF Inv, Records
<1>6. AtWork'
  BY <1>1, <1>3 DEF AtWork
<1> QED
  BY <1>2, <1>5, <1>6 DEF Inv

\* The end of one.
LEMMA WorkEnds ==
    ASSUME Inv, NEW p \in Procs, pc[p] \in Working, Return(p), World'
    PROVE  Inv'
<1>1. pc'[p] = "idle" /\ \A q \in Procs \ {p} : pc'[q] = pc[q] /\ pc[q] \notin Working
  BY DEF Return, Goto, Inv, Records, Locked
<1>2. /\ pc' = [q \in Procs |-> pc'[q]] /\ job' = [q \in Procs |-> job'[q]]
      /\ \A q \in Procs \ {p} : job'[q] = job[q]
  BY DEF Return, Goto, Inv, Records
<1>3. "idle" \notin Working /\ "idle" \notin Changing
  BY DEF Working, Creating, Preparing, Uncommitted, Undoing, Committed, Recovering, Changing
<1>4. owner' = NoProc
  BY DEF Return, Inv, Locked
<1>5. Locked'
  BY <1>1, <1>3, <1>4, ProcsAssumption DEF Inv, Locked
<1>6. \A q \in Procs : pc'[q] \notin Creating /\ pc'[q] \notin Recovering
  BY <1>1, <1>3 DEF Working
<1>7. Records' /\ AtWork'
  BY <1>1, <1>2, <1>3, <1>6 DEF Inv, Records, AtWork
<1> QED
  BY <1>5, <1>7 DEF Inv

\* The beginning of one.
LEMMA WorkBegins ==
    ASSUME Inv, NEW p \in Procs, pc[p] = "idle", owner = NoProc, owner' = p, NEW l \in Working,
           NEW j, Goto(p, l), job' = [job EXCEPT ![p] = j],
           World', l \in Creating => IsCreation(j) /\ Archives(p)',
           l \in Recovering => IsRecovery(j) /\ Recovers(p)'
    PROVE  Inv'
<1>1. /\ pc'[p] = l /\ job'[p] = j
      /\ \A q \in Procs \ {p} : pc'[q] = pc[q] /\ job'[q] = job[q] /\ pc[q] \notin Working
      /\ pc' = [q \in Procs |-> pc'[q]] /\ job' = [q \in Procs |-> job'[q]]
  BY ProcsAssumption DEF Goto, Inv, Records, Locked
<1>2. Locked'
  BY <1>1 DEF Inv, Locked
<1>3. \A q \in Procs \ {p} : pc'[q] \notin Creating /\ pc'[q] \notin Recovering
  BY <1>1 DEF Working
<1>4. l \notin Changing
  BY DEF Working, Creating, Preparing, Uncommitted, Undoing, Committed, Recovering, Changing
<1>5. Records'
  BY <1>1, <1>3, <1>4 DEF Inv, Records
<1>6. AtWork'
  BY <1>1, <1>3 DEF AtWork
<1> QED
  BY <1>2, <1>5, <1>6 DEF Inv

LEMMA CreateStep ==
    ASSUME Inv, NEW p \in Procs, pc[p] \in Creating, NEW l \in Creating,
           Goto(p, l), UNCHANGED owner,
           job' = [q \in Procs |-> job'[q]], \A q \in Procs \ {p} : job'[q] = job[q],
           World', IsCreation(job'[p]), Archives(p)'
    PROVE  Inv'
<1>1. pc[p] \in Working /\ l \in Working
  BY DEF Working
<1>2. l \notin Recovering
  BY DEF Creating, Preparing, Uncommitted, Undoing, Committed, Recovering
<1> QED
  BY <1>1, <1>2, WorkStep DEF Goto

LEMMA RecoverStep ==
    ASSUME Inv, NEW p \in Procs, pc[p] \in Recovering, NEW l \in Recovering,
           Goto(p, l), UNCHANGED owner,
           job' = [q \in Procs |-> job'[q]], \A q \in Procs \ {p} : job'[q] = job[q],
           World', IsRecovery(job'[p]), Recovers(p)'
    PROVE  Inv'
<1>1. pc[p] \in Working /\ l \in Working
  BY DEF Working
<1>2. l \notin Creating
  BY DEF Creating, Preparing, Uncommitted, Undoing, Committed, Recovering
<1> QED
  BY <1>1, <1>2, WorkStep DEF Goto

LEMMA Here ==
    ASSUME Inv, NEW p \in Procs, pc[p] \in Creating
    PROVE  pc[p] \in Working /\ owner = p /\ World /\ IsCreation(job[p]) /\ Archives(p)
  BY DEF Working, Inv, Locked, Records, AtWork

LEMMA Goes ==
    ASSUME Inv, NEW p \in Procs, NEW l, Goto(p, l)
    PROVE  pc' = [pc EXCEPT ![p] = l] /\ pc'[p] = l
  BY DEF Goto, Inv, Records

LEMMA Notes ==
    ASSUME Inv, NEW p \in Procs, NEW j, job' = [job EXCEPT ![p] = j]
    PROVE  /\ job' = [q \in Procs |-> job'[q]] /\ job'[p] = j
           /\ \A q \in Procs \ {p} : job'[q] = job[q]
  BY DEF Inv, Records

\* What a step writes into the record of its archiving.
LEMMA NotesLeft ==
    ASSUME Inv, NEW p \in Procs, pc[p] \in Creating, NEW x,
           job' = [job EXCEPT ![p].left = x]
    PROVE  /\ job' = [q \in Procs |-> job'[q]] /\ \A q \in Procs \ {p} : job'[q] = job[q]
           /\ IsCreation(job'[p]) /\ job'[p].plan = job[p].plan
           /\ job'[p].backup = job[p].backup /\ job'[p].packed = job[p].packed
           /\ job'[p].activated = job[p].activated /\ job'[p].left = x
<1> DEFINE c == job[p]
<1>1. IsCreation(c) /\ job = [q \in Procs |-> job[q]]
  BY DEF Inv, Records
<1>2. job' = [job EXCEPT ![p] = [c EXCEPT !.left = x]]
  BY <1>1
<1>3. [c EXCEPT !.left = x] =
        [kind |-> "create", source |-> c.source, parent |-> c.parent, plan |-> c.plan,
         backup |-> c.backup, packed |-> c.packed, activated |-> c.activated, left |-> x]
  BY Zenon, <1>1, NewLeft
<1>4. job' = [job EXCEPT ![p] =
        [kind |-> "create", source |-> c.source, parent |-> c.parent, plan |-> c.plan,
         backup |-> c.backup, packed |-> c.packed, activated |-> c.activated, left |-> x]]
  BY Zenon, <1>2, <1>3
<1> QED
  BY <1>1, <1>4 DEF IsCreation

LEMMA NotesPacked ==
    ASSUME Inv, NEW p \in Procs, pc[p] \in Creating, NEW x,
           job' = [job EXCEPT ![p].packed = x]
    PROVE  /\ job' = [q \in Procs |-> job'[q]] /\ \A q \in Procs \ {p} : job'[q] = job[q]
           /\ IsCreation(job'[p]) /\ job'[p].plan = job[p].plan
           /\ job'[p].backup = job[p].backup /\ job'[p].packed = x
           /\ job'[p].activated = job[p].activated /\ job'[p].left = job[p].left
<1> DEFINE c == job[p]
<1>1. IsCreation(c) /\ job = [q \in Procs |-> job[q]]
  BY DEF Inv, Records
<1>2. job' = [job EXCEPT ![p] = [c EXCEPT !.packed = x]]
  BY <1>1
<1>3. [c EXCEPT !.packed = x] =
        [kind |-> "create", source |-> c.source, parent |-> c.parent, plan |-> c.plan,
         backup |-> c.backup, packed |-> x, activated |-> c.activated, left |-> c.left]
  BY Zenon, <1>1, NewPacked
<1>4. job' = [job EXCEPT ![p] =
        [kind |-> "create", source |-> c.source, parent |-> c.parent, plan |-> c.plan,
         backup |-> c.backup, packed |-> x, activated |-> c.activated, left |-> c.left]]
  BY Zenon, <1>2, <1>3
<1> QED
  BY <1>1, <1>4 DEF IsCreation

LEMMA NotesCopy ==
    ASSUME Inv, NEW p \in Procs, NEW t \in Task, CopyPack(p, t)
    PROVE  /\ job' = [q \in Procs |-> job'[q]] /\ \A q \in Procs \ {p} : job'[q] = job[q]
           /\ IsCreation(job'[p]) /\ job'[p].plan = job[p].plan
           /\ job'[p].backup = job[p].backup /\ job'[p].packed = job[p].packed
           /\ job'[p].activated = job[p].activated \cup {t}
           /\ job'[p].left = IF job[p].left = {t} THEN Selected(p) ELSE job[p].left \ {t}
<1> DEFINE c == job[p]
           y == c.activated \cup {t}
           x == IF c.left = {t} THEN Selected(p) ELSE c.left \ {t}
<1>1. IsCreation(c) /\ job = [q \in Procs |-> job[q]]
  <2>1. pc[p] \in Creating
    BY DEF CopyPack, Creating, Uncommitted
  <2> QED
    BY <2>1 DEF Inv, Records
<1>2. PICK j : job' = [job EXCEPT ![p] = j] /\ j = [c EXCEPT !.left = x, !.activated = y]
  BY Zenon DEF CopyPack, Inv, Records
<1> HIDE DEF c, x, y
<1>3. j = [kind |-> "create", source |-> c.source, parent |-> c.parent, plan |-> c.plan,
           backup |-> c.backup, packed |-> c.packed, activated |-> y, left |-> x]
  BY Zenon, <1>1, <1>2, NewActivated
<1>4. /\ IsCreation(j) /\ j.plan = c.plan /\ j.backup = c.backup /\ j.packed = c.packed
      /\ j.activated = y /\ j.left = x
  BY <1>3 DEF IsCreation
<1>5. job' = [job EXCEPT ![p] = j]
  BY <1>2
<1>6. /\ job' = [q \in Procs |-> job'[q]] /\ \A q \in Procs \ {p} : job'[q] = job[q]
      /\ job'[p] = j
  BY <1>1, <1>5
<1> QED
  BY Zenon, <1>4, <1>6 DEF c, x, y

(***************************************************************************)
(* Archiving.                                                              *)
(***************************************************************************)

LEMMA PreparingKeeps ==
    ASSUME Inv, NEW p \in Procs,
           (\E S \in SUBSET Task : Verify(p, S)) \/ BackUp(p) \/ WriteFreeze(p)
    PROVE  Inv'
<1> USE DEF Selected, Preparing, Creating, Uncommitted, Undoing, Committed
<1>1. ASSUME NEW S \in SUBSET Task, Verify(p, S) PROVE Inv'
  <2> DEFINE j == [kind |-> "create", source |-> HeadId, parent |-> 0, plan |-> On(S, hot),
                   backup |-> NoStage, packed |-> NoStage, activated |-> {}, left |-> {}]
  <2>1. /\ pc[p] = "idle" /\ owner = NoProc /\ freeze = NoFreeze /\ Clean /\ owner' = p
        /\ job' = [job EXCEPT ![p] = j] /\ Goto(p, "verified")
        /\ \A t \in S : hot[t] # 0 /\ cold[t] = 0
        /\ UNCHANGED <<hot, cold, log, freeze, stage, receipts, acked, raced>>
    BY <1>1 DEF Verify
  <2>2. World'
    BY <2>1, WorldSame DEF Inv
  <2>3. job'[p] = j /\ pc'[p] = "verified"
    <3> HIDE DEF j
    <3> QED
      BY <2>1 DEF Goto, Inv, Records
  <2>4. j.plan = On(S, hot) /\ DOMAIN j.plan = S /\ IsCreation(j)
    <3>1. DOMAIN On(S, hot) = S
      BY DEF On
    <3>2. j.plan = On(S, hot) /\ j.source = HeadId /\ j.parent = 0 /\ j.backup = NoStage
      OBVIOUS
    <3>3. j.packed = NoStage /\ j.activated = {} /\ j.left = {}
      OBVIOUS
    <3> QED
      BY Zenon, <3>1, <3>2, <3>3 DEF IsCreation
  <2>5. \A t \in S \ raced : /\ acked[t] # 0 /\ Tip.hot[t] = acked[t] /\ Tip.cold[t] = 0
                             /\ InHot(t) /\ j.plan[t] = acked[t]
    BY <2>1, <2>4 DEF Clean, Inv, World, Unfrozen, Settled, InHot, InCold, On
  <2>6. Archives(p)'
    <3>1. PlanKept(p)'
      BY <2>1, <2>3, <2>4, <2>5 DEF PlanKept
    <3>2. FreezeKept(p)'
      BY <2>1, <2>3 DEF FreezeKept
    <3>3. \A t \in S \ raced : Progress(p, t)'
      BY <2>1, <2>3, <2>5 DEF Progress, Moving, InHot, Tip
    <3> QED
      BY <2>1, <2>3, <2>4, <3>1, <3>2, <3>3 DEF Archives
  <2> HIDE DEF j
  <2>7. "verified" \in Working /\ "verified" \notin Recovering
    BY DEF Working, Recovering
  <2> QED
    BY <2>1, <2>2, <2>4, <2>6, <2>7, WorkBegins
<1>2. CASE BackUp(p)
  <2>1. /\ pc[p] = "verified" /\ Goto(p, "saved")
        /\ UNCHANGED <<hot, cold, log, freeze, stage, owner, receipts, acked, raced>>
    BY <1>2 DEF BackUp
  <2>2. Archives(p) /\ World /\ owner = p /\ World' /\ IsCreation(job[p])
    BY <2>1, WorldSame, Here
  <2> DEFINE j == job[p]
             g == [kind |-> "create", source |-> j.source, parent |-> HeadId, plan |-> j.plan,
                   backup |-> On(Selected(p), hot), packed |-> j.packed,
                   activated |-> j.activated, left |-> j.left]
  <2>3. /\ job' = [job EXCEPT ![p] = [j EXCEPT !.parent = HeadId, !.backup = On(Selected(p), hot)]]
        /\ IsCreation(j)
    BY <1>2, <2>2 DEF BackUp
  <2>4. /\ job' = [job EXCEPT ![p] = g] /\ IsCreation(g) /\ g.parent = HeadId
        /\ g.plan = job[p].plan /\ g.backup = On(Selected(p), hot)
        /\ g.activated = job[p].activated
    <3>1. [j EXCEPT !.parent = HeadId, !.backup = On(Selected(p), hot)] = g
      BY Zenon, <2>3, NewBackup
    <3>2. job' = [job EXCEPT ![p] = g]
      BY Zenon, <2>3, <3>1
    <3> QED
      BY <3>2 DEF IsCreation
  <2> HIDE DEF g
  <2>5. job'[p] = g /\ pc'[p] = "saved"
    BY <2>1, <2>4, Notes, Goes
  <2>6. Archives(p)'
    <3>1. HeadId \in Nat \ {0} /\ HeadId' = HeadId
      BY <2>1, <2>2, TipEntry DEF World, HeadId
    <3>2. \A t \in Selected(p) : g.backup[t] \in Nat /\ (t \notin raced => g.backup[t] = acked[t])
      <4>1. \A t \in Selected(p) : g.backup[t] = hot[t] /\ t \in Task
        BY <2>2, <2>4 DEF On, Archives, PlanKept
      <4> QED
        BY <2>1, <2>2, <4>1 DEF Archives, Progress, InHot, World, Data
    <3>3. PlanKept(p)'
      BY <2>1, <2>2, <2>4, <2>5, <3>1, <3>2 DEF PlanKept, Archives, PeopleSince, Copies
    <3>4. FreezeKept(p)'
      BY <2>1, <2>2, <2>4, <2>5 DEF FreezeKept, Archives
    <3>5. \A t \in Selected(p) \ raced : Progress(p, t)'
      BY <2>1, <2>2, <2>4, <2>5 DEF Archives, Progress, Moving, InHot, Tip
    <3> QED
      BY <2>1, <2>4, <2>5, <3>3, <3>4, <3>5 DEF Archives
  <2> QED
    BY <2>1, <2>2, <2>4, <2>5, <2>6, Notes, CreateStep
<1>3. CASE WriteFreeze(p)
  <2>1. /\ pc[p] = "saved" /\ Goto(p, "frozen") /\ stage' = job[p].backup
        /\ freeze' = [phase |-> "frozen", source |-> job[p].parent, tasks |-> Selected(p),
                      packs |-> {}, commit |-> 0]
        /\ UNCHANGED <<hot, cold, log, owner, job, receipts, acked, raced>>
    BY <1>3 DEF WriteFreeze
  <2>2. Archives(p) /\ World /\ owner = p /\ IsCreation(job[p])
    BY <2>1, Here
  <2>3. pc'[p] = "frozen"
    BY <2>1, Goes
  <2>4. /\ IsFreeze(freeze') /\ freeze' # NoFreeze /\ freeze'.tasks = Selected(p)
        /\ freeze'.source = job[p].parent /\ freeze'.packs = {} /\ freeze'.phase = "frozen"
        /\ freeze = NoFreeze
    BY <2>1, <2>2 DEF IsFreeze, NoFreeze, Archives, FreezeKept
  <2>5. HeadId \in Nat \ {0} /\ HeadId' = HeadId /\ Tip' = Tip
    BY <2>1, <2>2, TipEntry DEF World, HeadId, Tip
  <2>6. job[p].parent \in 1..HeadId /\ PeopleSince(job[p].parent)' /\ Selected(p) \subseteq Task
    BY <2>1, <2>2, <2>5 DEF Archives, PlanKept, PeopleSince
  <2>7. Before'
    BY <2>1, <2>2, <2>4, <2>5, <2>6 DEF Before, Archives, Progress, InHot, Moving
  <2>8. World'
    <3>1. Frozen'
      <4>1. \A id \in job[p].parent + 1 .. HeadId : Told(Selected(p), job[p].parent, id)'
        <5> SUFFICES ASSUME NEW id \in job[p].parent + 1 .. HeadId
                     PROVE  Told(Selected(p), job[p].parent, id)'
          OBVIOUS
        <5>1. log'[job[p].parent + 1].by = "people" /\ job[p].parent + 1 \in job[p].parent + 1 .. id
          BY <2>1, <2>5, <2>6 DEF PeopleSince
        <5> QED
          BY <2>1, <5>1 DEF Told
      <4>2. Copies(job[p].backup, Selected(p))'
        BY <2>1, <2>2 DEF Archives, PlanKept, Copies
      <4> QED
        BY <2>1, <2>4, <2>5, <2>6, <2>7, <4>1, <4>2 DEF Frozen
    <3>2. Unfrozen'
      BY <2>1, <2>2, <2>4, <2>5 DEF Unfrozen, World, Settled, InHot, InCold
    <3>3. Data' /\ Receipted'
      BY <2>1, <2>2, ReceiptedStill DEF World, Data
    <3> QED
      BY <3>1, <3>2, <3>3 DEF World
  <2>9. Archives(p)'
    <3>1. PlanKept(p)'
      BY <2>1, <2>2, <2>3 DEF PlanKept, Archives, Copies
    <3>2. FreezeKept(p)'
      BY <2>1, <2>2, <2>3, <2>4, <2>7 DEF FreezeKept
    <3>3. \A t \in Selected(p) \ raced : Progress(p, t)'
      BY <2>1, <2>2, <2>3 DEF Archives, Progress, InHot
    <3> QED
      BY <2>1, <3>1, <3>2, <3>3 DEF Archives
  <2>10. job' = [q \in Procs |-> job'[q]] /\ \A q \in Procs \ {p} : job'[q] = job[q]
    BY <2>1 DEF Inv, Records
  <2> QED
    BY <2>1, <2>2, <2>8, <2>9, <2>10, CreateStep
<1> QED
  BY <1>1, <1>2, <1>3

\* The packs are made, and the plan is verified again: the tiers stay.
LEMMA PackingKeeps ==
    ASSUME Inv, NEW p \in Procs, Pack(p) \/ Recheck(p) \/ MarkActivating(p)
    PROVE  Inv'
<1> USE DEF Selected, Preparing, Creating, Uncommitted, Undoing, Committed
<1>1. CASE Pack(p)
  <2>1. /\ pc[p] = "frozen" /\ Goto(p, "packed")
        /\ job' = [job EXCEPT ![p].packed = On(Selected(p), hot)]
        /\ UNCHANGED <<hot, cold, log, freeze, stage, owner, receipts, acked, raced>>
    BY <1>1 DEF Pack
  <2>2. Archives(p) /\ World /\ World' /\ Before' /\ pc'[p] = "packed"
    BY <2>1, WorldSame, Here, Goes DEF Archives, FreezeKept
  <2>3. /\ job' = [q \in Procs |-> job'[q]] /\ \A q \in Procs \ {p} : job'[q] = job[q]
        /\ IsCreation(job'[p]) /\ job'[p].plan = job[p].plan
        /\ job'[p].backup = job[p].backup /\ job'[p].packed = On(Selected(p), hot)
        /\ job'[p].activated = job[p].activated
    BY <2>1, NotesPacked
  <2>4. \A t \in Selected(p) :
           /\ job'[p].packed[t] \in Nat /\ (t \notin raced => job'[p].packed[t] = acked[t])
    <3>1. \A t \in Selected(p) : job'[p].packed[t] = hot[t] /\ t \in Task
      BY <2>2, <2>3 DEF On, Archives, PlanKept
    <3> QED
      BY <2>1, <2>2, <3>1 DEF Archives, Progress, InHot, World, Data
  <2>5. Archives(p)'
    <3>1. PlanKept(p)'
      BY <2>1, <2>2, <2>3, <2>4 DEF PlanKept, Archives, Copies
    <3>2. FreezeKept(p)'
      BY <2>1, <2>2, <2>3 DEF FreezeKept, Archives
    <3>3. \A t \in Selected(p) \ raced : Progress(p, t)'
      BY <2>1, <2>2, <2>3 DEF Archives, Progress, InHot
    <3> QED
      BY <2>1, <2>3, <3>1, <3>2, <3>3 DEF Archives
  <2> QED
    BY <2>1, <2>2, <2>3, <2>5, CreateStep
<1>2. CASE Recheck(p)
  <2>1. PICK l \in {"checked", "undo"} :
        /\ pc[p] = "packed" /\ Goto(p, l)
        /\ UNCHANGED <<hot, cold, log, freeze, stage, owner, job, receipts, acked, raced>>
    BY <1>2 DEF Recheck
  <2>2. Archives(p) /\ World /\ World' /\ Before' /\ pc'[p] = l /\ IsCreation(job[p])
    BY <2>1, WorldSame, Here, Goes DEF Archives, FreezeKept
  <2>3. Archives(p)'
    <3>1. PlanKept(p)'
      BY <2>1, <2>2 DEF PlanKept, Archives, Copies
    <3>2. FreezeKept(p)'
      BY <2>1, <2>2 DEF FreezeKept, Archives
    <3>3. \A t \in Selected(p) \ raced : Progress(p, t)'
      BY <2>1, <2>2 DEF Archives, Progress, InHot
    <3> QED
      BY <2>1, <3>1, <3>2, <3>3 DEF Archives
  <2>4. job' = [q \in Procs |-> job'[q]] /\ \A q \in Procs \ {p} : job'[q] = job[q]
    BY <2>1 DEF Inv, Records
  <2> QED
    BY <2>1, <2>2, <2>3, <2>4, CreateStep
<1>3. CASE MarkActivating(p)
  <2>1. /\ pc[p] = "checked" /\ Goto(p, "copying")
        /\ freeze' = [freeze EXCEPT !.phase = "activating", !.packs = Selected(p)]
        /\ job' = [job EXCEPT ![p].left = Selected(p)]
        /\ UNCHANGED <<hot, cold, log, stage, owner, receipts, acked, raced>>
    BY <1>3 DEF MarkActivating
  <2>2. /\ Archives(p) /\ World /\ Before /\ pc'[p] = "copying" /\ IsCreation(job[p])
        /\ freeze # NoFreeze /\ freeze.tasks = Selected(p)
    BY <2>1, Here, Goes DEF Archives, FreezeKept
  <2>3. /\ job' = [q \in Procs |-> job'[q]] /\ \A q \in Procs \ {p} : job'[q] = job[q]
        /\ IsCreation(job'[p]) /\ job'[p].left = Selected(p) /\ job'[p].plan = job[p].plan
        /\ job'[p].backup = job[p].backup /\ job'[p].packed = job[p].packed
        /\ job'[p].activated = job[p].activated
    BY <2>1, NotesLeft
  <2>4. /\ IsFreeze(freeze') /\ freeze' # NoFreeze /\ freeze'.phase = "activating"
        /\ freeze'.source = freeze.source /\ freeze'.tasks = freeze.tasks
        /\ freeze'.packs = Selected(p)
    <3>1. IsFreeze(freeze)
      BY <2>2 DEF World, Frozen
    <3>2. freeze' = [phase |-> "activating", source |-> freeze.source, tasks |-> freeze.tasks,
                     packs |-> Selected(p), commit |-> freeze.commit]
      BY Zenon, <2>1, <3>1, NewPacks
    <3>3. /\ IsFreeze(freeze') /\ freeze'.phase = "activating" /\ freeze'.packs = Selected(p)
          /\ freeze'.source = freeze.source /\ freeze'.tasks = freeze.tasks
      BY <3>2 DEF IsFreeze
    <3> QED
      BY <3>3, FreezeThere
  <2>5. World' /\ Before'
    BY <2>1, <2>2, <2>4, FreezeChanges
  <2>6. Archives(p)'
    <3>1. PlanKept(p)'
      BY <2>1, <2>2, <2>3 DEF PlanKept, Archives, Copies
    <3>2. FreezeKept(p)'
      BY <2>1, <2>2, <2>3, <2>4, <2>5 DEF FreezeKept
    <3>3. \A t \in Selected(p) \ raced : Progress(p, t)'
      BY <2>1, <2>2, <2>3 DEF Archives, Progress, InHot
    <3> QED
      BY <2>1, <2>3, <3>1, <3>2, <3>3 DEF Archives
  <2> QED
    BY <2>1, <2>2, <2>3, <2>5, <2>6, CreateStep
<1> QED
  BY <1>1, <1>2, <1>3

\* One pack is copied.
LEMMA CopyingKeeps ==
    ASSUME Inv, NEW p \in Procs, NEW t \in Task, CopyPack(p, t)
    PROVE  Inv'
<1> DEFINE left == job[p].left
           l == IF left = {t} THEN "unlinking" ELSE "copying"
<1>1. /\ pc[p] = "copying" /\ t \in left /\ Goto(p, l)
      /\ cold' = [cold EXCEPT ![t] = job[p].packed[t]]
      /\ UNCHANGED <<hot, log, freeze, stage, owner, receipts, acked, raced>>
  BY DEF CopyPack, Loop
<1>2. /\ job' = [q \in Procs |-> job'[q]] /\ \A q \in Procs \ {p} : job'[q] = job[q]
      /\ IsCreation(job'[p]) /\ job'[p].plan = job[p].plan
      /\ job'[p].backup = job[p].backup /\ job'[p].packed = job[p].packed
      /\ job'[p].activated = job[p].activated \cup {t}
      /\ job'[p].left = IF left = {t} THEN Selected(p) ELSE left \ {t}
  BY NotesCopy
<1> USE DEF Selected, Preparing, Creating, Uncommitted, Undoing, Committed
<1>3. /\ Archives(p) /\ World /\ Before /\ pc'[p] = l /\ IsCreation(job[p])
      /\ freeze # NoFreeze /\ freeze.tasks = Selected(p) /\ freeze.packs = Selected(p)
      /\ Selected(p) \subseteq Task /\ left \subseteq Selected(p)
  BY <1>1, Here, Goes DEF Archives, FreezeKept, PlanKept
<1>5. /\ job[p].packed[t] \in Nat /\ (t \notin raced => job[p].packed[t] = acked[t])
      /\ \A u \in Selected(p) \ raced : /\ hot[u] = acked[u]
                                        /\ u \notin left => cold[u] = acked[u]
                                        /\ cold[u] = 0 \/ u \in job[p].activated
  BY <1>1, <1>3 DEF Archives, PlanKept, Copies, Progress
<1>6. /\ cold' \in [Task -> Nat] /\ cold'[t] = job[p].packed[t]
      /\ \A u \in Task \ {t} : cold'[u] = cold[u]
  BY <1>1, <1>3, <1>5 DEF World, Data
<1>7. World' /\ Before'
  <2>1. \A u \in freeze.tasks \ raced : cold[u] \in {0, acked[u]}
    BY <1>3 DEF Before, Moving
  <2>2. hot' \in [Task -> Nat]
    BY <1>1, <1>3 DEF World, Data
  <2>3. \A u \in freeze.tasks \ raced' :
           hot'[u] \in {0, acked[u]} /\ cold'[u] \in {0, acked[u]} /\ u \in freeze.packs
    BY <1>1, <1>3, <1>5, <1>6, <2>1
  <2> QED
    BY <1>1, <1>3, <1>6, <2>2, <2>3, TiersMove
<1>8. Archives(p)'
  <2>1. PlanKept(p)'
    BY <1>1, <1>2, <1>3 DEF PlanKept, Archives, Copies
  <2>2. FreezeKept(p)'
    BY <1>1, <1>2, <1>3, <1>7 DEF FreezeKept
  <2>3. \A u \in Selected(p) \ raced : Progress(p, u)'
    BY <1>1, <1>2, <1>3, <1>5, <1>6 DEF Progress
  <2> QED
    BY <1>1, <1>2, <2>1, <2>2, <2>3 DEF Archives
<1> QED
  BY <1>1, <1>2, <1>3, <1>7, <1>8, CreateStep

\* A copy breaks off: the task is not spoken of any more.
LEMMA CopyFaultKeeps ==
    ASSUME Inv, NEW p \in Procs, NEW t \in Task, CopyFault(p, t)
    PROVE  Inv'
<1> USE DEF Selected, Preparing, Creating, Uncommitted, Undoing, Committed
<1>1. /\ pc[p] = "copying" /\ t \in job[p].left /\ Goto(p, "undo")
      /\ cold' = [cold EXCEPT ![t] = job[p].packed[t]] /\ raced' = raced \cup {t}
      /\ UNCHANGED <<hot, log, freeze, stage, owner, job, receipts, acked>>
  BY DEF CopyFault
<1>2. /\ Archives(p) /\ World /\ Before /\ pc'[p] = "undo" /\ IsCreation(job[p])
      /\ freeze # NoFreeze /\ freeze.tasks = Selected(p) /\ freeze.packs = Selected(p)
      /\ Selected(p) \subseteq Task /\ job[p].left \subseteq Selected(p)
  BY <1>1, Here, Goes DEF Archives, FreezeKept, PlanKept
<1>3. job[p].packed[t] \in Nat
  BY <1>1, <1>2 DEF Archives, PlanKept, Copies
<1>4. cold' \in [Task -> Nat] /\ \A u \in Task \ {t} : cold'[u] = cold[u]
  BY <1>1, <1>2, <1>3 DEF World, Data
<1>5. World' /\ Before'
  <2>1. \A u \in freeze.tasks \ raced : hot[u] \in {0, acked[u]} /\ cold[u] \in {0, acked[u]}
    BY <1>2 DEF Before, Moving
  <2>2. hot' \in [Task -> Nat]
    BY <1>1, <1>2 DEF World, Data
  <2>3. \A u \in freeze.tasks \ raced' :
           hot'[u] \in {0, acked[u]} /\ cold'[u] \in {0, acked[u]} /\ u \in freeze.packs
    BY <1>1, <1>2, <1>4, <2>1
  <2> QED
    BY <1>1, <1>2, <1>4, <2>2, <2>3, TiersMove
<1>6. Archives(p)'
  <2>1. PlanKept(p)'
    BY <1>1, <1>2 DEF PlanKept, Archives, Copies
  <2>2. FreezeKept(p)'
    BY <1>1, <1>2, <1>5 DEF FreezeKept
  <2>3. \A u \in Selected(p) \ raced' : Progress(p, u)'
    BY <1>1, <1>2, <1>4 DEF Archives, Progress
  <2> QED
    BY <1>1, <2>1, <2>2, <2>3 DEF Archives
<1>7. job' = [q \in Procs |-> job'[q]] /\ \A q \in Procs \ {p} : job'[q] = job[q]
  BY <1>1 DEF Inv, Records
<1> QED
  BY <1>1, <1>2, <1>5, <1>6, <1>7, CreateStep

\* One hot file is removed.
LEMMA UnlinkingKeeps ==
    ASSUME Inv, NEW p \in Procs, NEW t \in Task, Unlink(p, t)
    PROVE  Inv'
<1> USE DEF Selected, Preparing, Creating, Uncommitted, Undoing, Committed
<1> DEFINE left == job[p].left
           l == IF left = {t} THEN "staging" ELSE "unlinking"
<1>1. /\ pc[p] = "unlinking" /\ t \in left /\ Goto(p, l)
      /\ hot' = [hot EXCEPT ![t] = 0] /\ job' = [job EXCEPT ![p].left = left \ {t}]
      /\ UNCHANGED <<cold, log, freeze, stage, owner, receipts, acked, raced>>
  BY DEF Unlink, Loop
<1>2. /\ job' = [q \in Procs |-> job'[q]] /\ \A q \in Procs \ {p} : job'[q] = job[q]
      /\ IsCreation(job'[p]) /\ job'[p].plan = job[p].plan
      /\ job'[p].backup = job[p].backup /\ job'[p].packed = job[p].packed
      /\ job'[p].activated = job[p].activated /\ job'[p].left = left \ {t}
  BY <1>1, NotesLeft
<1>3. /\ Archives(p) /\ World /\ Before /\ pc'[p] = l /\ IsCreation(job[p])
      /\ freeze # NoFreeze /\ freeze.tasks = Selected(p) /\ freeze.packs = Selected(p)
      /\ Selected(p) \subseteq Task /\ left \subseteq Selected(p)
  BY <1>1, Here, Goes DEF Archives, FreezeKept, PlanKept
<1>4. \A u \in Selected(p) \ raced : /\ cold[u] = acked[u] /\ (u \notin left => hot[u] = 0)
                                     /\ cold[u] = 0 \/ u \in job[p].activated
  BY <1>1, <1>3 DEF Archives, Progress
<1>5. /\ hot' \in [Task -> Nat] /\ cold' \in [Task -> Nat] /\ hot'[t] = 0
      /\ \A u \in Task \ {t} : hot'[u] = hot[u]
  BY <1>1, <1>3 DEF World, Data
<1>6. World' /\ Before'
  <2>1. \A u \in freeze.tasks \ raced : hot[u] \in {0, acked[u]}
    BY <1>3 DEF Before, Moving
  <2>2. \A u \in freeze.tasks \ raced' :
           hot'[u] \in {0, acked[u]} /\ cold'[u] \in {0, acked[u]} /\ u \in freeze.packs
    BY <1>1, <1>3, <1>4, <1>5, <2>1
  <2> QED
    BY <1>1, <1>3, <1>5, <2>2, TiersMove
<1>7. Archives(p)'
  <2>1. PlanKept(p)'
    BY <1>1, <1>2, <1>3 DEF PlanKept, Archives, Copies
  <2>2. FreezeKept(p)'
    BY <1>1, <1>2, <1>3, <1>6 DEF FreezeKept
  <2>3. \A u \in Selected(p) \ raced : Progress(p, u)'
    BY <1>1, <1>2, <1>3, <1>4, <1>5 DEF Progress, InCold
  <2> QED
    BY <1>1, <1>2, <2>1, <2>2, <2>3 DEF Archives
<1> QED
  BY <1>1, <1>2, <1>3, <1>6, <1>7, CreateStep

LEMMA StagingKeeps ==
    ASSUME Inv, NEW p \in Procs, StageIndex(p) \/ RemoveIndex(p) \/ RefuseRemoval(p)
    PROVE  Inv'
<1> USE DEF Selected, Preparing, Creating, Uncommitted, Undoing, Committed
<1>1. PICK l \in {"removing", "committing", "undo"} :
      /\ pc[p] \in {"staging", "removing"} /\ Goto(p, l)
      /\ UNCHANGED <<hot, cold, log, freeze, stage, owner, job, receipts, acked, raced>>
  BY DEF StageIndex, RemoveIndex, RefuseRemoval
<1>2. Archives(p) /\ World /\ World' /\ Before' /\ pc'[p] = l /\ IsCreation(job[p])
  BY <1>1, WorldSame, Here, Goes DEF Archives, FreezeKept
<1>3. Archives(p)'
  <2>1. PlanKept(p)'
    BY <1>1, <1>2 DEF PlanKept, Archives, Copies
  <2>2. FreezeKept(p)'
    BY <1>1, <1>2 DEF FreezeKept, Archives
  <2>3. \A t \in Selected(p) \ raced : Progress(p, t)'
    BY <1>1, <1>2 DEF Archives, Progress, InCold
  <2> QED
    BY <1>1, <2>1, <2>2, <2>3 DEF Archives
<1>4. job' = [q \in Procs |-> job'[q]] /\ \A q \in Procs \ {p} : job'[q] = job[q]
  BY <1>1 DEF Inv, Records
<1> QED
  BY <1>1, <1>2, <1>3, <1>4, CreateStep

\* The commit: every task that is being moved has been moved, and if HEAD was the
\* source, the commit tells so.
LEMMA CommitKeeps ==
    ASSUME Inv, NEW p \in Procs, Commit(p)
    PROVE  Inv'
<1> USE DEF Selected, Preparing, Creating, Uncommitted, Undoing, Committed
<1> DEFINE S == Selected(p)
           e == [hot |-> Put(Tip.hot, S, hot), cold |-> Put(Tip.cold, S, cold), by |-> "archive"]
<1>1. /\ pc[p] = "committing" /\ Goto(p, "recording") /\ log' = Append(log, e)
      /\ UNCHANGED <<hot, cold, freeze, stage, owner, job, receipts, acked, raced>>
  BY DEF Commit
<1>2. /\ Archives(p) /\ World /\ Before /\ pc'[p] = "recording" /\ IsCreation(job[p])
      /\ freeze # NoFreeze /\ freeze.tasks = S /\ S \subseteq Task
  BY <1>1, Here, Goes DEF Archives, FreezeKept, PlanKept
<1>3. Tip \in Entry /\ HeadId \in Nat \ {0} /\ Tip = log[HeadId] /\ freeze.source \in 1..HeadId
  BY <1>2, TipEntry DEF World, Frozen
<1>4. /\ e \in Entry /\ e.by = "archive"
      /\ \A t \in S : e.hot[t] = hot[t] /\ e.cold[t] = cold[t]
      /\ \A t \in Task \ S : e.hot[t] = Tip.hot[t] /\ e.cold[t] = Tip.cold[t]
  BY <1>2, <1>3 DEF Entry, Put, World, Data
<1> HIDE DEF e
<1>5. /\ log' \in Seq(Entry) /\ log' # <<>> /\ HeadId' = HeadId + 1 /\ Tip' = e
      /\ log'[HeadId'] = e /\ \A i \in 1..HeadId : log'[i] = log[i]
  BY <1>1, <1>2, <1>4, Appended DEF World
<1>6. \A t \in S \ raced : Moving(t) /\ InCold(t)
  BY <1>1, <1>2 DEF Archives, Progress, Before
<1>7. After'
  BY <1>1, <1>2, <1>3, <1>4, <1>5, <1>6 DEF After, Moved, Moving, InCold
<1>8. ASSUME NEW id, id = HeadId + 1 PROVE Told(S, freeze.source, id)'
  <2>1. CASE freeze.source = HeadId
    <3>1. log'[HeadId + 1] = e /\ log'[HeadId] = Tip
      BY <1>3, <1>5
    <3>2. \A t \in S \ raced : e.hot[t] = 0 /\ e.cold[t] = Tip.hot[t]
      BY <1>2, <1>4, <1>6 DEF InCold, Moving
    <3> QED
      BY <1>1, <1>2, <1>3, <1>4, <1>8, <2>1, <3>1, <3>2 DEF Told
  <2>2. CASE freeze.source # HeadId
    <3>1. log[freeze.source + 1].by = "people" /\ freeze.source + 1 \in 1..HeadId
      BY <1>2, <1>3, <2>2 DEF Before, PeopleSince
    <3>2. log'[freeze.source + 1].by # "archive"
      BY <1>5, <3>1
    <3>3. freeze.source + 1 \in freeze.source + 1 .. id
      BY <1>3, <1>8, <2>2
    <3> QED
      BY <1>1, <3>2, <3>3 DEF Told
  <2> QED
    BY <2>1, <2>2
<1>9. World'
  <2>1. Data' /\ Receipted'
    BY <1>1, <1>2, <1>4, <1>5, ReceiptedStill DEF World, Data
  <2>2. Unfrozen'
    BY <1>1, <1>2, <1>4, <1>5 DEF World, Unfrozen, Settled, InHot, InCold
  <2>3. \A id \in freeze.source + 1 .. HeadId : Told(S, freeze.source, id)'
    BY <1>1, <1>2, <1>3, <1>4, ToldStill DEF World, Frozen
  <2>4. ASSUME NEW id \in freeze.source + 1 .. HeadId + 1 PROVE Told(S, freeze.source, id)'
    <3>1. id = HeadId + 1 \/ id \in freeze.source + 1 .. HeadId
      BY <1>3, <2>4
    <3> QED
      BY <1>8, <2>3, <3>1
  <2>5. stage = NoStage \/ \A t \in freeze.tasks :
           stage[t] \in Nat /\ (t \notin raced => stage[t] = acked[t])
    BY <1>2 DEF World, Frozen, Copies
  <2>6. Frozen'
    BY <1>1, <1>2, <1>3, <1>5, <1>7, <2>4, <2>5 DEF World, Frozen, Copies
  <2> QED
    BY <2>1, <2>2, <2>6 DEF World
<1>10. Archives(p)'
  <2>1. PlanKept(p)'
    BY <1>1, <1>2 DEF PlanKept, Archives
  <2>2. FreezeKept(p)'
    BY <1>1, <1>2, <1>7 DEF FreezeKept
  <2>3. \A t \in S \ raced : Progress(p, t)'
    BY <1>1, <1>2 DEF Progress
  <2> QED
    BY <1>1, <2>1, <2>2, <2>3 DEF Archives
<1>11. job' = [q \in Procs |-> job'[q]] /\ \A q \in Procs \ {p} : job'[q] = job[q]
  BY <1>1 DEF Inv, Records
<1> QED
  BY <1>1, <1>2, <1>9, <1>10, <1>11, CreateStep

\* After the commit: it is recorded, inspected, told of and marked.
LEMMA CommittedKeeps ==
    ASSUME Inv, NEW p \in Procs,
           RecordCommit(p) \/ Doctor(p) \/ WriteReceipt(p) \/ MarkVerified(p)
    PROVE  Inv'
<1> USE DEF Selected, Preparing, Creating, Uncommitted, Undoing, Committed
<1>1. PICK l \in {"doctor", "receipt", "marking", "unfreeze"} :
      /\ pc[p] \in Committed /\ Goto(p, l)
      /\ l = "doctor" => RecordCommit(p)
      /\ l = "receipt" => pc[p] = "doctor" /\ UNCHANGED freeze
      /\ UNCHANGED <<hot, cold, log, stage, owner, job, acked, raced>>
  BY DEF RecordCommit, Doctor, WriteReceipt, MarkVerified
<1>2. /\ Archives(p) /\ World /\ After /\ pc'[p] = l /\ IsCreation(job[p])
      /\ freeze # NoFreeze /\ freeze.tasks = Selected(p) /\ IsFreeze(freeze)
      /\ freeze.source \in 1..HeadId
  BY <1>1, Here, Goes DEF Archives, FreezeKept, World, Frozen
<1>3. HeadId \in Nat \ {0} /\ HeadId' = HeadId
  BY <1>1, <1>2, TipEntry DEF World, HeadId
<1>4. /\ World' /\ After' /\ freeze' # NoFreeze /\ freeze'.tasks = freeze.tasks
      /\ l = "doctor" => freeze'.commit \in freeze'.source + 1 .. HeadId
  <2>1. CASE RecordCommit(p)
    <3>1. freeze' = [freeze EXCEPT !.phase = "committed", !.commit = HeadId] /\ UNCHANGED receipts
      BY <2>1 DEF RecordCommit
    <3>2. freeze' = [phase |-> "committed", source |-> freeze.source, tasks |-> freeze.tasks,
                     packs |-> freeze.packs, commit |-> HeadId]
      BY Zenon, <1>2, <3>1, NewCommit
    <3>3. /\ IsFreeze(freeze') /\ freeze'.source = freeze.source /\ freeze'.tasks = freeze.tasks
          /\ freeze'.commit = HeadId /\ freeze'.packs = freeze.packs
      BY <3>2 DEF IsFreeze
    <3>4. HeadId \in freeze.source + 1 .. HeadId
      BY <1>2, <1>3 DEF After
    <3> QED
      BY <1>1, <1>2, <3>1, <3>3, <3>4, FreezeChanges, FreezeThere
  <2>2. CASE Doctor(p)
    BY <1>1, <1>2, <2>2, WorldSame DEF Doctor, RecordCommit
  <2>3. CASE WriteReceipt(p)
    <3>1. /\ pc[p] = "receipt" /\ UNCHANGED freeze
          /\ receipts' = receipts \cup {Receipt} /\ Goto(p, "marking")
      BY <2>3 DEF WriteReceipt
    <3>2. freeze.commit \in freeze.source + 1 .. HeadId
      BY <1>2, <3>1 DEF Archives, FreezeKept
    <3>3. World' /\ After'
      BY <1>1, <1>2, <3>1, <3>2, ReceiptWritten
    <3>4. l # "doctor"
      BY <1>2, <3>1, Goes
    <3> QED
      BY <1>2, <3>1, <3>3, <3>4
  <2>4. CASE MarkVerified(p)
    <3>1. freeze' = [freeze EXCEPT !.phase = "verified"] /\ UNCHANGED receipts /\ Goto(p, "unfreeze")
      BY <2>4 DEF MarkVerified
    <3>2. freeze' = [phase |-> "verified", source |-> freeze.source, tasks |-> freeze.tasks,
                     packs |-> freeze.packs, commit |-> freeze.commit]
      BY Zenon, <1>2, <3>1, NewPhase
    <3>3. /\ IsFreeze(freeze') /\ freeze'.source = freeze.source /\ freeze'.tasks = freeze.tasks
          /\ freeze'.packs = freeze.packs
      BY <3>2 DEF IsFreeze
    <3>4. l # "doctor"
      BY <1>2, <3>1, Goes
    <3> QED
      BY <1>1, <1>2, <3>1, <3>3, <3>4, FreezeChanges, FreezeThere
  <2> QED
    BY <2>1, <2>2, <2>3, <2>4
<1>5. Archives(p)'
  <2>1. PlanKept(p)'
    BY <1>1, <1>2 DEF PlanKept, Archives
  <2>2. FreezeKept(p)'
    <3>1. l = "receipt" => freeze'.commit \in freeze'.source + 1 .. HeadId
      BY <1>1, <1>2 DEF Archives, FreezeKept
    <3> QED
      BY <1>1, <1>2, <1>3, <1>4, <3>1 DEF FreezeKept
  <2>3. \A t \in Selected(p) \ raced : Progress(p, t)'
    BY <1>1, <1>2 DEF Progress
  <2> QED
    BY <1>1, <2>1, <2>2, <2>3 DEF Archives
<1>6. job' = [q \in Procs |-> job'[q]] /\ \A q \in Procs \ {p} : job'[q] = job[q]
  BY <1>1 DEF Inv, Records
<1> QED
  BY <1>1, <1>2, <1>4, <1>5, <1>6, CreateStep

\* The archiving is over, or its doctors stop it.
LEMMA FinishKeeps ==
    ASSUME Inv, NEW p \in Procs, Finish(p) \/ DoctorFails(p)
    PROVE  Inv'
<1>1. /\ pc[p] \in Creating /\ pc[p] \in Committed /\ Return(p) /\ stage' = NoStage
      /\ freeze' \in {freeze, NoFreeze}
      /\ UNCHANGED <<hot, cold, log, receipts, acked, raced>>
  BY DEF Finish, DoctorFails, GiveUp, Creating, Committed
<1>2. World /\ pc[p] \in Working /\ Archives(p)
  BY <1>1, Here
<1>3. After /\ freeze.tasks = Selected(p)
  BY <1>1, <1>2 DEF Archives, FreezeKept, Committed, Preparing
<1>4. \A t \in freeze.tasks \ raced : Settled(t)
  BY <1>3 DEF After, Moved, Settled, InCold
<1>5. World'
  BY <1>1, <1>2, <1>4, WorldSame, Thawed
<1> QED
  BY <1>1, <1>2, <1>5, WorkEnds

(***************************************************************************)
(* Its except clause.                                                      *)
(***************************************************************************)

LEMMA RaisingKeeps ==
    ASSUME Inv, NEW p \in Procs, Raise(p)
    PROVE  Inv'
<1> USE DEF Selected, Preparing, Creating, Uncommitted, Undoing, Committed
<1>1. /\ pc[p] \in Uncommitted /\ Goto(p, "undo")
      /\ UNCHANGED <<hot, cold, log, freeze, stage, owner, job, receipts, acked, raced>>
  BY DEF Raise
<1>2. Archives(p) /\ World /\ World' /\ Before' /\ pc'[p] = "undo" /\ IsCreation(job[p])
  BY <1>1, WorldSame, Here, Goes DEF Archives, FreezeKept
<1>3. Archives(p)'
  <2>1. PlanKept(p)'
    BY <1>1, <1>2 DEF PlanKept, Archives, Copies
  <2>2. FreezeKept(p)'
    BY <1>1, <1>2 DEF FreezeKept, Archives
  <2>3. \A t \in Selected(p) \ raced : Progress(p, t)'
    BY <1>1, <1>2 DEF Archives, Progress
  <2> QED
    BY <1>1, <2>1, <2>2, <2>3 DEF Archives
<1>4. job' = [q \in Procs |-> job'[q]] /\ \A q \in Procs \ {p} : job'[q] = job[q]
  BY <1>1 DEF Inv, Records
<1> QED
  BY <1>1, <1>2, <1>3, <1>4, CreateStep

LEMMA ResettingKeeps ==
    ASSUME Inv, NEW p \in Procs, ResetIndex(p)
    PROVE  Inv'
<1> USE DEF Selected, Preparing, Creating, Uncommitted, Undoing, Committed
<1>1. /\ pc[p] = "undo" /\ Goto(p, "restoring")
      /\ job' = [job EXCEPT ![p].left = Selected(p)]
      /\ UNCHANGED <<hot, cold, log, freeze, stage, owner, receipts, acked, raced>>
  BY DEF ResetIndex
<1>2. Archives(p) /\ World /\ World' /\ Before' /\ pc'[p] = "restoring"
  BY <1>1, WorldSame, Here, Goes DEF Archives, FreezeKept
<1>3. /\ job' = [q \in Procs |-> job'[q]] /\ \A q \in Procs \ {p} : job'[q] = job[q]
      /\ IsCreation(job'[p]) /\ job'[p].plan = job[p].plan
      /\ job'[p].backup = job[p].backup /\ job'[p].packed = job[p].packed
      /\ job'[p].activated = job[p].activated /\ job'[p].left = Selected(p)
  BY <1>1, NotesLeft
<1>4. Archives(p)'
  <2>1. PlanKept(p)'
    BY <1>1, <1>2, <1>3 DEF PlanKept, Archives, Copies
  <2>2. FreezeKept(p)'
    BY <1>1, <1>2, <1>3 DEF FreezeKept, Archives
  <2>3. \A t \in Selected(p) \ raced : Progress(p, t)'
    BY <1>1, <1>2, <1>3 DEF Archives, Progress
  <2> QED
    BY <1>1, <1>3, <2>1, <2>2, <2>3 DEF Archives
<1> QED
  BY <1>1, <1>2, <1>3, <1>4, CreateStep

\* One hot file is put back.
LEMMA RestoringKeeps ==
    ASSUME Inv, NEW p \in Procs, NEW t \in Task, RestoreHot(p, t)
    PROVE  Inv'
<1> USE DEF Selected, Preparing, Creating, Uncommitted, Undoing, Committed
<1> DEFINE left == job[p].left
           l == IF left = {t} THEN "discarding" ELSE "restoring"
<1>1. /\ pc[p] = "restoring" /\ t \in left /\ Goto(p, l)
      /\ hot' = [hot EXCEPT ![t] = job[p].backup[t]] /\ job' = [job EXCEPT ![p].left = left \ {t}]
      /\ UNCHANGED <<cold, log, freeze, stage, owner, receipts, acked, raced>>
  BY DEF RestoreHot, Loop
<1>2. /\ job' = [q \in Procs |-> job'[q]] /\ \A q \in Procs \ {p} : job'[q] = job[q]
      /\ IsCreation(job'[p]) /\ job'[p].plan = job[p].plan
      /\ job'[p].backup = job[p].backup /\ job'[p].packed = job[p].packed
      /\ job'[p].activated = job[p].activated /\ job'[p].left = left \ {t}
  BY <1>1, NotesLeft
<1>3. /\ Archives(p) /\ World /\ Before /\ pc'[p] = l /\ IsCreation(job[p])
      /\ freeze # NoFreeze /\ freeze.tasks = Selected(p)
      /\ Selected(p) \subseteq Task /\ left \subseteq Selected(p)
  BY <1>1, Here, Goes DEF Archives, FreezeKept, PlanKept
<1>4. /\ job[p].backup[t] \in Nat /\ (t \notin raced => job[p].backup[t] = acked[t])
      /\ \A u \in Selected(p) \ raced : /\ u \notin left => hot[u] = acked[u]
                                        /\ cold[u] = 0 \/ u \in job[p].activated
  BY <1>1, <1>3 DEF Archives, PlanKept, Copies, Progress
<1>5. /\ hot' \in [Task -> Nat] /\ cold' \in [Task -> Nat] /\ hot'[t] = job[p].backup[t]
      /\ \A u \in Task \ {t} : hot'[u] = hot[u]
  BY <1>1, <1>3, <1>4 DEF World, Data
<1>6. World' /\ Before'
  <2>1. \A u \in freeze.tasks \ raced :
           /\ hot[u] \in {0, acked[u]} /\ cold[u] \in {0, acked[u]}
           /\ u \notin freeze.packs => cold[u] = 0
    BY <1>3 DEF Before, Moving
  <2>2. \A u \in freeze.tasks \ raced' :
           /\ hot'[u] \in {0, acked[u]} /\ cold'[u] \in {0, acked[u]}
           /\ u \notin freeze.packs => cold'[u] = 0
    BY <1>1, <1>3, <1>4, <1>5, <2>1
  <2> QED
    BY <1>1, <1>3, <1>5, <2>2, TiersMove
<1>7. Archives(p)'
  <2>1. PlanKept(p)'
    BY <1>1, <1>2, <1>3 DEF PlanKept, Archives, Copies
  <2>2. FreezeKept(p)'
    BY <1>1, <1>2, <1>3, <1>6 DEF FreezeKept
  <2>3. \A u \in Selected(p) \ raced : Progress(p, u)'
    BY <1>1, <1>2, <1>3, <1>4, <1>5 DEF Progress
  <2> QED
    BY <1>1, <1>2, <2>1, <2>2, <2>3 DEF Archives
<1> QED
  BY <1>1, <1>2, <1>3, <1>6, <1>7, CreateStep

LEMMA DiscardingKeeps ==
    ASSUME Inv, NEW p \in Procs, DiscardPacks(p)
    PROVE  Inv'
<1> USE DEF Selected, Preparing, Creating, Uncommitted, Undoing, Committed
<1>1. /\ pc[p] = "discarding" /\ Goto(p, "thawing")
      /\ cold' = [t \in Task |-> IF t \in job[p].activated THEN 0 ELSE cold[t]]
      /\ UNCHANGED <<hot, log, freeze, stage, owner, job, receipts, acked, raced>>
  BY DEF DiscardPacks
<1>2. /\ Archives(p) /\ World /\ Before /\ pc'[p] = "thawing" /\ IsCreation(job[p])
      /\ freeze # NoFreeze /\ freeze.tasks = Selected(p)
      /\ Selected(p) \subseteq Task
  BY <1>1, Here, Goes DEF Archives, FreezeKept, PlanKept
<1>3. \A t \in Selected(p) \ raced : /\ hot[t] = acked[t] /\ cold'[t] = 0
                                     /\ cold[t] = 0 \/ t \in job[p].activated
  BY <1>1, <1>2 DEF Archives, Progress
<1>4. /\ hot' \in [Task -> Nat] /\ cold' \in [Task -> Nat]
      /\ \A t \in Task : cold'[t] \in {0, cold[t]}
  BY <1>1, <1>2 DEF World, Data
<1>5. World' /\ Before'
  <2>1. ASSUME NEW t \in Task \ freeze.tasks PROVE cold'[t] = cold[t]
    BY <1>1, <1>2, <2>1 DEF Archives, PlanKept
  <2>2. \A t \in freeze.tasks \ raced' : hot'[t] \in {0, acked[t]} /\ cold'[t] = 0
    BY <1>1, <1>2, <1>3
  <2> QED
    BY <1>1, <1>2, <1>4, <2>1, <2>2, TiersMove
<1>6. Archives(p)'
  <2>1. PlanKept(p)'
    BY <1>1, <1>2 DEF PlanKept, Archives, Copies
  <2>2. FreezeKept(p)'
    BY <1>1, <1>2, <1>5 DEF FreezeKept
  <2>3. \A t \in Selected(p) \ raced : Progress(p, t)'
    BY <1>1, <1>2, <1>3 DEF Progress
  <2> QED
    BY <1>1, <2>1, <2>2, <2>3 DEF Archives
<1>7. job' = [q \in Procs |-> job'[q]] /\ \A q \in Procs \ {p} : job'[q] = job[q]
  BY <1>1 DEF Inv, Records
<1> QED
  BY <1>1, <1>2, <1>5, <1>6, <1>7, CreateStep

\* The except clause is through, or breaks off: then the freeze stays.
LEMMA UndoingEnds ==
    ASSUME Inv, NEW p \in Procs, Thaw(p) \/ Abandon(p)
    PROVE  Inv'
<1>1. CASE Thaw(p)
  <2>1. /\ pc[p] = "thawing" /\ pc[p] \in Creating /\ Return(p) /\ freeze' = NoFreeze
        /\ UNCHANGED <<hot, cold, log, receipts, acked, raced>>
    BY <1>1 DEF Thaw, Creating, Undoing
  <2>2. World /\ pc[p] \in Working /\ Archives(p)
    BY <2>1, Here
  <2>3. Before /\ freeze.tasks = Selected(p)
    BY <2>1, <2>2 DEF Archives, FreezeKept, Undoing, Preparing
  <2>4. \A t \in freeze.tasks \ raced : hot[t] = acked[t] /\ cold[t] = 0
    BY <2>1, <2>2, <2>3 DEF Archives, Progress
  <2>5. \A t \in freeze.tasks \ raced : Settled(t)
    BY <2>3, <2>4 DEF Before, Moving, Settled, InHot
  <2>6. World'
    BY <2>1, <2>2, <2>5, Thawed
  <2> QED
    BY <2>1, <2>2, <2>6, WorkEnds
<1>2. CASE Abandon(p)
  <2>1. /\ pc[p] \in Creating /\ Return(p) /\ stage' = NoStage
        /\ UNCHANGED <<hot, cold, log, freeze, receipts, acked, raced>>
    BY <1>2 DEF Abandon, GiveUp, Creating
  <2>2. World' /\ pc[p] \in Working
    BY <2>1, Here, WorldSame
  <2> QED
    BY <2>1, <2>2, WorkEnds
<1> QED
  BY <1>1, <1>2

(***************************************************************************)
(* The recovery.                                                           *)
(***************************************************************************)

LEMMA There ==
    ASSUME Inv, NEW p \in Procs, pc[p] \in Recovering
    PROVE  pc[p] \in Working /\ owner = p /\ World /\ IsRecovery(job[p]) /\ Recovers(p)
  BY DEF Working, Inv, Locked, Records, AtWork

LEMMA RecoveryStarts ==
    ASSUME Inv, NEW p \in Procs, StartRecovery(p)
    PROVE  Inv'
<1> DEFINE j == [kind |-> "recover", left |-> freeze.tasks]
<1>1. PICK l \in {"recover", "confirming"} :
      /\ pc[p] = "idle" /\ owner = NoProc /\ owner' = p /\ freeze # NoFreeze
      /\ job' = [job EXCEPT ![p] = j] /\ Goto(p, l)
      /\ l = "confirming" => freeze.phase \notin {"frozen", "activating"}
      /\ UNCHANGED <<hot, cold, log, freeze, stage, receipts, acked, raced>>
  BY DEF StartRecovery
<1>2. World /\ World' /\ (After => After') /\ (Before \/ After)
  BY <1>1, WorldSame DEF Inv, World, Frozen
<1>3. job'[p] = j /\ pc'[p] = l /\ IsRecovery(j) /\ j.left = freeze.tasks
  BY <1>1, Notes, Goes DEF IsRecovery
<1> HIDE DEF j
<1>4. Recovers(p)'
  BY <1>1, <1>2, <1>3 DEF Recovers, Before
<1>5. l \in Working /\ l \notin Creating
  BY DEF Working, Recovering, Creating, Preparing, Uncommitted, Undoing, Committed
<1> QED
  BY <1>1, <1>2, <1>3, <1>4, <1>5, WorkBegins

\* A recovery that is refused, or through.
LEMMA RecoveryEnds ==
    ASSUME Inv, NEW p \in Procs, RefuseRecovery(p) \/ RecoverThaw(p)
    PROVE  Inv'
<1>1. CASE RefuseRecovery(p)
  <2>1. /\ pc[p] \in Recovering /\ Return(p)
        /\ UNCHANGED <<hot, cold, log, freeze, stage, receipts, acked, raced>>
    BY <1>1 DEF RefuseRecovery, Recovering
  <2>2. World' /\ pc[p] \in Working
    BY <2>1, There, WorldSame
  <2> QED
    BY <2>1, <2>2, WorkEnds
<1>2. CASE RecoverThaw(p)
  <2>1. /\ pc[p] = "releasing" /\ pc[p] \in Recovering /\ Return(p) /\ freeze' = NoFreeze
        /\ UNCHANGED <<hot, cold, log, receipts, acked, raced>>
    BY <1>2 DEF RecoverThaw, Recovering
  <2>2. World /\ pc[p] \in Working /\ \A t \in freeze.tasks \ raced : Settled(t)
    BY <2>1, There DEF Recovers
  <2>3. World'
    BY <2>1, <2>2, Thawed
  <2> QED
    BY <2>1, <2>2, <2>3, WorkEnds
<1> QED
  BY <1>1, <1>2

\* One hot file is put back, from what is left of the stage.
LEMMA ReturningKeeps ==
    ASSUME Inv, NEW p \in Procs, NEW t \in Task, RecoverHot(p, t)
    PROVE  Inv'
<1> DEFINE left == job[p].left
           l == IF left = {t} THEN "dropping" ELSE "returning"
           j == [job[p] EXCEPT !.left = left \ {t}]
<1>1. /\ pc[p] = "returning" /\ pc[p] \in Recovering /\ t \in left /\ Goto(p, l)
      /\ stage # NoStage /\ hot' = [hot EXCEPT ![t] = stage[t]] /\ job' = [job EXCEPT ![p] = j]
      /\ UNCHANGED <<cold, log, freeze, stage, owner, receipts, acked, raced>>
  BY DEF RecoverHot, Loop, Recovering
<1>2. /\ Recovers(p) /\ World /\ Before /\ pc'[p] = l /\ IsRecovery(job[p])
      /\ freeze # NoFreeze /\ left \subseteq freeze.tasks /\ freeze.tasks \subseteq Task
  BY <1>1, There, Goes DEF Recovers, World, Frozen
<1>3. IsRecovery(j) /\ j.left = left \ {t}
  BY <1>2, NewRecovery
<1> HIDE DEF j
<1>4. /\ job'[p] = j /\ job' = [q \in Procs |-> job'[q]]
      /\ \A q \in Procs \ {p} : job'[q] = job[q]
  BY <1>1, Notes
<1>5. /\ stage[t] \in Nat /\ (t \notin raced => stage[t] = acked[t])
      /\ \A u \in freeze.tasks \ raced : u \notin left => hot[u] = acked[u]
  BY <1>1, <1>2 DEF Recovers, World, Frozen, Copies
<1>6. /\ hot' \in [Task -> Nat] /\ cold' \in [Task -> Nat] /\ hot'[t] = stage[t]
      /\ \A u \in Task \ {t} : hot'[u] = hot[u]
  BY <1>1, <1>2, <1>5 DEF World, Data
<1>7. World' /\ Before'
  <2>1. \A u \in freeze.tasks \ raced :
           /\ hot[u] \in {0, acked[u]} /\ cold[u] \in {0, acked[u]}
           /\ u \notin freeze.packs => cold[u] = 0
    BY <1>2 DEF Before, Moving
  <2>2. \A u \in freeze.tasks \ raced' :
           /\ hot'[u] \in {0, acked[u]} /\ cold'[u] \in {0, acked[u]}
           /\ u \notin freeze.packs => cold'[u] = 0
    BY <1>1, <1>2, <1>5, <1>6, <2>1
  <2> QED
    BY <1>1, <1>2, <1>6, <2>2, TiersMove
<1>8. Recovers(p)'
  BY <1>1, <1>2, <1>3, <1>4, <1>5, <1>6, <1>7 DEF Recovers
<1>9. l \in Recovering
  BY DEF Recovering
<1> QED
  BY <1>1, <1>3, <1>4, <1>7, <1>8, <1>9, RecoverStep

\* The packs that the freeze names are removed.
LEMMA DroppingKeeps ==
    ASSUME Inv, NEW p \in Procs, RecoverPacks(p)
    PROVE  Inv'
<1>1. /\ pc[p] = "dropping" /\ pc[p] \in Recovering /\ Goto(p, "inspecting")
      /\ cold' = [t \in Task |-> IF t \in freeze.packs THEN 0 ELSE cold[t]]
      /\ UNCHANGED <<hot, log, freeze, stage, owner, job, receipts, acked, raced>>
  BY DEF RecoverPacks, Recovering
<1>2. /\ Recovers(p) /\ World /\ Before /\ pc'[p] = "inspecting" /\ IsRecovery(job[p])
      /\ freeze # NoFreeze /\ freeze.packs \subseteq freeze.tasks /\ freeze.tasks \subseteq Task
  BY <1>1, There, Goes DEF Recovers, World, Frozen
<1>3. \A t \in freeze.tasks \ raced : /\ hot[t] = acked[t] /\ cold'[t] = 0
  BY <1>1, <1>2 DEF Recovers, Before
<1>4. hot' \in [Task -> Nat] /\ cold' \in [Task -> Nat]
  BY <1>1, <1>2 DEF World, Data
<1>5. \A t \in Task \ freeze.tasks : cold'[t] = cold[t]
  BY <1>1, <1>2
<1>6. World' /\ Before'
  BY <1>1, <1>2, <1>3, <1>4, <1>5, TiersMove
<1>7. Recovers(p)'
  BY <1>1, <1>2, <1>3, <1>6 DEF Recovers
<1>8. job' = [q \in Procs |-> job'[q]] /\ \A q \in Procs \ {p} : job'[q] = job[q]
  BY <1>1 DEF Inv, Records
<1>9. "inspecting" \in Recovering
  BY DEF Recovering
<1> QED
  BY <1>1, <1>2, <1>6, <1>7, <1>8, <1>9, RecoverStep

\* Its other steps look at the tiers only.  RecoverIndex is where the number of
\* HEAD tells that the archiving has not committed.
LEMMA LookingKeeps ==
    ASSUME Inv, NEW p \in Procs,
           RecoverIndex(p) \/ RecoverInspect(p) \/ RecoverStage(p) \/ RecoverConfirm(p)
    PROVE  Inv'
<1>1. PICK l \in {"returning", "cleaning", "releasing"} :
      /\ pc[p] \in Recovering /\ Goto(p, l) /\ stage' \in {stage, NoStage}
      /\ l = "returning" => RecoverIndex(p)
      /\ l = "cleaning" => pc[p] = "inspecting"
      /\ l = "releasing" => pc[p] \in {"cleaning", "confirming"}
      /\ UNCHANGED <<hot, cold, log, freeze, owner, job, acked, raced>>
  BY DEF RecoverIndex, RecoverInspect, RecoverStage, RecoverConfirm, Recovering
<1>2. /\ Recovers(p) /\ World /\ pc'[p] = l /\ IsRecovery(job[p]) /\ freeze # NoFreeze
      /\ Before \/ After
  BY <1>1, There, Goes DEF Recovers, World, Frozen
<1>3. World' /\ (Before => Before')
  <2>1. CASE RecoverConfirm(p)
    <3>1. /\ receipts' = receipts \cup {Receipt} /\ UNCHANGED stage
          /\ HeadId = freeze.commit /\ HeadId = freeze.source + 1
      BY <2>1 DEF RecoverConfirm
    <3>2. freeze.commit \in freeze.source + 1 .. HeadId
      BY <1>2, <3>1, TipEntry DEF World
    <3> QED
      BY <1>1, <1>2, <3>1, <3>2, ReceiptWritten
  <2>2. CASE ~RecoverConfirm(p)
    <3>1. UNCHANGED receipts
      BY <2>2 DEF RecoverIndex, RecoverInspect, RecoverStage
    <3> QED
      BY <1>1, <1>2, <3>1, WorldSame
  <2> QED
    BY <2>1, <2>2
<1>4. Recovers(p)'
  <2>1. CASE l = "returning"
    <3>1. pc[p] = "recover" /\ HeadId = freeze.source
      BY <1>1, <2>1 DEF RecoverIndex
    <3>2. Before
      BY <1>2, <3>1, TipEntry DEF After, World
    <3>3. job[p].left = freeze.tasks
      BY <1>2, <3>1 DEF Recovers
    <3> QED
      BY <1>1, <1>2, <1>3, <2>1, <3>2, <3>3 DEF Recovers
  <2>2. CASE l = "cleaning"
    BY <1>1, <1>2, <1>3, <2>2 DEF Recovers
  <2>3. CASE l = "releasing"
    <3>1. \A t \in freeze.tasks \ raced : Settled(t)
      <4>1. CASE pc[p] = "cleaning"
        BY <1>2, <4>1 DEF Recovers, Before, Moving, Settled, InHot
      <4>2. CASE pc[p] = "confirming"
        BY <1>2, <4>2 DEF Recovers, After, Moved, Settled, InCold
      <4> QED
        BY <1>1, <2>3, <4>1, <4>2
    <3> QED
      BY <1>1, <1>2, <2>3, <3>1 DEF Recovers, Settled, InHot, InCold, Tip
  <2> QED
    BY <2>1, <2>2, <2>3
<1>5. job' = [q \in Procs |-> job'[q]] /\ \A q \in Procs \ {p} : job'[q] = job[q]
  BY <1>1 DEF Inv, Records
<1>6. l \in Recovering
  BY DEF Recovering
<1> QED
  BY <1>1, <1>2, <1>3, <1>4, <1>5, <1>6, RecoverStep

(***************************************************************************)
(* Mutations, commits by people, and processes that end early.             *)
(***************************************************************************)

\* What others do to the tiers under an archiving or a recovery.
Outside ==
    /\ UNCHANGED <<cold, freeze>> /\ raced \subseteq raced' /\ HeadId' \in {HeadId, HeadId + 1}
    /\ freeze # NoFreeze => (Before => Before') /\ (After => After')
    /\ \A id \in 1..HeadId : PeopleSince(id) => PeopleSince(id)'
    /\ \A t \in Task \ raced' : /\ hot'[t] = hot[t] /\ acked'[t] = acked[t]
                                /\ (Moving(t) => Moving(t)') /\ (Settled(t) => Settled(t)')

\* It goes on as if they had done nothing.
LEMMA ArchivingGoesOn ==
    ASSUME Inv, Outside, NEW q \in Procs, pc[q] \in Creating,
           pc'[q] = pc[q], job'[q] = job[q]
    PROVE  Archives(q)'
<1> USE DEF Selected
<1>1. /\ Archives(q) /\ HeadId \in Nat \ {0} /\ Selected(q)' = Selected(q)
      /\ Selected(q) \subseteq Task
  BY Here, TipEntry DEF World, Archives, PlanKept
<1>2. \A t \in Selected(q) \ raced' :
         /\ t \in Task /\ t \notin raced /\ hot'[t] = hot[t] /\ acked'[t] = acked[t]
         /\ cold'[t] = cold[t] /\ (Moving(t) => Moving(t)')
  BY <1>1 DEF Outside
<1>3. \A version : Copies(version, Selected(q)) => Copies(version, Selected(q))'
  BY <1>1, <1>2 DEF Outside, Copies
<1>4. PlanKept(q)'
  BY <1>1, <1>2, <1>3 DEF Archives, PlanKept, Outside, Copies
<1>5. FreezeKept(q)'
  <2>1. freeze # NoFreeze => freeze.source \in 1..HeadId
    BY DEF Inv, World, Frozen
  <2>2. pc[q] \in {"doctor", "receipt"} => freeze'.commit \in freeze'.source + 1 .. HeadId'
    BY <1>1, <2>1 DEF Archives, FreezeKept, Outside, Preparing
  <2>3. pc[q] \notin Preparing => freeze' # NoFreeze /\ freeze'.tasks = Selected(q)'
    BY <1>1 DEF Archives, FreezeKept, Outside
  <2>4. (pc[q] \in Uncommitted \cup Undoing => Before') /\ (pc[q] \in Committed => After')
    BY <1>1 DEF Archives, FreezeKept, Outside, Preparing, Uncommitted, Undoing, Committed
  <2> QED
    BY <1>1, <2>2, <2>3, <2>4 DEF Archives, FreezeKept, Outside
<1>6. \A t \in Selected(q) \ raced' : Progress(q, t)'
  BY <1>1, <1>2 DEF Archives, Progress, InHot, InCold
<1> QED
  BY <1>1, <1>4, <1>5, <1>6 DEF Archives

LEMMA RecoveryGoesOn ==
    ASSUME Inv, Outside, NEW q \in Procs, pc[q] \in Recovering,
           pc'[q] = pc[q], job'[q] = job[q]
    PROVE  Recovers(q)'
<1>1. Recovers(q) /\ freeze # NoFreeze /\ freeze.tasks \subseteq Task
  BY There DEF World, Frozen, Recovers
<1>2. \A t \in freeze.tasks \ raced' :
         /\ t \in freeze.tasks \ raced /\ hot'[t] = hot[t] /\ acked'[t] = acked[t]
         /\ cold'[t] = cold[t] /\ (Settled(t) => Settled(t)')
  BY <1>1 DEF Outside
<1> QED
  BY <1>1, <1>2 DEF Recovers, Outside

LEMMA OthersStep ==
    ASSUME Inv, NEW p \in Procs, pc[p] \notin Working, NEW l \in {"idle"} \cup Changing, NEW j,
           Goto(p, l), job' = [job EXCEPT ![p] = j], l \in Changing => IsMutation(j),
           UNCHANGED owner, World', owner = NoProc \/ Outside
    PROVE  Inv'
<1>1. /\ pc' = [q \in Procs |-> pc'[q]] /\ job' = [q \in Procs |-> job'[q]]
      /\ pc'[p] = l /\ job'[p] = j
      /\ \A q \in Procs \ {p} : pc'[q] = pc[q] /\ job'[q] = job[q]
  BY DEF Goto, Inv, Records
<1>2. l \notin Working
  BY DEF Working, Creating, Preparing, Uncommitted, Undoing, Committed, Recovering, Changing
<1>3. Locked'
  BY <1>1, <1>2 DEF Inv, Locked
<1>4. l \notin Creating /\ l \notin Recovering
  BY <1>2 DEF Working
<1>5. Records'
  BY <1>1, <1>4 DEF Inv, Records
<1>6. AtWork'
  <2> SUFFICES ASSUME NEW q \in Procs
               PROVE  /\ pc'[q] \in Creating => Archives(q)'
                      /\ pc'[q] \in Recovering => Recovers(q)'
    BY DEF AtWork
  <2>1. CASE q = p
    BY <1>1, <1>4, <2>1
  <2>2. CASE q # p /\ owner = NoProc
    <3>1. pc[q] \notin Working
      BY <2>2, ProcsAssumption DEF Inv, Locked
    <3> QED
      BY <1>1, <2>2, <3>1 DEF Working
  <2>3. CASE q # p /\ Outside
    BY <1>1, <2>3, ArchivingGoesOn, RecoveryGoesOn
  <2> QED
    BY <2>1, <2>2, <2>3
<1> QED
  BY <1>3, <1>5, <1>6 DEF Inv

LEMMA NothingOutside ==
    ASSUME World, UNCHANGED <<hot, cold, log, freeze, stage, receipts, acked, raced>>
    PROVE  World' /\ Outside
<1>1. World' /\ (Before => Before') /\ (After => After')
  BY WorldSame
<1>2. HeadId' = HeadId /\ \A id \in 1..HeadId : PeopleSince(id) => PeopleSince(id)'
  BY DEF HeadId, PeopleSince
<1>3. \A t \in Task \ raced' : (Moving(t) => Moving(t)') /\ (Settled(t) => Settled(t)')
  BY DEF Moving, Settled, InHot, InCold, Tip
<1> QED
  BY <1>1, <1>2, <1>3 DEF Outside

\* A mutation before it writes, or one that is refused.
LEMMA MutatingKeeps ==
    ASSUME Inv, NEW p \in Procs, (\E t \in Task : Admit(p, t)) \/ Read(p) \/ Refuse(p)
    PROVE  Inv'
<1>1. /\ World' /\ Outside /\ pc[p] \in {"idle"} \cup Changing /\ pc[p] \notin Working
  <2>1. pc[p] \in {"idle"} \cup Changing
    BY DEF Admit, Read, Refuse, Mutating, Changing
  <2>2. pc[p] \notin Working
    BY <2>1 DEF Working, Creating, Preparing, Uncommitted, Undoing, Committed, Recovering, Changing
  <2>3. World' /\ Outside
    BY NothingOutside DEF Admit, Read, Refuse, Return, Inv
  <2> QED
    BY <2>1, <2>2, <2>3
<1>2. ASSUME NEW t \in Task, Admit(p, t) PROVE Inv'
  <2> DEFINE j == [kind |-> "update", task |-> t, version |-> 0]
  <2>1. job' = [job EXCEPT ![p] = j] /\ Goto(p, "admitted") /\ UNCHANGED owner /\ IsMutation(j)
    BY <1>2 DEF Admit, IsMutation
  <2> HIDE DEF j
  <2> QED
    BY <1>1, <2>1, OthersStep DEF Changing
<1>3. CASE Read(p)
  <2> DEFINE x == acked[job[p].task] + 1
             j == [job[p] EXCEPT !.version = x]
  <2>1. pc[p] \in Changing /\ job' = [job EXCEPT ![p] = j] /\ Goto(p, "writing") /\ UNCHANGED owner
    BY <1>3 DEF Read, Changing
  <2>2. IsMutation(job[p]) /\ x \in Nat
    BY <2>1 DEF Inv, Records, World, Data, IsMutation
  <2>3. IsMutation(j)
    BY <2>2, NewVersion
  <2> HIDE DEF j
  <2> QED
    BY <1>1, <2>1, <2>3, OthersStep DEF Changing
<1>4. CASE Refuse(p)
  <2>1. job' = [job EXCEPT ![p] = NoJob] /\ Goto(p, "idle") /\ owner' = owner
    BY <1>1, <1>4 DEF Refuse, Return, Inv, Locked
  <2> QED
    BY <1>1, <2>1, OthersStep DEF Changing
<1> QED
  BY <1>2, <1>3, <1>4

\* A task is written, and either nobody archives or nothing is said of it any more.
LEMMA WriteKeeps ==
    ASSUME Inv, NEW p \in Procs, Write(p)
    PROVE  Inv'
<1> DEFINE t == job[p].task
           v == job[p].version
<1>1. /\ pc[p] = "writing" /\ hot' = [hot EXCEPT ![t] = v] /\ acked' = [acked EXCEPT ![t] = v]
      /\ raced' = IF owner = NoProc /\ freeze = NoFreeze /\ cold[t] = 0
                  THEN raced ELSE raced \cup {t}
      /\ Return(p) /\ UNCHANGED <<cold, log, freeze, stage, receipts>>
  BY DEF Write
<1>2. pc[p] \in Changing /\ pc[p] \notin Working
  BY <1>1 DEF Working, Creating, Preparing, Uncommitted, Undoing, Committed, Recovering, Changing
<1>3. World /\ IsMutation(job[p])
  BY <1>2 DEF Inv, Records
<1>4. t \in Task /\ v \in Nat
  BY <1>3 DEF IsMutation
<1>5. job' = [job EXCEPT ![p] = NoJob] /\ Goto(p, "idle") /\ owner' = owner
  BY <1>1, <1>2 DEF Return, Inv, Locked
<1> HIDE DEF t, v
<1>6. /\ Data' /\ hot'[t] = v /\ acked'[t] = v /\ HeadId' = HeadId /\ Tip' = Tip
      /\ \A u \in Task \ {t} : hot'[u] = hot[u] /\ acked'[u] = acked[u]
      /\ Receipted' /\ raced \subseteq raced'
  BY <1>1, <1>3, <1>4, ReceiptedStill DEF World, Data, HeadId, Tip
<1>7. CASE owner = NoProc /\ freeze = NoFreeze /\ cold[t] = 0
  <2>1. \A u \in Task \ raced : Settled(u)'
    BY <1>1, <1>3, <1>6, <1>7 DEF World, Unfrozen, Settled, InHot, InCold
  <2>2. Unfrozen' /\ Frozen'
    BY <1>1, <1>7, <2>1 DEF Unfrozen, Frozen
  <2>3. World'
    BY <1>6, <2>2 DEF World
  <2> QED
    BY <1>2, <1>5, <1>7, <2>3, OthersStep DEF Changing
<1>8. CASE raced' = raced \cup {t}
  <2>1. \A u \in Task \ raced' :
           /\ hot'[u] = hot[u] /\ acked'[u] = acked[u] /\ cold'[u] = cold[u]
           /\ (Moving(u) => Moving(u)') /\ (Settled(u) => Settled(u)') /\ (Moved(u) => Moved(u)')
    BY <1>1, <1>6, <1>8 DEF Moving, Settled, Moved, InHot, InCold
  <2>2. \A id \in 1..HeadId : PeopleSince(id) => PeopleSince(id)'
    BY <1>1, <1>6 DEF PeopleSince
  <2>3. freeze # NoFreeze => freeze.tasks \subseteq Task /\ freeze.source \in 1..HeadId
    BY <1>3 DEF World, Frozen
  <2>4. (freeze # NoFreeze /\ Before => Before') /\ (freeze # NoFreeze /\ After => After')
    BY <1>1, <1>6, <1>8, <2>1, <2>2, <2>3 DEF Before, After
  <2>5. Frozen'
    <3> SUFFICES ASSUME freeze # NoFreeze PROVE Frozen'
      BY <1>1 DEF Frozen
    <3>1. \A id \in freeze.source + 1 .. HeadId : Told(freeze.tasks, freeze.source, id)'
      BY <1>1, <1>3, <1>6, ToldStill DEF World, Frozen
    <3>2. stage = NoStage \/ Copies(stage, freeze.tasks)'
      BY <1>1, <1>3, <1>6, <1>8, <2>3 DEF World, Frozen, Copies
    <3> QED
      BY <1>1, <1>3, <1>6, <2>4, <3>1, <3>2 DEF World, Frozen
  <2>6. Unfrozen'
    BY <1>1, <1>3, <1>8, <2>1 DEF World, Unfrozen
  <2>7. World'
    BY <1>6, <2>5, <2>6 DEF World
  <2>8. Outside
    BY <1>1, <1>6, <2>1, <2>2, <2>4 DEF Outside
  <2> QED
    BY <1>2, <1>5, <2>7, <2>8, OthersStep DEF Changing
<1> QED
  BY <1>1, <1>7, <1>8

\* Commits by people move HEAD on; those of a task have it as it is in the hot tier.
LEMMA PeopleKeep ==
    ASSUME Inv, NEW t \in Task, PeopleCommit(t)
    PROVE  Inv'
<1> DEFINE h == [Tip.hot EXCEPT ![t] = hot[t]]
           e == [hot |-> h, cold |-> Tip.cold, by |-> "people"]
<1>1. /\ cold[t] = 0 /\ hot[t] # 0
      /\ log' = Append(log, [Tip EXCEPT !.hot[t] = hot[t], !.by = "people"])
      /\ UNCHANGED <<hot, cold, freeze, stage, owner, pc, job, receipts, acked, raced>>
  BY DEF PeopleCommit
<1>2. World /\ HeadId \in Nat \ {0} /\ Tip \in Entry
  BY TipEntry DEF Inv, World
<1>3. log' = Append(log, e)
  <2>1. hot[t] \in Nat
    BY <1>2 DEF World, Data
  <2>2. [Tip EXCEPT !.hot[t] = hot[t], !.by = "people"] = e
    BY Zenon, <1>2, <2>1, NewTip
  <2> QED
    BY Zenon, <1>1, <2>2
<1>4. e \in Entry /\ e.by = "people"
  BY <1>2 DEF Inv, World, Data, Entry
<1>5. /\ Tip'.hot[t] = hot[t] /\ Tip'.cold = Tip.cold
      /\ \A u \in Task \ {t} : Tip'.hot[u] = Tip.hot[u]
  <2>1. Tip' = e
    BY <1>2, <1>3, <1>4, Appended DEF World
  <2> QED
    BY <1>2, <2>1 DEF Entry
<1> HIDE DEF e
<1>6. /\ log' \in Seq(Entry) /\ log' # <<>> /\ HeadId' = HeadId + 1
      /\ log'[HeadId'].by = "people" /\ \A i \in 1..HeadId : log'[i] = log[i]
  BY <1>2, <1>3, <1>4, Appended DEF World
<1>7. \A i \in 1..HeadId' : i \in 1..HeadId \/ log'[i].by = "people"
  <2> SUFFICES ASSUME NEW i \in 1..HeadId', i \notin 1..HeadId PROVE log'[i].by = "people"
    OBVIOUS
  <2>1. i = HeadId'
    BY <1>2, <1>6
  <2> QED
    BY <1>6, <2>1
<1>8. \A u \in Task :
         (Moving(u) => Moving(u)') /\ (Settled(u) => Settled(u)') /\ (Moved(u) => Moved(u)')
  BY <1>1, <1>5 DEF Moving, Settled, Moved, InHot, InCold
<1>9. \A id \in 1..HeadId : PeopleSince(id) => PeopleSince(id)'
  BY <1>2, <1>6, <1>7 DEF PeopleSince
<1>10. freeze # NoFreeze =>
         /\ freeze.tasks \subseteq Task /\ freeze.source \in 1..HeadId
         /\ (Before => Before') /\ (After => After')
  BY <1>1, <1>2, <1>6, <1>8, <1>9 DEF World, Frozen, Before, After
<1>11. World'
  <2>1. Data' /\ Receipted' /\ Unfrozen'
    BY <1>1, <1>2, <1>3, <1>4, <1>6, <1>8, ReceiptedStill DEF World, Data, Unfrozen
  <2>2. Frozen'
    <3> SUFFICES ASSUME freeze # NoFreeze PROVE Frozen'
      BY <1>1 DEF Frozen
    <3>1. ASSUME NEW id \in freeze.source + 1 .. HeadId' PROVE Told(freeze.tasks, freeze.source, id)'
      <4>1. CASE id \in freeze.source + 1 .. HeadId
        BY <1>1, <1>2, <1>3, <1>4, <1>10, <4>1, ToldStill DEF World, Frozen
      <4>2. CASE id = HeadId'
        <5>1. log'[id].by = "people" /\ id \in freeze.source + 1 .. id
          BY <1>2, <1>6, <1>10, <4>2
        <5> QED
          BY <1>1, <5>1 DEF Told
      <4> QED
        BY <1>2, <1>6, <1>10, <4>1, <4>2
    <3>2. stage = NoStage \/ Copies(stage, freeze.tasks)'
      BY <1>1, <1>2 DEF World, Frozen, Copies
    <3> QED
      BY <1>1, <1>2, <1>6, <1>10, <3>1, <3>2 DEF World, Frozen
  <2> QED
    BY <2>1, <2>2 DEF World
<1>12. Outside
  BY <1>1, <1>6, <1>8, <1>9, <1>10 DEF Outside
<1>13. Locked' /\ Records'
  BY <1>1 DEF Inv, Locked, Records
<1>14. AtWork'
  BY <1>1, <1>12, ArchivingGoesOn, RecoveryGoesOn DEF AtWork
<1> QED
  BY <1>11, <1>13, <1>14 DEF Inv

\* Whoever is killed, or stops where nothing catches an error.
LEMMA StopKeeps ==
    ASSUME Inv, NEW p \in Procs, Stop(p)
    PROVE  Inv'
<1>1. Return(p) /\ UNCHANGED <<hot, cold, log, freeze, stage, receipts, acked, raced>>
  BY DEF Stop
<1>2. World' /\ Outside
  BY <1>1, NothingOutside DEF Inv
<1>3. CASE pc[p] \in Working
  BY <1>1, <1>2, <1>3, WorkEnds
<1>4. CASE pc[p] \notin Working
  <2>1. job' = [job EXCEPT ![p] = NoJob] /\ Goto(p, "idle") /\ owner' = owner
    BY <1>1, <1>4 DEF Return, Inv, Locked
  <2> QED
    BY <1>2, <1>4, <2>1, OthersStep DEF Changing
<1> QED
  BY <1>3, <1>4

(***************************************************************************)
(* The theorems.                                                           *)
(***************************************************************************)

LEMMA InvInit == Init => Inv
<1> SUFFICES ASSUME Init PROVE Inv
  OBVIOUS
<1> DEFINE e == [hot |-> hot, cold |-> cold, by |-> "people"]
<1>1. hot \in [Task -> Nat] /\ cold \in [Task -> Nat] /\ acked = hot /\ \A t \in Task : cold[t] = 0
  BY DEF Init
<1>2. e \in Entry /\ log = <<e>>
  BY <1>1 DEF Init, Entry
<1> HIDE DEF e
<1>3. log \in Seq(Entry) /\ log # <<>> /\ Len(log) = 1 /\ log[1] = e
  BY <1>2
<1>4. Tip.cold = cold
  BY <1>3 DEF Tip, Last, e
<1>5. World
  BY <1>1, <1>3, <1>4 DEF Init, World, Data, Frozen, Unfrozen, Receipted, Settled, InHot
<1>6. \A p \in Procs : pc[p] = "idle"
  BY DEF Init
<1>7. "idle" \notin Working /\ "idle" \notin Changing
  BY DEF Working, Creating, Preparing, Uncommitted, Undoing, Committed, Recovering, Changing
<1>8. Records /\ Locked /\ AtWork
  BY <1>6, <1>7, ProcsAssumption DEF Init, Records, Locked, AtWork, Working
<1> QED
  BY <1>5, <1>8 DEF Inv

LEMMA InvStep == Inv /\ [Next]_vars => Inv'
<1> SUFFICES ASSUME Inv, [Next]_vars PROVE Inv'
  OBVIOUS
<1>1. ASSUME NEW p \in Procs, (\E S \in SUBSET Task : Verify(p, S)) \/ Create(p) PROVE Inv'
  BY <1>1, PreparingKeeps, PackingKeeps, CopyingKeeps, UnlinkingKeeps, StagingKeeps, CommitKeeps,
     CommittedKeeps, FinishKeeps DEF Create
<1>2. ASSUME NEW p \in Procs, Undo(p) PROVE Inv'
  BY <1>2, ResettingKeeps, RestoringKeeps, DiscardingKeeps, UndoingEnds DEF Undo
<1>3. ASSUME NEW p \in Procs, StartRecovery(p) \/ Recover(p) PROVE Inv'
  BY <1>3, RecoveryStarts, RecoveryEnds, ReturningKeeps, DroppingKeeps, LookingKeeps DEF Recover
<1>4. ASSUME NEW p \in Procs, Failure(p) PROVE Inv'
  BY <1>4, RaisingKeeps, UndoingEnds, StopKeeps, CopyFaultKeeps DEF Failure
<1>5. ASSUME NEW p \in Procs, (\E t \in Task : Admit(p, t)) \/ Read(p) \/ Write(p) \/ Refuse(p)
      PROVE  Inv'
  BY <1>5, MutatingKeeps, WriteKeeps
<1>6. ASSUME NEW t \in Task, PeopleCommit(t) PROVE Inv'
  BY <1>6, PeopleKeep
<1>7. CASE PeopleReset \/ UNCHANGED vars
  <2>1. UNCHANGED <<hot, cold, log, freeze, stage, owner, pc, job, receipts, acked, raced>>
    BY <1>7 DEF PeopleReset, vars
  <2>2. World' /\ Outside
    BY <2>1, NothingOutside DEF Inv
  <2>3. Locked' /\ Records'
    BY <2>1 DEF Inv, Locked, Records
  <2>4. AtWork'
    BY <2>1, <2>2, ArchivingGoesOn, RecoveryGoesOn DEF AtWork
  <2> QED
    BY <2>2, <2>3, <2>4 DEF Inv
<1> QED
  BY <1>1, <1>2, <1>3, <1>4, <1>5, <1>6, <1>7 DEF Next

\* Who takes a freeze away.
LEMMA FreezeRemoved ==
    ASSUME Inv, [Next]_vars, freeze # NoFreeze, freeze' = NoFreeze
    PROVE  \E p \in Procs : Finish(p) \/ Thaw(p) \/ RecoverThaw(p)
<1>1. CASE UNCHANGED freeze
  BY <1>1
<1>2. ASSUME NEW p \in Procs, WriteFreeze(p) PROVE FALSE
  BY <1>2 DEF WriteFreeze, NoFreeze
<1>3. ASSUME NEW p \in Procs, MarkActivating(p) \/ RecordCommit(p) \/ MarkVerified(p) PROVE FALSE
  <2>1. IsFreeze(freeze)
    BY DEF Inv, World, Frozen
  <2>2. freeze' # NoFreeze
    BY Zenon, <1>3, <2>1, NewPhase, NewPacks, NewCommit, FreezeThere
       DEF MarkActivating, RecordCommit, MarkVerified, NoFreeze
  <2> QED
    BY <2>2
<1>4. ASSUME NEW p \in Procs, Create(p) PROVE UNCHANGED freeze \/ Finish(p)
  BY <1>2, <1>3, <1>4 DEF Create, BackUp, Pack, Recheck, CopyPack, Unlink, StageIndex, RemoveIndex,
     RefuseRemoval, Commit, Doctor, DoctorFails, GiveUp, WriteReceipt
<1>5. ASSUME NEW p \in Procs, Undo(p) PROVE UNCHANGED freeze \/ Thaw(p)
  BY <1>5 DEF Undo, ResetIndex, DiscardPacks, RestoreHot
<1>6. ASSUME NEW p \in Procs, Recover(p) PROVE UNCHANGED freeze \/ RecoverThaw(p)
  BY <1>6 DEF Recover, RefuseRecovery, RecoverIndex, RecoverPacks, RecoverInspect, RecoverHot,
     RecoverStage, RecoverConfirm
<1>7. ASSUME NEW p \in Procs, Failure(p) \/ StartRecovery(p) PROVE UNCHANGED freeze
  BY <1>7 DEF Failure, Raise, Abandon, GiveUp, Stop, CopyFault, StartRecovery
<1>8. ASSUME NEW p \in Procs, NEW S \in SUBSET Task, Verify(p, S) PROVE UNCHANGED freeze
  BY <1>8 DEF Verify
<1>9. ASSUME NEW p \in Procs, (\E t \in Task : Admit(p, t)) \/ Read(p) \/ Write(p) \/ Refuse(p)
      PROVE  UNCHANGED freeze
  BY <1>9 DEF Admit, Read, Write, Refuse
<1>10. ASSUME NEW t \in Task, PeopleCommit(t) PROVE UNCHANGED freeze
  BY <1>10 DEF PeopleCommit
<1>11. PeopleReset => UNCHANGED freeze
  BY DEF PeopleReset
<1> QED
  BY <1>1, <1>4, <1>5, <1>6, <1>7, <1>8, <1>9, <1>10, <1>11 DEF Next, vars

LEMMA InvHolds == Spec => []Inv
  BY InvInit, InvStep, PTL DEF Spec

\* No version of a task is lost that create_archive or recover_archive moves and
\* nobody writes under them: the last version a mutation has reported is in a tier,
\* or in HEAD while ARCHIVE_PACK_FREEZE.json sends people there, whatever fails.
THEOREM VersionsKept == Spec => []Kept
<1>1. ASSUME Inv PROVE Kept
  <2> SUFFICES ASSUME NEW t \in Task \ raced PROVE KeptTask(t)
    BY DEF Kept
  <2>1. CASE freeze = NoFreeze \/ t \notin freeze.tasks
    BY <1>1, <2>1 DEF Inv, World, Unfrozen, Settled, InHot, InCold, KeptTask
  <2>2. CASE freeze # NoFreeze /\ t \in freeze.tasks
    BY <1>1, <2>2 DEF Inv, World, Frozen, Before, After, Moving, Moved, InCold, KeptTask
  <2> QED
    BY <2>1, <2>2
<1> QED
  BY <1>1, InvHolds, PTL

\* When no freeze is there, archiving is over or has been undone as a whole: a task
\* is in one tier only, and the packs are the committed ones.
THEOREM TiersSeparate == Spec => []OneTier
<1>1. Inv => OneTier
  BY DEF Inv, World, Unfrozen, Settled, InHot, InCold, OneTier
<1> QED
  BY <1>1, InvHolds, PTL

\* A receipt of create_archive or of recover_archive names the commit that moved
\* its tasks and nothing else, unless people have committed under the archiving.
THEOREM ReceiptsTell == Spec => []ReceiptsTrue
<1>1. Inv => ReceiptsTrue
  BY DEF Inv, World, Receipted, Told, ReceiptsTrue
<1> QED
  BY <1>1, InvHolds, PTL

\* The except clause of create_archive that ends without leaving a freeze has put
\* the work tree back: the hot files are those of the sealed plan, and the packs
\* have gone.  (Of the index nothing is said: its git reset may fail unnoticed.)
THEOREM FaultsUndone == Spec => FaultRestores
<1> DEFINE Restored(p) == pc[p] \in Undoing /\ freeze # NoFreeze /\ freeze' = NoFreeze =>
              \A t \in Selected(p) \ raced : hot'[t] = job[p].plan[t] /\ cold'[t] = 0
<1>1. ASSUME Inv, [Next]_vars PROVE \A p \in Procs : Restored(p)
  <2> SUFFICES ASSUME NEW p \in Procs, pc[p] \in Undoing, freeze # NoFreeze, freeze' = NoFreeze
               PROVE  \A t \in Selected(p) \ raced : hot'[t] = job[p].plan[t] /\ cold'[t] = 0
    OBVIOUS
  <2>1. pc[p] \in Creating /\ pc[p] \notin Committed /\ owner = p /\ Archives(p)
    BY <1>1, Here DEF Creating, Undoing, Committed
  <2>2. \A q \in Procs : pc[q] \in Working => q = p
    BY <1>1, <2>1 DEF Inv, Locked
  <2>3. Thaw(p)
    <3>1. PICK q \in Procs : Finish(q) \/ Thaw(q) \/ RecoverThaw(q)
      BY <1>1, FreezeRemoved
    <3>2. pc[q] \in Working /\ (pc[q] \in Undoing => Thaw(q))
      BY <3>1 DEF Finish, Thaw, RecoverThaw, Working, Creating, Committed, Undoing, Recovering
    <3> QED
      BY <2>2, <3>2
  <2>4. pc[p] = "thawing" /\ UNCHANGED <<hot, cold>>
    BY <2>3 DEF Thaw
  <2>5. \A t \in Selected(p) \ raced : hot[t] = job[p].plan[t] /\ cold[t] = 0
    BY <2>1, <2>4 DEF Archives, PlanKept, Progress
  <2> QED
    BY <2>4, <2>5
<1> QED
  BY <1>1, InvHolds, PTL DEF Spec, FaultRestores
=============================================================================
