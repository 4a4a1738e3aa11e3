-------------------------- MODULE BoardMergeProofs --------------------------
(***************************************************************************)
(* Merges of boards of any size, however many of them, whatever fails: a   *)
(* plan is what its strategy says, and a merge that no mutation raced with *)
(* is made as a whole or leaves what it found.                             *)
(*                                                                         *)
(* The copies of a merge may be taken while mutations write.  Then either  *)
(* the copies are right, but for the task that is being written, or a      *)
(* ledger has grown beyond the head that the plan names: the last look at  *)
(* the target refuses the plan.  From there to the end, a merge knows both *)
(* boards, the one it found and the one it made.                           *)
(***************************************************************************)
EXTENDS BoardMerge, FiniteSetTheorems, SequenceTheorems, WellFoundedInduction, TLAPS

(***************************************************************************)
(* Types.                                                                  *)
(***************************************************************************)

State == Task \cup {Gone}
Event == [op : {"create", "merge", "update", "archive", "delete"}, before : State, after : State,
          prev : [n : Nat, after : State], size : 1..2]
Entry == [segment : Nat, event : Event]
History == Seq(Entry)

IsLedgers(l) == DOMAIN l \subseteq Id /\ l \in [DOMAIN l -> History]

SourcesOK(ss) ==
    /\ DOMAIN ss \subseteq Nat /\ IsFiniteSet(DOMAIN ss)
    /\ ss = [i \in DOMAIN ss |-> ss[i]]
    /\ \A i \in DOMAIN ss : IsBoard(ss[i])

Shaped(d) == d = [target |-> d["target"], staged |-> d["staged"], backup |-> d["backup"]]
TasksOK(d) == Shaped(d) /\ \A p \in Place : d[p] = Missing \/ IsBoard(d[p])
LedgersOK(d) == Shaped(d) /\ \A p \in Place : d[p] = Missing \/ IsLedgers(d[p])

IsRun(r) ==
    r = [end |-> r.end, hadTasks |-> r.hadTasks, hadLedger |-> r.hadLedger, putTasks |-> r.putTasks,
         putLedger |-> r.putLedger, staged |-> r.staged, before |-> r.before]

\* What the plan file holds: mutations that lead from its target to its result.
IsPlan(p) ==
    /\ SourcesOK(p.identity.sources) /\ IsBoard(p.identity.tasks) /\ IsBoard(p.final)
    /\ DOMAIN p.events \subseteq Id /\ p.events \in [DOMAIN p.events -> Event]
    /\ \A id \in DOMAIN p.identity.tasks : p.identity.heads[id].n \in Nat
    /\ p.final = Over([id \in DOMAIN p.events |-> p.events[id].after], p.identity.tasks)

IsWriter(w) ==
    /\ w = [id |-> w.id, event |-> w.event, ledger |-> w.ledger, step |-> w.step]
    /\ w.id \in Id /\ w.event \in Event /\ w.ledger \in History /\ w.step \in {"task", "ledger"}

Types ==
    /\ SourcesOK(sources) /\ TasksOK(tasks) /\ LedgersOK(ledger) /\ IsRun(run)
    /\ pc \in {"copy ledger", "stage", "check", "save tasks", "put tasks"} => IsBoard(tasks["staged"])
    /\ pc \in {"stage", "check", "save tasks", "put tasks", "save ledger", "put ledger"} =>
          IsLedgers(ledger["staged"])
    /\ plan # NoPlan => IsPlan(plan)
    /\ pc # "idle" => plan # NoPlan
    /\ writer # NoWriter => IsWriter(writer)
    /\ \A w \in acked : w.id \in Id
    /\ pc \in {"idle"} \cup Working \cup Restoring
    /\ writes \in Nat

(***************************************************************************)
(* The inductive invariant.                                                *)
(***************************************************************************)

Told(id) == LedgerOf(ledger["target"], id)
Stands(id) == At(Files(tasks["target"]), id)

\* What a mutation has prepared still follows the ledger of its task; and none is
\* under way where a merge has looked for the last time.
WriterCurrent ==
    writer # NoWriter =>
        /\ writer.event.prev = Latest(Told(writer.id))
        /\ writer.ledger = Appended(Told(writer.id), writer.event)
        /\ writer.step = "ledger" => Stands(writer.id) = writer.event.after
        /\ tasks["target"] # Missing
        /\ pc \in Replacing => run.before = <<>>

\* The task whose file is written, and whose ledger is not.
Pending(id) == writer # NoWriter /\ writer.step = "ledger" /\ writer.id = id

\* A merge before its last look: it has moved nothing, ...
Early ==
    /\ run.before = <<>> /\ ~run.putTasks /\ ~run.putLedger
    /\ tasks["backup"] = Missing /\ ledger["backup"] = Missing

\* ... and either will be refused, ...
Outrun ==
    \E id \in DOMAIN plan.identity.tasks :
        Latest(Told(id)).n > plan.identity.heads[id].n

\* ... or has good copies, of which the mutations of the plan then make the result.
Made == [id \in DOMAIN plan.events |-> plan.events[id].after]
Grown(l) == [id \in DOMAIN plan.events |-> Appended(LedgerOf(l, id), plan.events[id])]

Copied ==
    /\ \A id \in DOMAIN plan.identity.tasks : Latest(Told(id)) = plan.identity.heads[id]
    /\ pc = "copy tasks" =>
          \A id \in Id : Stands(id) = At(plan.identity.tasks, id) \/ Pending(id)
    /\ pc \in {"copy ledger", "stage"} =>
          \A id \in Id : At(tasks["staged"], id) = At(plan.identity.tasks, id) \/ Pending(id)
    /\ pc \in {"stage", "check"} =>
          /\ run.hadTasks = (tasks["target"] # Missing)
          /\ run.hadLedger = (ledger["target"] # Missing)
    /\ pc = "stage" => ledger["staged"] = Files(ledger["target"])
    /\ pc = "check" =>
          /\ \A id \in Id : At(tasks["staged"], id) = At(plan.final, id) \/ Pending(id)
          /\ ledger["staged"] = Over(Grown(ledger["target"]), Files(ledger["target"]))
          /\ run.staged = <<Made, Grown(ledger["target"])>>
          /\ \A id \in DOMAIN plan.events : plan.events[id].prev = Latest(Told(id))

\* A merge after its last look knows both boards.  A directory is where it was found,
\* in the backup, or replaced.
Result == Over(Grown(run.before[2]), Files(run.before[2]))

Moved(dirs, put, before, after) ==
    \/ ~put /\ dirs["target"] = before /\ dirs["backup"] = Missing
    \/ ~put /\ dirs["target"] = Missing /\ dirs["backup"] = before
    \/ put /\ dirs["target"] = after /\ dirs["backup"] = before

Late ==
    /\ run.before = <<run.before[1], run.before[2]>>
    /\ Files(run.before[1]) = plan.identity.tasks
    /\ run.before[1] = Missing \/ IsBoard(run.before[1])
    /\ run.before[2] = Missing \/ IsLedgers(run.before[2])
    /\ run.hadTasks = (run.before[1] # Missing) /\ run.hadLedger = (run.before[2] # Missing)
    /\ run.staged = <<Made, Grown(run.before[2])>>
    /\ Moved(tasks, run.putTasks, run.before[1], plan.final)
    /\ pc # "restore tasks" => Moved(ledger, run.putLedger, run.before[2], Result)
    /\ pc = "restore tasks" => ledger["target"] = run.before[2]
    /\ pc = "save tasks" => tasks["target"] = run.before[1]
    /\ pc = "put tasks" => tasks["target"] = Missing
    /\ pc \in {"save tasks", "put tasks"} => ~run.putTasks /\ tasks["staged"] = plan.final
    /\ pc \in {"save ledger", "put ledger", "receipt"} => run.putTasks
    /\ pc \in {"save tasks", "put tasks", "save ledger"} => ledger["target"] = run.before[2]
    /\ pc = "put ledger" => ledger["target"] = Missing
    /\ pc \in {"save tasks", "put tasks", "save ledger", "put ledger"} =>
          ~run.putLedger /\ ledger["staged"] = Result
    /\ pc = "receipt" => run.putLedger

Looking == {"copy tasks", "copy ledger", "stage", "check"}
Replaces == pc \in Replacing /\ run.before # <<>>

MergeInv ==
    /\ pc # "idle" => run.end = "none"
    /\ pc = "idle" => tasks["backup"] = Missing /\ ledger["backup"] = Missing
    /\ pc \in Replacing \ Restoring => run.before # <<>>
    /\ pc # "idle" /\ ~Replaces => Early
    /\ ~raced => WriterCurrent
    /\ ~raced /\ pc \in Looking => Outrun \/ Copied
    /\ ~raced /\ Replaces => Late

\* A board on which every task is what its ledger says, no chain is broken, and no
\* event of a mutation that succeeded is lost.
Whole(t, l) ==
    /\ \A id \in Id : Chained(LedgerOf(l, id)) /\ Latest(LedgerOf(l, id)).after = At(Files(t), id)
    /\ \A w \in acked : Contains(Read(LedgerOf(l, w.id)), w.event)

BoardInv ==
    \/ raced \/ hurt
    \/ Replaces /\ Whole(run.before[1], run.before[2]) /\ Whole(plan.final, Result)
    \/ /\ ~Replaces
       /\ \A id \in Id : Chained(Told(id)) /\ (Latest(Told(id)).after = Stands(id) \/ Pending(id))
       /\ \A w \in acked : Contains(Read(Told(w.id)), w.event)

IInv == Types /\ PlanFaithful /\ MergeInv /\ BoardInv

(***************************************************************************)
(* Directories.                                                            *)
(***************************************************************************)

LEMMA OverAt ==
    ASSUME NEW f, NEW g, NEW id
    PROVE  /\ DOMAIN Over(f, g) = DOMAIN f \cup DOMAIN g
           /\ id \in DOMAIN f => Over(f, g)[id] = f[id]
           /\ id \in DOMAIN g \ DOMAIN f => Over(f, g)[id] = g[id]
           /\ At(Over(f, g), id) = IF id \in DOMAIN f THEN f[id] ELSE At(g, id)
  BY DEF Over, At

LEMMA OverBoard ==
    ASSUME NEW f, NEW g, IsBoard(f), IsBoard(g)
    PROVE  IsBoard(Over(f, g))
<1>1. DOMAIN Over(f, g) \subseteq Id /\ IsFiniteSet(DOMAIN Over(f, g))
  BY FS_Union DEF Over, IsBoard
<1>2. Over(f, g) \in [DOMAIN f \cup DOMAIN g -> Task]
  BY DEF Over, IsBoard
<1> QED
  BY <1>1, <1>2 DEF IsBoard

LEMMA OverLedgers ==
    ASSUME NEW f, NEW g, IsLedgers(f), IsLedgers(g)
    PROVE  IsLedgers(Over(f, g))
<1>1. Over(f, g) \in [DOMAIN f \cup DOMAIN g -> History] /\ DOMAIN f \cup DOMAIN g \subseteq Id
  BY DEF Over, IsLedgers
<1> QED
  BY <1>1 DEF IsLedgers

\* A directory that is there is not missing.
LEMMA Present ==
    ASSUME NEW f, DOMAIN f \subseteq Id
    PROVE  f # Missing /\ Files(f) = f
<1>1. DOMAIN Missing = {Gone}
  BY DEF Missing
<1> QED
  BY <1>1, GoneAssumption DEF Files

LEMMA NothingThere ==
    /\ IsBoard(NoTasks) /\ IsLedgers(NoTasks) /\ DOMAIN NoTasks = {}
    /\ Files(Missing) = NoTasks /\ Files(NoTasks) = NoTasks
<1>1. DOMAIN NoTasks = {} /\ NoTasks \in [{} -> Task] /\ NoTasks \in [{} -> History]
  BY DEF NoTasks
<1>2. IsBoard(NoTasks) /\ IsLedgers(NoTasks)
  BY <1>1, FS_EmptySet DEF IsBoard, IsLedgers
<1> QED
  BY <1>1, <1>2 DEF Files

LEMMA FilesOfTasks ==
    ASSUME NEW f, f = Missing \/ IsBoard(f)
    PROVE  IsBoard(Files(f)) /\ DOMAIN Files(f) \subseteq Id
  BY NothingThere, Present DEF IsBoard

LEMMA FilesOfLedgers ==
    ASSUME NEW f, f = Missing \/ IsLedgers(f)
    PROVE  IsLedgers(Files(f)) /\ DOMAIN Files(f) \subseteq Id
  BY NothingThere, Present DEF IsLedgers

LEMMA LedgerTyped ==
    ASSUME NEW f, f = Missing \/ IsLedgers(f), NEW id
    PROVE  /\ LedgerOf(f, id) \in History
           /\ id \in DOMAIN Files(f) => LedgerOf(f, id) = Files(f)[id]
           /\ LedgerOf(Files(f), id) = LedgerOf(f, id)
<1>1. Files(Files(f)) = Files(f)
  BY NothingThere, Present DEF IsLedgers
<1>2. CASE f = Missing
  BY <1>1, <1>2, NothingThere DEF LedgerOf, History
<1>3. CASE IsLedgers(f)
  <2>1. Files(f) = f
    BY <1>3, Present DEF IsLedgers
  <2>2. <<>> \in History
    BY DEF History
  <2>3. id \in DOMAIN f => f[id] \in History
    BY <1>3 DEF IsLedgers
  <2> QED
    BY <2>1, <2>2, <2>3 DEF LedgerOf
<1> QED
  BY <1>2, <1>3

LEMMA OverLedgerOf ==
    ASSUME NEW f, NEW g, DOMAIN f \subseteq Id, DOMAIN g \subseteq Id, NEW id
    PROVE  LedgerOf(Over(f, g), id) = IF id \in DOMAIN f THEN f[id] ELSE LedgerOf(g, id)
<1>1. DOMAIN Over(f, g) \subseteq Id
  BY OverAt
<1>2. Files(Over(f, g)) = Over(f, g) /\ Files(g) = g
  BY <1>1, Present
<1>3. /\ DOMAIN Over(f, g) = DOMAIN f \cup DOMAIN g
      /\ id \in DOMAIN f => Over(f, g)[id] = f[id]
      /\ id \in DOMAIN g \ DOMAIN f => Over(f, g)[id] = g[id]
  BY DEF Over
<1> QED
  BY <1>2, <1>3 DEF LedgerOf

LEMMA StateTyped ==
    ASSUME NEW b, IsBoard(b), NEW id
    PROVE  /\ At(b, id) \in State
           /\ id \in DOMAIN b <=> At(b, id) # Gone
           /\ id \in DOMAIN b => At(b, id) = b[id] /\ b[id] \in Task
  BY GoneAssumption DEF At, IsBoard, State

\* Boards with the same tasks are the same.
LEMMA SameBoard ==
    ASSUME NEW f, NEW g, IsBoard(f), IsBoard(g), \A id \in Id : At(f, id) = At(g, id)
    PROVE  f = g
<1>1. DOMAIN f = DOMAIN g
  BY StateTyped DEF IsBoard
<1>2. \A id \in DOMAIN f : f[id] = g[id]
  BY <1>1, StateTyped DEF IsBoard
<1> QED
  BY <1>1, <1>2 DEF IsBoard

LEMMA WithoutBoard ==
    ASSUME NEW f, IsBoard(f), NEW id
    PROVE  /\ IsBoard(Without(f, id))
           /\ \A i : At(Without(f, id), i) = IF i = id THEN Gone ELSE At(f, i)
<1>1. DOMAIN Without(f, id) = DOMAIN f \ {id}
  BY DEF Without
<1>2. IsFiniteSet(DOMAIN f \ {id})
  BY FS_Subset DEF IsBoard
<1>3. Without(f, id) \in [DOMAIN f \ {id} -> Task]
  BY DEF Without, IsBoard
<1>4. IsBoard(Without(f, id))
  BY <1>1, <1>2, <1>3 DEF IsBoard
<1>5. \A i \in DOMAIN f \ {id} : Without(f, id)[i] = f[i]
  BY DEF Without
<1> QED
  BY <1>1, <1>4, <1>5 DEF At

(***************************************************************************)
(* Ledgers.                                                                *)
(***************************************************************************)

LEMMA LastEntry ==
    ASSUME NEW l \in History, l # <<>>
    PROVE  Last(l) \in Entry /\ Last(l).event \in Event /\ Last(l).segment \in Nat
<1>1. l[Len(l)] \in Entry
  BY DEF History
<1> QED
  BY <1>1 DEF Last, Entry

LEMMA HeadTyped ==
    ASSUME NEW l \in History
    PROVE  Latest(l) \in [n : Nat, after : State] /\ Latest(l).n = Len(l)
<1>1. l # <<>> => Last(l).event.after \in State
  BY LastEntry DEF Event
<1>2. Gone \in State /\ Len(l) \in Nat
  BY DEF History, State
<1> QED
  BY <1>1, <1>2 DEF Latest

LEMMA EventAppended ==
    ASSUME NEW l \in History, NEW e \in Event
    PROVE  /\ Appended(l, e) \in History
           /\ Latest(Appended(l, e)) = [n |-> Len(l) + 1, after |-> e.after]
           /\ Contains(Read(Appended(l, e)), e)
           /\ \A w : Contains(Read(l), w) => Contains(Read(Appended(l, e)), w)
           /\ Chained(l) /\ e.prev = Latest(l) => Chained(Appended(l, e))
<1> DEFINE entry == [segment |-> SegmentOf(l, e), event |-> e]
           u == Append(l, entry)
<1>1. SegmentOf(l, e) \in Nat
  <2>1. l # <<>> => Last(l).segment \in Nat
    BY LastEntry
  <2> QED
    BY <2>1 DEF SegmentOf
<1>2. entry \in Entry /\ entry.event = e
  BY <1>1 DEF Entry
<1> HIDE DEF entry
<1>3. /\ u \in History /\ Len(u) = Len(l) + 1 /\ Len(l) \in Nat /\ u[Len(l) + 1] = entry
      /\ \A i \in 1..Len(l) : u[i] = l[i]
      /\ DOMAIN u = 1..Len(l) + 1 /\ DOMAIN l = 1..Len(l)
  BY <1>2 DEF History
<1>4. Appended(l, e) = u
  BY DEF Appended, entry
<1> HIDE DEF u
<1>5. Latest(u) = [n |-> Len(l) + 1, after |-> e.after]
  <2>1. u # <<>> /\ Last(u) = entry
    BY <1>3 DEF Last
  <2> QED
    BY <1>2, <1>3, <2>1 DEF Latest
<1>6. /\ DOMAIN Read(u) = 1..Len(l) + 1 /\ DOMAIN Read(l) = 1..Len(l)
      /\ Len(Read(u)) = Len(l) + 1 /\ Len(Read(l)) = Len(l)
      /\ \A i \in 1..Len(l) : Read(u)[i] = Read(l)[i]
      /\ Read(u)[Len(l) + 1] = e
  BY <1>2, <1>3 DEF Read, History
<1>7. Contains(Read(u), e)
  BY <1>3, <1>6 DEF Contains
<1>8. ASSUME NEW w, Contains(Read(l), w) PROVE Contains(Read(u), w)
  BY <1>3, <1>6, <1>8 DEF Contains
<1>9. ASSUME Chained(l), e.prev = Latest(l) PROVE Chained(u)
  <2>1. SUFFICES ASSUME NEW i \in 1..Len(l) + 1
                 PROVE  u[i].event.prev =
                            [n |-> i - 1, after |-> IF i = 1 THEN Gone ELSE u[i - 1].event.after]
    BY <1>3 DEF Chained
  <2>2. CASE i \in 1..Len(l)
    <3>1. l[i].event.prev =
              [n |-> i - 1, after |-> IF i = 1 THEN Gone ELSE l[i - 1].event.after]
      BY <1>3, <1>9, <2>2 DEF Chained
    <3>2. u[i] = l[i] /\ (i # 1 => u[i - 1] = l[i - 1])
      BY <1>3, <2>2
    <3> QED
      BY <3>1, <3>2
  <2>3. CASE i = Len(l) + 1
    <3>1. u[i].event.prev = Latest(l)
      BY <1>2, <1>3, <1>9, <2>3
    <3>2. i - 1 = Len(l) /\ (i = 1 <=> l = <<>>)
      BY <1>3, <2>3 DEF History
    <3>3. i # 1 => u[i - 1] = Last(l)
      BY <1>3, <2>3 DEF Last
    <3> QED
      BY <3>1, <3>2, <3>3 DEF Latest
  <2> QED
    BY <1>3, <2>1, <2>2, <2>3
<1> QED
  BY <1>3, <1>4, <1>5, <1>7, <1>8, <1>9

(***************************************************************************)
(* Numbers, and the names that copies get.                                 *)
(***************************************************************************)

LEMMA FirstInLine ==
    ASSUME NEW S, IsFiniteSet(S), S # {}, NEW ahead \in [S -> SUBSET S]
    PROVE  \E f \in S : \A g \in S : <<ahead[g], ahead[f]>> \notin StrictSubsetOrdering(S)
<1> DEFINE T == {ahead[f] : f \in S}
<1>1. IsWellFoundedOn(StrictSubsetOrdering(S), SUBSET S)
  BY FS_StrictSubsetOrderingWellFounded, FS_FiniteSubsetsOfFinite
<1>2. T \subseteq SUBSET S /\ T # {}
  OBVIOUS
<1>3. \E A \in T : \A B \in T : <<B, A>> \notin StrictSubsetOrdering(S)
  <2> HIDE DEF T
  <2> QED
    BY <1>1, <1>2, WFMin
<1> QED
  BY <1>3

LEMMA Extremes ==
    ASSUME NEW S \in SUBSET Nat, IsFiniteSet(S), S # {}
    PROVE  /\ \E m \in S : \A n \in S : m <= n
           /\ \E m \in S : \A n \in S : n <= m
<1>1. \E m \in S : \A n \in S : m <= n
  <2> DEFINE below == [m \in S |-> {n \in S : n < m}]
  <2>1. PICK m \in S : \A n \in S : <<below[n], below[m]>> \notin StrictSubsetOrdering(S)
    <3>1. below \in [S -> SUBSET S]
      OBVIOUS
    <3> HIDE DEF below
    <3> QED
      BY <3>1, FirstInLine
  <2>2. ASSUME NEW n \in S, n < m PROVE FALSE
    <3>1. n \in below[m] /\ n \notin below[n]
      BY <2>2
    <3>2. \A k \in S : k < n => k < m
      <4>1. S \subseteq Nat /\ n \in Nat /\ m \in Nat
        OBVIOUS
      <4> QED
        BY <2>2, <4>1
    <3>3. below[n] \subseteq below[m] /\ below[n] \in SUBSET S /\ below[m] \in SUBSET S
      BY <3>2
    <3> HIDE DEF below
    <3> QED
      BY <2>1, <3>1, <3>3 DEF StrictSubsetOrdering
  <2> QED
    BY <2>2
<1>2. \E m \in S : \A n \in S : n <= m
  <2> DEFINE above == [m \in S |-> {n \in S : n > m}]
  <2>1. PICK m \in S : \A n \in S : <<above[n], above[m]>> \notin StrictSubsetOrdering(S)
    <3>1. above \in [S -> SUBSET S]
      OBVIOUS
    <3> HIDE DEF above
    <3> QED
      BY <3>1, FirstInLine
  <2>2. ASSUME NEW n \in S, n > m PROVE FALSE
    <3>1. n \in above[m] /\ n \notin above[n]
      BY <2>2
    <3>2. \A k \in S : k > n => k > m
      <4>1. S \subseteq Nat /\ n \in Nat /\ m \in Nat
        OBVIOUS
      <4> QED
        BY <2>2, <4>1
    <3>3. above[n] \subseteq above[m] /\ above[n] \in SUBSET S /\ above[m] \in SUBSET S
      BY <3>2
    <3> HIDE DEF above
    <3> QED
      BY <2>1, <3>1, <3>3 DEF StrictSubsetOrdering
  <2> QED
    BY <2>2
<1> QED
  BY <1>1, <1>2

\* The copy of a task gets a name that nothing has, from which its own can be told.
LEMMA NewNames ==
    ASSUME NEW id \in Id, NEW occupied, Free(id, occupied) # {}
    PROVE  NewId(id, occupied) \in Id \ occupied /\ Front(NewId(id, occupied)) = id
<1> DEFINE free == Free(id, occupied)
           c == CHOOSE n \in free : \A m \in free : n <= m
<1>1. free \in SUBSET Nat /\ IsFiniteSet(free)
  <2>1. IsFiniteSet(1..Tries) /\ 1..Tries \subseteq Nat /\ free \in SUBSET (1..Tries)
    BY TriesAssumption, FS_Interval DEF Free
  <2> QED
    BY <2>1, FS_Subset
<1>2. c \in free
  <2>0. free # {}
    OBVIOUS
  <2>1. \E n \in free : \A m \in free : n <= m
    <3> HIDE DEF free
    <3> QED
      BY <1>1, <2>0, Extremes
  <2> QED
    BY <2>1
<1>3. NewId(id, occupied) = Append(id, c)
  BY DEF NewId
<1>4. c \in Nat /\ Append(id, c) \notin occupied
  BY <1>1, <1>2 DEF Free
<1> HIDE DEF c
<1>5. Append(id, c) \in Seq(Name \cup Nat) /\ Front(Append(id, c)) = id
  BY <1>4 DEF Id, Front
<1> QED
  BY <1>3, <1>4, <1>5 DEF Id

(***************************************************************************)
(* Plans.                                                                  *)
(***************************************************************************)

LEMMA LastSource ==
    ASSUME NEW ss, SourcesOK(ss), NEW i \in DOMAIN ss, NEW id \in DOMAIN ss[i]
    PROVE  LastWith(ss, id) \in DOMAIN ss /\ id \in DOMAIN ss[LastWith(ss, id)]
<1> DEFINE having == {j \in DOMAIN ss : id \in DOMAIN ss[j]}
           Lasts(j) == id \in DOMAIN ss[j] /\ \A k \in DOMAIN ss : id \in DOMAIN ss[k] => k <= j
<1>1. having # {} /\ having \in SUBSET Nat /\ IsFiniteSet(having)
  BY FS_Subset DEF SourcesOK
<1>2. PICK m \in having : \A k \in having : k <= m
  <2> HIDE DEF having
  <2> QED
    BY <1>1, Extremes
<1>3. m \in DOMAIN ss /\ Lasts(m)
  BY <1>2
<1>4. LastWith(ss, id) = CHOOSE j \in DOMAIN ss : Lasts(j)
  BY DEF LastWith
<1>5. LastWith(ss, id) \in DOMAIN ss /\ Lasts(LastWith(ss, id))
  <2> HIDE DEF Lasts
  <2> QED
    BY <1>3, <1>4
<1> QED
  BY <1>5

LEMMA CombinedBoard ==
    ASSUME NEW ss, SourcesOK(ss)
    PROVE  IsBoard(Combined(ss))
<1> DEFINE ids == UNION {DOMAIN ss[i] : i \in DOMAIN ss}
<1>1. IsFiniteSet(ids)
  <2> DEFINE f == [i \in DOMAIN ss |-> DOMAIN ss[i]]
             T == {DOMAIN ss[i] : i \in DOMAIN ss}
  <2>1. f \in Surjection(DOMAIN ss, T)
    BY DEF Surjection
  <2>2. IsFiniteSet(T)
    <3> HIDE DEF f, T
    <3> QED
      BY <2>1, FS_Surjection DEF SourcesOK
  <2>3. \A D \in T : IsFiniteSet(D)
    BY DEF SourcesOK, IsBoard
  <2> HIDE DEF T
  <2>4. IsFiniteSet(UNION T)
    BY <2>2, <2>3, FS_UNION
  <2> QED
    BY <2>4 DEF T
<1>2. ids \subseteq Id
  BY DEF SourcesOK, IsBoard
<1>3. ASSUME NEW id \in ids PROVE ss[LastWith(ss, id)][id] \in Task
  <2>1. PICK i \in DOMAIN ss : id \in DOMAIN ss[i]
    BY <1>3
  <2>2. LastWith(ss, id) \in DOMAIN ss /\ id \in DOMAIN ss[LastWith(ss, id)]
    BY <2>1, LastSource
  <2> QED
    BY <2>2 DEF SourcesOK, IsBoard
<1>4. Combined(ss) = [id \in ids |-> ss[LastWith(ss, id)][id]]
  BY DEF Combined
<1> HIDE DEF ids
<1>5. DOMAIN Combined(ss) = ids /\ Combined(ss) \in [ids -> Task]
  BY <1>3, <1>4
<1> QED
  BY <1>1, <1>2, <1>5 DEF IsBoard

LEMMA CopiesMade ==
    ASSUME NEW src, NEW dst, IsBoard(src), IsBoard(dst), Nameable(src, dst, "keep-both")
    PROVE  /\ IsBoard(Copies(src, dst))
           /\ DOMAIN Copies(src, dst) \cap (DOMAIN src \cup DOMAIN dst) = {}
           /\ \A id \in DOMAIN src \cap DOMAIN dst :
                 \E new \in DOMAIN Copies(src, dst) :
                     Front(new) = id /\ Copies(src, dst)[new] = src[id]
<1> DEFINE both == DOMAIN src \cap DOMAIN dst
           occupied == DOMAIN src \cup DOMAIN dst
           name == [id \in both |-> NewId(id, occupied)]
           news == {name[id] : id \in both}
           Of(new) == CHOOSE id \in both : name[id] = new
<1>1. IsFiniteSet(occupied) /\ IsFiniteSet(both) /\ both \subseteq Id /\ both \subseteq DOMAIN src
  BY FS_Union, FS_Intersection DEF IsBoard
<1>2. \A id \in both : name[id] \in Id \ occupied /\ Front(name[id]) = id
  <2>1. ASSUME NEW id \in both PROVE name[id] \in Id \ occupied /\ Front(name[id]) = id
    <3>1. name[id] = NewId(id, occupied) /\ id \in Id
      BY <1>1
    <3>2. Free(id, occupied) # {}
      BY DEF Nameable
    <3> HIDE DEF occupied, name
    <3> QED
      BY <3>1, <3>2, NewNames
  <2> QED
    BY <2>1
<1>3. Copies(src, dst) = [new \in news |-> src[Of(new)]]
  <2>1. Copies(src, dst) =
            [new \in {NewId(id, occupied) : id \in both} |->
                src[CHOOSE id \in both : NewId(id, occupied) = new]]
    BY DEF Copies
  <2>2. news = {NewId(id, occupied) : id \in both}
    OBVIOUS
  <2>3. \A new : Of(new) = CHOOSE id \in both : NewId(id, occupied) = new
    <3>1. \A id \in both : name[id] = NewId(id, occupied)
      OBVIOUS
    <3> HIDE DEF name, both, occupied
    <3> QED
      BY <3>1
  <2> QED
    BY <2>1, <2>2, <2>3
<1> HIDE DEF name
<1>4. ASSUME NEW id \in both PROVE Of(name[id]) = id
  <2>1. Of(name[id]) \in both /\ name[Of(name[id])] = name[id]
    OBVIOUS
  <2> QED
    BY <1>2, <2>1
<1>5. IsFiniteSet(news)
  <2> DEFINE f == [id \in both |-> name[id]]
  <2>1. f \in Surjection(both, news)
    BY DEF Surjection
  <2> HIDE DEF f, both, news
  <2> QED
    BY <1>1, <2>1, FS_Surjection
<1> HIDE DEF Of
<1>6. \A new \in news : new \in Id \ occupied /\ Of(new) \in both /\ src[Of(new)] \in Task
  BY <1>1, <1>2, <1>4 DEF IsBoard
<1>7. DOMAIN Copies(src, dst) = news
  BY <1>3
<1>8. IsBoard(Copies(src, dst))
  <2>1. Copies(src, dst) \in [news -> Task]
    BY <1>3, <1>6
  <2> QED
    BY <1>5, <1>6, <1>7, <2>1 DEF IsBoard
<1>9. ASSUME NEW id \in both
      PROVE  \E new \in DOMAIN Copies(src, dst) : Front(new) = id /\ Copies(src, dst)[new] = src[id]
  <2>1. name[id] \in news /\ Copies(src, dst)[name[id]] = src[Of(name[id])]
    BY <1>3
  <2> QED
    BY <1>2, <1>4, <1>7, <2>1
<1>10. DOMAIN Copies(src, dst) \cap occupied = {}
  BY <1>6, <1>7
<1> QED
  BY <1>8, <1>9, <1>10

Strategy == {"keep-newer", "keep-both"}

LEMMA RestAdded ==
    ASSUME NEW src, NEW dst, IsBoard(src), IsBoard(dst)
    PROVE  LET rest == [id \in DOMAIN src \ DOMAIN dst |-> src[id]]
           IN  IsBoard(rest) /\ DOMAIN rest = DOMAIN src \ DOMAIN dst
<1> DEFINE rest == [id \in DOMAIN src \ DOMAIN dst |-> src[id]]
<1>1. DOMAIN rest = DOMAIN src \ DOMAIN dst /\ IsFiniteSet(DOMAIN src \ DOMAIN dst)
  BY FS_Subset DEF IsBoard
<1>2. rest \in [DOMAIN src \ DOMAIN dst -> Task]
  BY DEF IsBoard
<1> QED
  BY <1>1, <1>2 DEF IsBoard

LEMMA NewerUpdated ==
    ASSUME NEW src, NEW dst, IsBoard(src), IsBoard(dst)
    PROVE  /\ IsBoard(Newer(src, dst)) /\ DOMAIN Newer(src, dst) \subseteq DOMAIN src \cap DOMAIN dst
           /\ \A id \in DOMAIN Newer(src, dst) :
                 Newer(src, dst)[id] = src[id] /\ src[id].at > dst[id].at
           /\ \A id \in (DOMAIN src \cap DOMAIN dst) \ DOMAIN Newer(src, dst) :
                 dst[id].at >= src[id].at
<1> DEFINE ids == {id \in DOMAIN src \cap DOMAIN dst : src[id].at > dst[id].at /\ src[id] # dst[id]}
<1>1. DOMAIN Newer(src, dst) = ids /\ \A id \in ids : Newer(src, dst)[id] = src[id]
  BY DEF Newer
<1>2. IsFiniteSet(ids)
  BY FS_Subset DEF IsBoard
<1>3. Newer(src, dst) \in [ids -> Task]
  BY DEF Newer, IsBoard
<1>4. IsBoard(Newer(src, dst))
  BY <1>1, <1>2, <1>3 DEF IsBoard
<1>5. ASSUME NEW id \in (DOMAIN src \cap DOMAIN dst) \ ids PROVE dst[id].at >= src[id].at
  <2>1. src[id].at \in Nat /\ dst[id].at \in Nat
    BY DEF IsBoard, Task
  <2> QED
    BY <1>5, <2>1
<1> QED
  BY <1>1, <1>4, <1>5

LEMMA CopyAdded ==
    ASSUME NEW src, NEW dst, IsBoard(src), IsBoard(dst), Nameable(src, dst, "keep-both"),
           NEW id \in DOMAIN src \cap DOMAIN dst
    PROVE  LET added == Added(src, dst, "keep-both")
           IN  \E new \in DOMAIN added \ DOMAIN src : Front(new) = id /\ added[new] = src[id]
<1> DEFINE rest == [i \in DOMAIN src \ DOMAIN dst |-> src[i]]
           copies == Copies(src, dst)
           added == Added(src, dst, "keep-both")
<1>1. added = Over(rest, copies) /\ DOMAIN rest = DOMAIN src \ DOMAIN dst
  BY DEF Added
<1>2. PICK new \in DOMAIN copies : Front(new) = id /\ copies[new] = src[id]
  BY CopiesMade
<1>3. DOMAIN copies \cap (DOMAIN src \cup DOMAIN dst) = {}
  BY CopiesMade
<1> HIDE DEF added, rest, copies
<1>4. new \in DOMAIN added \ DOMAIN src /\ added[new] = copies[new]
  BY <1>1, <1>3 DEF Over
<1> QED
  BY <1>2, <1>4 DEF added

\* What a plan writes.
LEMMA Writes ==
    ASSUME NEW src, NEW dst, IsBoard(src), IsBoard(dst), NEW strategy \in Strategy,
           Nameable(src, dst, strategy)
    PROVE  LET added == Added(src, dst, strategy)
               updated == Updated(src, dst, strategy)
           IN  /\ IsBoard(added) /\ IsBoard(updated) /\ IsBoard(Over(added, updated))
               /\ DOMAIN added \cap DOMAIN dst = {}
               /\ DOMAIN src \ DOMAIN dst \subseteq DOMAIN added
               /\ \A id \in DOMAIN src \ DOMAIN dst : added[id] = src[id]
               /\ strategy = "keep-both" => DOMAIN updated = {}
               /\ strategy = "keep-newer" =>
                     DOMAIN added = DOMAIN src \ DOMAIN dst /\ updated = Newer(src, dst)
<1> DEFINE added == Added(src, dst, strategy)
           updated == Updated(src, dst, strategy)
           rest == [id \in DOMAIN src \ DOMAIN dst |-> src[id]]
<1>1. IsBoard(rest) /\ DOMAIN rest = DOMAIN src \ DOMAIN dst /\ \A id \in DOMAIN rest : rest[id] = src[id]
  BY RestAdded
<1> HIDE DEF rest
<1>2. CASE strategy = "keep-both"
  <2> DEFINE copies == Copies(src, dst)
  <2>1. added = Over(rest, copies) /\ updated = NoTasks
    BY <1>2 DEF Added, Updated, rest
  <2>2. /\ IsBoard(copies) /\ DOMAIN copies \cap (DOMAIN src \cup DOMAIN dst) = {}
        /\ \A id \in DOMAIN src \cap DOMAIN dst :
              \E new \in DOMAIN copies : Front(new) = id /\ copies[new] = src[id]
    BY <1>2, CopiesMade
  <2> HIDE DEF added, updated, copies
  <2>3. /\ DOMAIN added = DOMAIN rest \cup DOMAIN copies
        /\ \A id \in DOMAIN rest : added[id] = rest[id]
        /\ \A id \in DOMAIN copies \ DOMAIN rest : added[id] = copies[id]
    BY <2>1 DEF Over
  <2>4. IsBoard(added) /\ IsBoard(updated) /\ DOMAIN updated = {}
    BY <1>1, <2>1, <2>2, OverBoard, NothingThere
  <2>6. DOMAIN added \cap DOMAIN dst = {}
    BY <1>1, <2>2, <2>3
  <2>7. IsBoard(Over(added, updated))
    BY <2>4, OverBoard
  <2> QED
    BY <1>1, <1>2, <2>3, <2>4, <2>6, <2>7 DEF added, updated
<1>3. CASE strategy = "keep-newer"
  <2>1. added = Over(rest, NoTasks) /\ updated = Newer(src, dst)
    BY <1>3 DEF Added, Updated, rest
  <2>2. IsBoard(updated)
    BY <2>1, NewerUpdated
  <2> HIDE DEF added, updated
  <2>3. DOMAIN added = DOMAIN rest /\ \A id \in DOMAIN rest : added[id] = rest[id]
    BY <2>1, NothingThere DEF Over
  <2>4. IsBoard(added) /\ IsBoard(Over(added, updated))
    BY <1>1, <2>1, <2>2, OverBoard, NothingThere
  <2> QED
    BY <1>1, <1>3, <2>1, <2>2, <2>3, <2>4 DEF added, updated
<1> QED
  BY <1>2, <1>3 DEF Strategy

LEMMA EventPrepared ==
    ASSUME NEW l \in History, NEW op \in {"create", "merge", "update", "archive", "delete"},
           NEW before \in State, NEW after \in State
    PROVE  LET e == Prepare(l, op, before, after)
           IN  e \in Event /\ e.before = before /\ e.after = after /\ e.prev = Latest(l)
<1>1. Latest(l) \in [n : Nat, after : State] /\ Bytes(op) \in 1..2
  BY HeadTyped DEF Bytes
<1> QED
  BY <1>1 DEF Prepare, Event

\* The boards that a plan is made from, and what it is made to write.
PlanSources == Combined(sources)
PlanTarget == Files(tasks["target"])
PlanWrites(strategy) ==
    Over(Added(PlanSources, PlanTarget, strategy), Updated(PlanSources, PlanTarget, strategy))

LEMMA PlanMade ==
    ASSUME Types, NEW strategy \in Strategy, Plannable(strategy)
    PROVE  LET p == Planned(strategy)
               after == PlanWrites(strategy)
           IN  /\ IsBoard(PlanSources) /\ IsBoard(PlanTarget) /\ IsBoard(after) /\ IsPlan(p)
               /\ p.identity = Identity /\ p.strategy = strategy
               /\ p.identity.tasks = PlanTarget /\ p.identity.sources = sources
               /\ \A id \in DOMAIN PlanTarget : p.identity.heads[id] = Latest(Told(id))
               /\ p.final = Over(after, PlanTarget)
               /\ DOMAIN p.events = DOMAIN after
<1> DEFINE p == Planned(strategy)
           src == PlanSources
           dst == PlanTarget
           after == PlanWrites(strategy)
           Op(id) == IF id \in DOMAIN Added(src, dst, strategy) THEN "create" ELSE "merge"
           Ev(id) == Prepare(LedgerOf(ledger["target"], id), Op(id), At(dst, id), after[id])
           events == [id \in DOMAIN after |-> Ev(id)]
<1>1. IsBoard(src) /\ IsBoard(dst)
  <2>1. tasks["target"] = Missing \/ IsBoard(tasks["target"])
    BY DEF Types, TasksOK, Place
  <2> QED
    BY <2>1, CombinedBoard, FilesOfTasks DEF Types, PlanSources, PlanTarget
<1>2. IsBoard(after)
  BY <1>1, Writes DEF PlanWrites, Plannable, PlanSources, PlanTarget
<1>3. IsBoard(Over(after, dst))
  BY <1>1, <1>2, OverBoard
<1>4. /\ Identity.tasks = dst /\ Identity.sources = sources
      /\ \A id \in DOMAIN dst : Identity.heads[id] = Latest(Told(id))
  BY DEF Identity, Told, PlanTarget
<1>5. p.identity = Identity /\ p.strategy = strategy /\ p.final = Over(after, dst) /\ p.events = events
  BY DEF Planned, PlanSources, PlanTarget, PlanWrites
<1> HIDE DEF src, dst, after, p
<1>6. ASSUME NEW id \in DOMAIN after PROVE Ev(id) \in Event /\ Ev(id).after = after[id]
  <2>1. LedgerOf(ledger["target"], id) \in History
    BY LedgerTyped DEF Types, LedgersOK, Place
  <2>2. after[id] \in State /\ At(dst, id) \in State
    BY <1>1, <1>2, StateTyped DEF State
  <2>3. Op(id) \in {"create", "merge", "update", "archive", "delete"}
    OBVIOUS
  <2> HIDE DEF Op
  <2> QED
    BY <2>1, <2>2, <2>3, EventPrepared
<1> HIDE DEF Ev
<1>7. DOMAIN events = DOMAIN after /\ events \in [DOMAIN after -> Event]
  BY <1>6
<1>8. [id \in DOMAIN events |-> events[id].after] = after
  BY <1>2, <1>6, <1>7 DEF IsBoard
<1> HIDE DEF events
<1>9. \A id \in DOMAIN dst : Identity.heads[id].n \in Nat
  <2>1. ledger["target"] = Missing \/ IsLedgers(ledger["target"])
    BY DEF Types, LedgersOK, Place
  <2>2. \A id : Told(id) \in History
    BY <2>1, LedgerTyped DEF Told
  <2>3. \A id : Latest(Told(id)).n \in Nat
    BY <2>2, HeadTyped
  <2> QED
    BY <1>4, <2>3
<1>10. IsPlan(p)
  BY <1>1, <1>2, <1>3, <1>4, <1>5, <1>7, <1>8, <1>9 DEF IsPlan, IsBoard, Types
<1> QED
  BY <1>1, <1>2, <1>4, <1>5, <1>7, <1>10 DEF p, dst, src, after

LEMMA NewPlanFaithful ==
    ASSUME Types, NEW strategy \in Strategy, Plannable(strategy), plan' = Planned(strategy)
    PROVE  PlanFaithful'
<1> DEFINE p == Planned(strategy)
           src == PlanSources
           dst == PlanTarget
           added == Added(src, dst, strategy)
           updated == Updated(src, dst, strategy)
           after == Over(added, updated)
           New(id) == id \in DOMAIN p.final \ (DOMAIN src \cup DOMAIN dst)
<1>1. /\ IsBoard(src) /\ IsBoard(dst)
      /\ p.strategy = strategy /\ p.identity.tasks = dst /\ p.identity.sources = sources
      /\ p.final = Over(after, dst)
  BY PlanMade DEF PlanWrites
<1>2. src = Combined(sources) /\ ~Contradictory(p.final) /\ Nameable(src, dst, strategy)
  BY DEF PlanSources, PlanTarget, Plannable
<1> HIDE DEF p, src, dst
<1>3. IsBoard(src) /\ IsBoard(dst) /\ Nameable(src, dst, strategy)
  BY <1>1, <1>2
<1>4. DOMAIN added \cap DOMAIN dst = {} /\ DOMAIN src \ DOMAIN dst \subseteq DOMAIN added
  BY <1>3, Writes
<1>5. \A id \in DOMAIN src \ DOMAIN dst : added[id] = src[id]
  BY <1>3, Writes
<1>6. /\ DOMAIN added \cap DOMAIN dst = {}
      /\ DOMAIN src \ DOMAIN dst \subseteq DOMAIN added
      /\ \A id \in DOMAIN src \ DOMAIN dst : added[id] = src[id]
  BY <1>4, <1>5
<1>7. strategy = "keep-both" => DOMAIN updated = {}
  BY <1>3, Writes
<1>8. ASSUME strategy = "keep-both", NEW id \in DOMAIN src \cap DOMAIN dst
      PROVE  \E new \in DOMAIN added \ DOMAIN src : Front(new) = id /\ added[new] = src[id]
  BY <1>3, <1>8, CopyAdded
<1>9. ASSUME strategy = "keep-newer"
      PROVE  DOMAIN added = DOMAIN src \ DOMAIN dst /\ updated = Newer(src, dst)
  <2>1. DOMAIN added = DOMAIN src \ DOMAIN dst
    BY <1>3, <1>9, Writes
  <2>2. updated = Newer(src, dst)
    BY <1>9 DEF Updated
  <2> QED
    BY <2>1, <2>2
<1> HIDE DEF added, updated
<1>10. /\ DOMAIN p.final = DOMAIN added \cup DOMAIN updated \cup DOMAIN dst
       /\ \A id \in DOMAIN added : p.final[id] = added[id]
       /\ \A id \in DOMAIN updated \ DOMAIN added : p.final[id] = updated[id]
       /\ \A id \in DOMAIN dst \ (DOMAIN added \cup DOMAIN updated) : p.final[id] = dst[id]
  BY <1>1 DEF Over
<1>11. DOMAIN src \cup DOMAIN dst \subseteq DOMAIN p.final
  BY <1>6, <1>10
<1>12. ASSUME strategy = "keep-both"
       PROVE  /\ \A id \in DOMAIN dst : p.final[id] = dst[id]
              /\ \A id \in DOMAIN src \cap DOMAIN dst :
                    \E new \in DOMAIN p.final :
                        New(new) /\ Front(new) = id /\ p.final[new] = src[id]
  <2>1. \A id \in DOMAIN dst : p.final[id] = dst[id]
    BY <1>6, <1>10, <1>12, <1>7
  <2>2. ASSUME NEW id \in DOMAIN src \cap DOMAIN dst
        PROVE  \E new \in DOMAIN p.final : New(new) /\ Front(new) = id /\ p.final[new] = src[id]
    <3>1. PICK new \in DOMAIN added \ DOMAIN src : Front(new) = id /\ added[new] = src[id]
      BY <1>12, <1>8
    <3>2. New(new) /\ p.final[new] = added[new]
      BY <1>6, <1>10
    <3> QED
      BY <3>1, <3>2
  <2> QED
    BY <2>1, <2>2
<1>13. ASSUME strategy = "keep-newer", NEW id \in DOMAIN p.final
       PROVE  /\ ~New(id)
              /\ id \in DOMAIN dst => p.final[id].at >= dst[id].at
              /\ id \in DOMAIN src => p.final[id].at >= src[id].at
  <2>1. /\ DOMAIN updated \subseteq DOMAIN src \cap DOMAIN dst
        /\ \A i \in DOMAIN updated : updated[i] = src[i] /\ src[i].at > dst[i].at
        /\ \A i \in (DOMAIN src \cap DOMAIN dst) \ DOMAIN updated : dst[i].at >= src[i].at
    BY <1>3, <1>13, <1>9, NewerUpdated
  <2>2. /\ DOMAIN added = DOMAIN src \ DOMAIN dst
    BY <1>13, <1>9
  <2>3. ~New(id)
    BY <1>10, <2>1, <2>2
  <2>4. /\ id \in DOMAIN dst => dst[id].at \in Nat
        /\ id \in DOMAIN src => src[id].at \in Nat
    BY <1>1, StateTyped DEF Task
  <2>5. CASE id \in DOMAIN added
    <3>1. p.final[id] = src[id] /\ id \in DOMAIN src /\ id \notin DOMAIN dst
      BY <1>6, <1>10, <2>2, <2>5
    <3> QED
      BY <2>3, <2>4, <3>1
  <2>6. CASE id \in DOMAIN updated
    <3>1. p.final[id] = src[id] /\ src[id].at > dst[id].at /\ id \in DOMAIN src /\ id \in DOMAIN dst
      BY <1>10, <2>1, <2>2, <2>6
    <3> QED
      BY <2>3, <2>4, <3>1
  <2>7. CASE id \notin DOMAIN added \cup DOMAIN updated
    <3>1. p.final[id] = dst[id] /\ id \in DOMAIN dst /\ (id \in DOMAIN src => dst[id].at >= src[id].at)
      BY <1>10, <2>1, <2>2, <2>7
    <3> QED
      BY <2>3, <2>4, <3>1
  <2> QED
    BY <2>5, <2>6, <2>7
<1>14. plan' = p
  BY DEF p
<1> QED
  BY <1>1, <1>2, <1>11, <1>12, <1>13, <1>14 DEF PlanFaithful

(***************************************************************************)
(* What the steps of a merge do to its record and to the directories.      *)
(***************************************************************************)

NoteHad(r, a, b) == [r EXCEPT !.hadTasks = a, !.hadLedger = b]
NoteStaged(r, a) == [r EXCEPT !.staged = a]
NoteBefore(r, a) == [r EXCEPT !.before = a]
NotePutTasks(r, a) == [r EXCEPT !.putTasks = a]
NotePutLedger(r, a) == [r EXCEPT !.putLedger = a]
NoteEnd(r, a, b, c) == [r EXCEPT !.end = a, !.before = b, !.staged = c]
NoteFailure(r, a, b) == [r EXCEPT !.end = a, !.staged = b]
StageAs(d, v) == [d EXCEPT !["staged"] = v]
Target(d, v) == [d EXCEPT !["target"] = v]
PutAway(d) == [d EXCEPT !["backup"] = d["target"], !["target"] = Missing]
PutInPlace(d) == [d EXCEPT !["target"] = d["staged"], !["staged"] = Missing]

LEMMA NoteHadMakes ==
    ASSUME NEW r, IsRun(r), NEW a, NEW b
    PROVE  LET s == NoteHad(r, a, b)
           IN  /\ IsRun(s)
               /\ s.end = r.end /\ s.hadTasks = a /\ s.hadLedger = b
               /\ s.putTasks = r.putTasks /\ s.putLedger = r.putLedger
               /\ s.staged = r.staged /\ s.before = r.before
<1> DEFINE s == NoteHad(r, a, b)
<1>1. ASSUME NEW u, u = s
      PROVE  u = [end |-> r.end, hadTasks |-> a, hadLedger |-> b, putTasks |-> r.putTasks,
            putLedger |-> r.putLedger, staged |-> r.staged, before |-> r.before]
  BY <1>1, Zenon DEF IsRun, NoteHad
<1> HIDE DEF s
<1>2. s = [end |-> r.end, hadTasks |-> a, hadLedger |-> b, putTasks |-> r.putTasks,
            putLedger |-> r.putLedger, staged |-> r.staged, before |-> r.before]
  BY <1>1
<1>3. /\ IsRun(s)
      /\ s.end = r.end /\ s.hadTasks = a /\ s.hadLedger = b
      /\ s.putTasks = r.putTasks /\ s.putLedger = r.putLedger
      /\ s.staged = r.staged /\ s.before = r.before
  BY <1>2 DEF IsRun
<1> QED
  BY <1>3 DEF s

LEMMA NoteStagedMakes ==
    ASSUME NEW r, IsRun(r), NEW a
    PROVE  LET s == NoteStaged(r, a)
           IN  /\ IsRun(s)
               /\ s.end = r.end /\ s.hadTasks = r.hadTasks /\ s.hadLedger = r.hadLedger
               /\ s.putTasks = r.putTasks /\ s.putLedger = r.putLedger
               /\ s.staged = a /\ s.before = r.before
<1> DEFINE s == NoteStaged(r, a)
<1>1. ASSUME NEW u, u = s
      PROVE  u = [end |-> r.end, hadTasks |-> r.hadTasks, hadLedger |-> r.hadLedger, putTasks |-> r.putTasks,
            putLedger |-> r.putLedger, staged |-> a, before |-> r.before]
  BY <1>1, Zenon DEF IsRun, NoteStaged
<1> HIDE DEF s
<1>2. s = [end |-> r.end, hadTasks |-> r.hadTasks, hadLedger |-> r.hadLedger, putTasks |-> r.putTasks,
            putLedger |-> r.putLedger, staged |-> a, before |-> r.before]
  BY <1>1
<1>3. /\ IsRun(s)
      /\ s.end = r.end /\ s.hadTasks = r.hadTasks /\ s.hadLedger = r.hadLedger
      /\ s.putTasks = r.putTasks /\ s.putLedger = r.putLedger
      /\ s.staged = a /\ s.before = r.before
  BY <1>2 DEF IsRun
<1> QED
  BY <1>3 DEF s

LEMMA NoteBeforeMakes ==
    ASSUME NEW r, IsRun(r), NEW a
    PROVE  LET s == NoteBefore(r, a)
           IN  /\ IsRun(s)
               /\ s.end = r.end /\ s.hadTasks = r.hadTasks /\ s.hadLedger = r.hadLedger
               /\ s.putTasks = r.putTasks /\ s.putLedger = r.putLedger
               /\ s.staged = r.staged /\ s.before = a
<1> DEFINE s == NoteBefore(r, a)
<1>1. ASSUME NEW u, u = s
      PROVE  u = [end |-> r.end, hadTasks |-> r.hadTasks, hadLedger |-> r.hadLedger, putTasks |-> r.putTasks,
            putLedger |-> r.putLedger, staged |-> r.staged, before |-> a]
  BY <1>1, Zenon DEF IsRun, NoteBefore
<1> HIDE DEF s
<1>2. s = [end |-> r.end, hadTasks |-> r.hadTasks, hadLedger |-> r.hadLedger, putTasks |-> r.putTasks,
            putLedger |-> r.putLedger, staged |-> r.staged, before |-> a]
  BY <1>1
<1>3. /\ IsRun(s)
      /\ s.end = r.end /\ s.hadTasks = r.hadTasks /\ s.hadLedger = r.hadLedger
      /\ s.putTasks = r.putTasks /\ s.putLedger = r.putLedger
      /\ s.staged = r.staged /\ s.before = a
  BY <1>2 DEF IsRun
<1> QED
  BY <1>3 DEF s

LEMMA NotePutTasksMakes ==
    ASSUME NEW r, IsRun(r), NEW a
    PROVE  LET s == NotePutTasks(r, a)
           IN  /\ IsRun(s)
               /\ s.end = r.end /\ s.hadTasks = r.hadTasks /\ s.hadLedger = r.hadLedger
               /\ s.putTasks = a /\ s.putLedger = r.putLedger
               /\ s.staged = r.staged /\ s.before = r.before
<1> DEFINE s == NotePutTasks(r, a)
<1>1. ASSUME NEW u, u = s
      PROVE  u = [end |-> r.end, hadTasks |-> r.hadTasks, hadLedger |-> r.hadLedger, putTasks |-> a,
            putLedger |-> r.putLedger, staged |-> r.staged, before |-> r.before]
  BY <1>1, Zenon DEF IsRun, NotePutTasks
<1> HIDE DEF s
<1>2. s = [end |-> r.end, hadTasks |-> r.hadTasks, hadLedger |-> r.hadLedger, putTasks |-> a,
            putLedger |-> r.putLedger, staged |-> r.staged, before |-> r.before]
  BY <1>1
<1>3. /\ IsRun(s)
      /\ s.end = r.end /\ s.hadTasks = r.hadTasks /\ s.hadLedger = r.hadLedger
      /\ s.putTasks = a /\ s.putLedger = r.putLedger
      /\ s.staged = r.staged /\ s.before = r.before
  BY <1>2 DEF IsRun
<1> QED
  BY <1>3 DEF s

LEMMA NotePutLedgerMakes ==
    ASSUME NEW r, IsRun(r), NEW a
    PROVE  LET s == NotePutLedger(r, a)
           IN  /\ IsRun(s)
               /\ s.end = r.end /\ s.hadTasks = r.hadTasks /\ s.hadLedger = r.hadLedger
               /\ s.putTasks = r.putTasks /\ s.putLedger = a
               /\ s.staged = r.staged /\ s.before = r.before
<1> DEFINE s == NotePutLedger(r, a)
<1>1. ASSUME NEW u, u = s
      PROVE  u = [end |-> r.end, hadTasks |-> r.hadTasks, hadLedger |-> r.hadLedger, putTasks |-> r.putTasks,
            putLedger |-> a, staged |-> r.staged, before |-> r.before]
  BY <1>1, Zenon DEF IsRun, NotePutLedger
<1> HIDE DEF s
<1>2. s = [end |-> r.end, hadTasks |-> r.hadTasks, hadLedger |-> r.hadLedger, putTasks |-> r.putTasks,
            putLedger |-> a, staged |-> r.staged, before |-> r.before]
  BY <1>1
<1>3. /\ IsRun(s)
      /\ s.end = r.end /\ s.hadTasks = r.hadTasks /\ s.hadLedger = r.hadLedger
      /\ s.putTasks = r.putTasks /\ s.putLedger = a
      /\ s.staged = r.staged /\ s.before = r.before
  BY <1>2 DEF IsRun
<1> QED
  BY <1>3 DEF s

LEMMA NoteEndMakes ==
    ASSUME NEW r, IsRun(r), NEW a, NEW b, NEW c
    PROVE  LET s == NoteEnd(r, a, b, c)
           IN  /\ IsRun(s)
               /\ s.end = a /\ s.hadTasks = r.hadTasks /\ s.hadLedger = r.hadLedger
               /\ s.putTasks = r.putTasks /\ s.putLedger = r.putLedger
               /\ s.staged = c /\ s.before = b
<1> DEFINE s == NoteEnd(r, a, b, c)
<1>1. ASSUME NEW u, u = s
      PROVE  u = [end |-> a, hadTasks |-> r.hadTasks, hadLedger |-> r.hadLedger, putTasks |-> r.putTasks,
            putLedger |-> r.putLedger, staged |-> c, before |-> b]
  BY <1>1, Zenon DEF IsRun, NoteEnd
<1> HIDE DEF s
<1>2. s = [end |-> a, hadTasks |-> r.hadTasks, hadLedger |-> r.hadLedger, putTasks |-> r.putTasks,
            putLedger |-> r.putLedger, staged |-> c, before |-> b]
  BY <1>1
<1>3. /\ IsRun(s)
      /\ s.end = a /\ s.hadTasks = r.hadTasks /\ s.hadLedger = r.hadLedger
      /\ s.putTasks = r.putTasks /\ s.putLedger = r.putLedger
      /\ s.staged = c /\ s.before = b
  BY <1>2 DEF IsRun
<1> QED
  BY <1>3 DEF s

LEMMA NoteFailureMakes ==
    ASSUME NEW r, IsRun(r), NEW a, NEW b
    PROVE  LET s == NoteFailure(r, a, b)
           IN  /\ IsRun(s)
               /\ s.end = a /\ s.hadTasks = r.hadTasks /\ s.hadLedger = r.hadLedger
               /\ s.putTasks = r.putTasks /\ s.putLedger = r.putLedger
               /\ s.staged = b /\ s.before = r.before
<1> DEFINE s == NoteFailure(r, a, b)
<1>1. ASSUME NEW u, u = s
      PROVE  u = [end |-> a, hadTasks |-> r.hadTasks, hadLedger |-> r.hadLedger, putTasks |-> r.putTasks,
            putLedger |-> r.putLedger, staged |-> b, before |-> r.before]
  BY <1>1, Zenon DEF IsRun, NoteFailure
<1> HIDE DEF s
<1>2. s = [end |-> a, hadTasks |-> r.hadTasks, hadLedger |-> r.hadLedger, putTasks |-> r.putTasks,
            putLedger |-> r.putLedger, staged |-> b, before |-> r.before]
  BY <1>1
<1>3. /\ IsRun(s)
      /\ s.end = a /\ s.hadTasks = r.hadTasks /\ s.hadLedger = r.hadLedger
      /\ s.putTasks = r.putTasks /\ s.putLedger = r.putLedger
      /\ s.staged = b /\ s.before = r.before
  BY <1>2 DEF IsRun
<1> QED
  BY <1>3 DEF s

LEMMA StageAsMakes ==
    ASSUME NEW d, Shaped(d), NEW v
    PROVE  /\ Shaped(StageAs(d, v)) /\ StageAs(d, v)["target"] = d["target"]
           /\ StageAs(d, v)["staged"] = v /\ StageAs(d, v)["backup"] = d["backup"]
<1>1. ASSUME NEW u, u = StageAs(d, v) PROVE u = [target |-> d["target"], staged |-> v, backup |-> d["backup"]]
  BY <1>1, Zenon DEF Shaped, StageAs
<1>2. StageAs(d, v) = [target |-> d["target"], staged |-> v, backup |-> d["backup"]]
  BY <1>1, Zenon
<1> QED
  BY <1>2 DEF Shaped

LEMMA TargetMakes ==
    ASSUME NEW d, Shaped(d), NEW v
    PROVE  /\ Shaped(Target(d, v)) /\ Target(d, v)["target"] = v
           /\ Target(d, v)["staged"] = d["staged"] /\ Target(d, v)["backup"] = d["backup"]
<1>1. ASSUME NEW u, u = Target(d, v) PROVE u = [target |-> v, staged |-> d["staged"], backup |-> d["backup"]]
  BY <1>1, Zenon DEF Shaped, Target
<1>2. Target(d, v) = [target |-> v, staged |-> d["staged"], backup |-> d["backup"]]
  BY <1>1, Zenon
<1> QED
  BY <1>2 DEF Shaped

LEMMA DroppedMakes ==
    ASSUME NEW d, Shaped(d)
    PROVE  /\ Shaped(Dropped(d)) /\ Dropped(d)["target"] = d["target"]
           /\ Dropped(d)["staged"] = Missing /\ Dropped(d)["backup"] = Missing
<1>1. ASSUME NEW u, u = Dropped(d) PROVE u = [target |-> d["target"], staged |-> Missing, backup |-> Missing]
  BY <1>1, Zenon DEF Shaped, Dropped
<1>2. Dropped(d) = [target |-> d["target"], staged |-> Missing, backup |-> Missing]
  BY <1>1, Zenon
<1> QED
  BY <1>2 DEF Shaped

LEMMA PutAwayMakes ==
    ASSUME NEW d, Shaped(d)
    PROVE  /\ Shaped(PutAway(d)) /\ PutAway(d)["target"] = Missing
           /\ PutAway(d)["staged"] = d["staged"] /\ PutAway(d)["backup"] = d["target"]
<1>1. ASSUME NEW u, u = PutAway(d) PROVE u = [target |-> Missing, staged |-> d["staged"], backup |-> d["target"]]
  BY <1>1, Zenon DEF Shaped, PutAway
<1>2. PutAway(d) = [target |-> Missing, staged |-> d["staged"], backup |-> d["target"]]
  BY <1>1, Zenon
<1> QED
  BY <1>2 DEF Shaped

LEMMA PutInPlaceMakes ==
    ASSUME NEW d, Shaped(d)
    PROVE  /\ Shaped(PutInPlace(d)) /\ PutInPlace(d)["target"] = d["staged"]
           /\ PutInPlace(d)["staged"] = Missing /\ PutInPlace(d)["backup"] = d["backup"]
<1>1. ASSUME NEW u, u = PutInPlace(d) PROVE u = [target |-> d["staged"], staged |-> Missing, backup |-> d["backup"]]
  BY <1>1, Zenon DEF Shaped, PutInPlace
<1>2. PutInPlace(d) = [target |-> d["staged"], staged |-> Missing, backup |-> d["backup"]]
  BY <1>1, Zenon
<1> QED
  BY <1>2 DEF Shaped

LEMMA RestoredMakes ==
    ASSUME NEW d, Shaped(d), NEW put
    PROVE  /\ Shaped(Restored(d, put))
           /\ Restored(d, put)["staged"] = d["staged"] /\ Restored(d, put)["backup"] = Missing
           /\ Restored(d, put)["target"] = IF d["backup"] = Missing THEN Left(d, put) ELSE d["backup"]
<1> DEFINE v == IF d["backup"] = Missing THEN Left(d, put) ELSE d["backup"]
<1>1. Restored(d, put) = [d EXCEPT !["target"] = v, !["backup"] = Missing]
  BY DEF Restored
<1> HIDE DEF v
<1>2. Restored(d, put) = [target |-> v, staged |-> d["staged"], backup |-> Missing]
  BY <1>1, Zenon DEF Shaped
<1>3. /\ Shaped(Restored(d, put)) /\ Restored(d, put)["staged"] = d["staged"]
      /\ Restored(d, put)["backup"] = Missing /\ Restored(d, put)["target"] = v
  BY <1>2 DEF Shaped
<1> QED
  BY <1>3 DEF v

(***************************************************************************)
(* Types.                                                                  *)
(***************************************************************************)

LEMMA PlacesOK ==
    ASSUME NEW d, Shaped(d)
    PROVE  /\ TasksOK(d) <=> \A b \in {d["target"], d["staged"], d["backup"]} : b = Missing \/ IsBoard(b)
           /\ LedgersOK(d) <=>
                 \A l \in {d["target"], d["staged"], d["backup"]} : l = Missing \/ IsLedgers(l)
  BY DEF TasksOK, LedgersOK, Place

\* What is to be written, and what comes of the ledgers.
LEMMA MadeTyped ==
    ASSUME plan # NoPlan, IsPlan(plan)
    PROVE  /\ IsBoard(Made) /\ DOMAIN Made = DOMAIN plan.events
           /\ plan.final = Over(Made, plan.identity.tasks)
           /\ \A id \in DOMAIN Made : plan.final[id] = Made[id] /\ Made[id] = plan.events[id].after
<1>1. /\ DOMAIN Made = DOMAIN plan.events /\ plan.final = Over(Made, plan.identity.tasks)
      /\ \A id \in DOMAIN Made : Made[id] = plan.events[id].after
  BY DEF Made, IsPlan
<1>2. IsBoard(plan.final) /\ IsBoard(plan.identity.tasks)
  BY DEF IsPlan
<1>3. /\ DOMAIN Made \subseteq DOMAIN plan.final
      /\ \A id \in DOMAIN Made : plan.final[id] = Made[id]
  BY <1>1 DEF Over
<1>4. \A id \in DOMAIN Made : Made[id] \in Task
  BY <1>2, <1>3 DEF IsBoard
<1>5. IsFiniteSet(DOMAIN Made) /\ DOMAIN Made \subseteq Id
  BY <1>2, <1>3, FS_Subset DEF IsBoard
<1>6. Made \in [DOMAIN Made -> Task]
  BY <1>1, <1>4 DEF Made
<1> QED
  BY <1>1, <1>3, <1>5, <1>6 DEF IsBoard

LEMMA GrownTyped ==
    ASSUME plan # NoPlan, IsPlan(plan), NEW l, l = Missing \/ IsLedgers(l)
    PROVE  /\ IsLedgers(Grown(l)) /\ DOMAIN Grown(l) = DOMAIN plan.events
           /\ \A id \in DOMAIN plan.events :
                 Grown(l)[id] = Appended(LedgerOf(l, id), plan.events[id])
<1>1. /\ DOMAIN Grown(l) = DOMAIN plan.events
      /\ \A id \in DOMAIN plan.events : Grown(l)[id] = Appended(LedgerOf(l, id), plan.events[id])
  BY DEF Grown
<1>2. \A id \in DOMAIN plan.events : Appended(LedgerOf(l, id), plan.events[id]) \in History
  BY LedgerTyped, EventAppended DEF IsPlan
<1>3. Grown(l) \in [DOMAIN plan.events -> History]
  BY <1>2 DEF Grown
<1> QED
  BY <1>1, <1>3 DEF IsLedgers, IsPlan

LEMMA PlanningTyped ==
    ASSUME Types, NEW strategy \in Strategy, MakePlan(strategy)
    PROVE  Types'
<1>1. plan' = Planned(strategy) /\ IsPlan(Planned(strategy))
  BY PlanMade DEF MakePlan
<1>2. IsPlan(plan')
  BY <1>1
<1> QED
  BY <1>2 DEF Types, MakePlan, board, ghosts

LEMMA ApplyingTyped ==
    ASSUME Types, Apply
    PROVE  Types' /\ IsRun(NoRun)
<1>1. IsRun(NoRun)
  BY DEF IsRun, NoRun
<1>2. pc' = "copy tasks" /\ pc' \in Working
  BY DEF Apply, Goto, Working, Copying, Trying
<1> QED
  BY <1>1, <1>2 DEF Types, Apply, board, ghosts

LEMMA CopyingTyped ==
    ASSUME Types, CopyTasks \/ CopyLedger
    PROVE  Types'
<1>1. /\ Shaped(tasks) /\ Shaped(ledger) /\ TasksOK(tasks) /\ LedgersOK(ledger)
      /\ IsBoard(Files(tasks["target"])) /\ IsLedgers(Files(ledger["target"]))
  BY FilesOfTasks, FilesOfLedgers DEF Types, TasksOK, LedgersOK, Place
<1>2. CASE CopyTasks
  <2>1. tasks' = StageAs(tasks, Files(tasks["target"]))
    BY <1>2 DEF CopyTasks, StageAs
  <2>2. /\ Shaped(tasks') /\ tasks'["target"] = tasks["target"]
        /\ tasks'["staged"] = Files(tasks["target"]) /\ tasks'["backup"] = tasks["backup"]
    BY <1>1, <2>1, StageAsMakes
  <2>3. TasksOK(tasks')
    BY <1>1, <2>2, PlacesOK
  <2>4. pc' = "copy ledger" /\ pc' \in Working
    BY <1>2 DEF CopyTasks, Goto, Working, Copying, Trying
  <2> QED
    BY <1>1, <1>2, <2>2, <2>3, <2>4 DEF Types, CopyTasks, ghosts
<1>3. CASE CopyLedger
  <2>1. /\ ledger' = StageAs(ledger, Files(ledger["target"]))
        /\ run' = NoteHad(run, tasks["target"] # Missing, ledger["target"] # Missing)
    BY <1>3 DEF CopyLedger, StageAs, NoteHad
  <2>2. /\ Shaped(ledger') /\ ledger'["target"] = ledger["target"]
        /\ ledger'["staged"] = Files(ledger["target"]) /\ ledger'["backup"] = ledger["backup"]
    BY <1>1, <2>1, StageAsMakes
  <2>3. LedgersOK(ledger')
    BY <1>1, <2>2, PlacesOK
  <2>4. pc = "copy ledger" /\ pc' = "stage" /\ pc' \in Working
    BY <1>3 DEF CopyLedger, Goto, Working, Copying, Trying
  <2>5. IsRun(run')
    BY <2>1, NoteHadMakes DEF Types
  <2> QED
    BY <1>1, <1>3, <2>2, <2>3, <2>4, <2>5 DEF Types, CopyLedger, ghosts
<1> QED
  BY <1>2, <1>3

\* The staged directories once the plan is carried out in them.
LEMMA StagingMakes ==
    ASSUME Types, Stage
    PROVE  /\ Shaped(tasks') /\ Shaped(ledger')
           /\ tasks'["target"] = tasks["target"] /\ ledger'["target"] = ledger["target"]
           /\ tasks'["backup"] = tasks["backup"] /\ ledger'["backup"] = ledger["backup"]
           /\ tasks'["staged"] = Over(Made, tasks["staged"])
           /\ ledger'["staged"] = Over(Grown(ledger["staged"]), ledger["staged"])
           /\ IsRun(run') /\ run'.staged = <<Made, Grown(ledger["staged"])>>
           /\ run'.hadTasks = run.hadTasks /\ run'.hadLedger = run.hadLedger
           /\ run'.putTasks = run.putTasks /\ run'.putLedger = run.putLedger
           /\ run'.before = run.before /\ run'.end = run.end
<1>1. /\ tasks' = StageAs(tasks, Over(Made, tasks["staged"]))
      /\ ledger' = StageAs(ledger, Over(Grown(ledger["staged"]), ledger["staged"]))
      /\ run' = NoteStaged(run, <<Made, Grown(ledger["staged"])>>)
  BY DEF Stage, Made, Grown, StageAs, NoteStaged
<1>3. Shaped(tasks) /\ Shaped(ledger) /\ IsRun(run)
  BY DEF Types, TasksOK, LedgersOK
<1>4. /\ Shaped(tasks') /\ tasks'["target"] = tasks["target"]
      /\ tasks'["staged"] = Over(Made, tasks["staged"]) /\ tasks'["backup"] = tasks["backup"]
  BY <1>1, <1>3, StageAsMakes
<1>5. /\ Shaped(ledger') /\ ledger'["target"] = ledger["target"]
      /\ ledger'["staged"] = Over(Grown(ledger["staged"]), ledger["staged"])
      /\ ledger'["backup"] = ledger["backup"]
  BY <1>1, <1>3, StageAsMakes
<1>6. /\ IsRun(run') /\ run'.staged = <<Made, Grown(ledger["staged"])>>
      /\ run'.hadTasks = run.hadTasks /\ run'.hadLedger = run.hadLedger
      /\ run'.putTasks = run.putTasks /\ run'.putLedger = run.putLedger
      /\ run'.before = run.before /\ run'.end = run.end
  BY <1>1, <1>3, NoteStagedMakes
<1> QED
  BY <1>4, <1>5, <1>6

LEMMA StagingTyped ==
    ASSUME Types, Stage
    PROVE  Types'
<1>1. pc = "stage" /\ pc' = "check" /\ pc' \in Working
  BY DEF Stage, Goto, Working, Copying, Trying
<1>2. plan # NoPlan /\ IsPlan(plan) /\ IsBoard(tasks["staged"]) /\ IsLedgers(ledger["staged"])
  BY <1>1 DEF Types
<1>3. IsBoard(tasks'["staged"]) /\ IsLedgers(ledger'["staged"])
  BY <1>2, StagingMakes, MadeTyped, GrownTyped, OverBoard, OverLedgers
<1>4. TasksOK(tasks') /\ LedgersOK(ledger')
  <2>1. Shaped(tasks) /\ Shaped(ledger) /\ TasksOK(tasks) /\ LedgersOK(ledger)
    BY DEF Types, TasksOK, LedgersOK
  <2> QED
    BY <1>3, <2>1, StagingMakes, PlacesOK
<1>5. IsRun(run')
  BY StagingMakes
<1> QED
  BY <1>1, <1>3, <1>4, <1>5 DEF Types, Stage, ghosts

LEMMA MovesTyped ==
    ASSUME NEW d, NEW put
    PROVE  /\ TasksOK(d) => TasksOK(PutAway(d)) /\ TasksOK(PutInPlace(d)) /\ TasksOK(Dropped(d))
                            /\ TasksOK(Restored(d, put))
           /\ LedgersOK(d) => LedgersOK(PutAway(d)) /\ LedgersOK(PutInPlace(d)) /\ LedgersOK(Dropped(d))
                              /\ LedgersOK(Restored(d, put))
<1> SUFFICES ASSUME Shaped(d)
             PROVE  /\ TasksOK(d) => TasksOK(PutAway(d)) /\ TasksOK(PutInPlace(d))
                                     /\ TasksOK(Dropped(d)) /\ TasksOK(Restored(d, put))
                    /\ LedgersOK(d) => LedgersOK(PutAway(d)) /\ LedgersOK(PutInPlace(d))
                                       /\ LedgersOK(Dropped(d)) /\ LedgersOK(Restored(d, put))
  BY DEF TasksOK, LedgersOK
<1>1. (TasksOK(d) => TasksOK(PutAway(d))) /\ (LedgersOK(d) => LedgersOK(PutAway(d)))
  BY PutAwayMakes, PlacesOK
<1>2. (TasksOK(d) => TasksOK(PutInPlace(d))) /\ (LedgersOK(d) => LedgersOK(PutInPlace(d)))
  BY PutInPlaceMakes, PlacesOK
<1>3. (TasksOK(d) => TasksOK(Dropped(d))) /\ (LedgersOK(d) => LedgersOK(Dropped(d)))
  BY DroppedMakes, PlacesOK
<1>4. (TasksOK(d) => TasksOK(Restored(d, put))) /\ (LedgersOK(d) => LedgersOK(Restored(d, put)))
  <2> DEFINE b == Restored(d, put)["target"]
  <2>1. b \in {Missing, d["target"], d["backup"]}
    BY RestoredMakes DEF Left
  <2>2. Shaped(Restored(d, put)) /\ Restored(d, put)["staged"] = d["staged"]
        /\ Restored(d, put)["backup"] = Missing
    BY RestoredMakes
  <2> HIDE DEF b
  <2>3. TasksOK(Restored(d, put)) <=> \A c \in {b, d["staged"], Missing} : c = Missing \/ IsBoard(c)
    BY <2>2, PlacesOK DEF b
  <2>4. LedgersOK(Restored(d, put)) <=> \A c \in {b, d["staged"], Missing} : c = Missing \/ IsLedgers(c)
    BY <2>2, PlacesOK DEF b
  <2> QED
    BY <2>1, <2>3, <2>4, PlacesOK
<1> QED
  BY <1>1, <1>2, <1>3, <1>4

LEMMA ReplacingTyped ==
    ASSUME Types, Check \/ SaveTasks \/ PutTasks \/ SaveLedger \/ PutLedger
    PROVE  Types'
<1>1. TasksOK(tasks) /\ LedgersOK(ledger) /\ IsRun(run) /\ Shaped(tasks) /\ Shaped(ledger)
  BY DEF Types, TasksOK, LedgersOK
<1>2. CASE Check
  <2>1. IsRun(NoteBefore(run, <<tasks["target"], ledger["target"]>>))
    BY <1>1, NoteBeforeMakes
  <2>2. IsRun(run') /\ pc = "check" /\ pc' = "save tasks" /\ pc' \in Working
    BY <1>2, <2>1 DEF Check, NoteBefore, Goto, Working, Copying, Trying
  <2> QED
    BY <1>2, <2>2 DEF Types, Check, board
<1>3. CASE SaveTasks
  <2>1. tasks' \in {tasks, PutAway(tasks)} /\ pc = "save tasks" /\ pc' = "put tasks" /\ pc' \in Working
    BY <1>3 DEF SaveTasks, PutAway, Goto, Working, Copying, Trying
  <2>2. TasksOK(tasks') /\ tasks'["staged"] = tasks["staged"]
    BY <1>1, <2>1, MovesTyped, PutAwayMakes
  <2> QED
    BY <1>3, <2>1, <2>2 DEF Types, SaveTasks, ghosts
<1>4. CASE PutTasks
  <2>1. /\ tasks' = PutInPlace(tasks) /\ run' = NotePutTasks(run, TRUE)
        /\ pc = "put tasks" /\ pc' = "save ledger" /\ pc' \in Working
    BY <1>4 DEF PutTasks, PutInPlace, NotePutTasks, Goto, Working, Copying, Trying
  <2>2. TasksOK(tasks') /\ IsRun(run')
    BY <1>1, <2>1, MovesTyped, NotePutTasksMakes
  <2> QED
    BY <1>4, <2>1, <2>2 DEF Types, PutTasks, ghosts
<1>5. CASE SaveLedger
  <2>1. ledger' \in {ledger, PutAway(ledger)} /\ pc = "save ledger" /\ pc' = "put ledger" /\ pc' \in Working
    BY <1>5 DEF SaveLedger, PutAway, Goto, Working, Copying, Trying
  <2>2. LedgersOK(ledger') /\ ledger'["staged"] = ledger["staged"]
    BY <1>1, <2>1, MovesTyped, PutAwayMakes
  <2> QED
    BY <1>5, <2>1, <2>2 DEF Types, SaveLedger, ghosts
<1>6. CASE PutLedger
  <2>1. /\ ledger' = PutInPlace(ledger) /\ run' = NotePutLedger(run, TRUE)
        /\ pc' = "receipt" /\ pc' \in Working /\ pc # "idle"
    BY <1>6 DEF PutLedger, PutInPlace, NotePutLedger, Goto, Working, Copying, Trying
  <2>2. LedgersOK(ledger') /\ IsRun(run')
    BY <1>1, <2>1, MovesTyped, NotePutLedgerMakes
  <2> QED
    BY <1>6, <2>1, <2>2 DEF Types, PutLedger, ghosts
<1> QED
  BY <1>2, <1>3, <1>4, <1>5, <1>6

\* What an error leaves of a directory is still one, or nothing.
LEMMA PartTyped ==
    ASSUME NEW f, NEW ids \in SUBSET DOMAIN f
    PROVE  LET part == [id \in ids |-> f[id]]
           IN  /\ f = Missing \/ IsBoard(f) => part = Missing \/ IsBoard(part)
               /\ f = Missing \/ IsLedgers(f) => part = Missing \/ IsLedgers(part)
<1> DEFINE part == [id \in ids |-> f[id]]
<1>1. DOMAIN part = ids
  OBVIOUS
<1>2. CASE f = Missing
  <2>1. CASE ids = {}
    BY <2>1, NothingThere DEF NoTasks
  <2>2. CASE ids = {Gone}
    BY <1>2, <2>2 DEF Missing
  <2> QED
    BY <1>2, <2>1, <2>2 DEF Missing
<1>3. CASE f # Missing
  <2>1. ASSUME IsBoard(f) PROVE IsBoard(part)
    <3>1. IsFiniteSet(ids) /\ ids \subseteq Id
      BY <2>1, FS_Subset DEF IsBoard
    <3>2. part \in [ids -> Task]
      BY <2>1 DEF IsBoard
    <3> QED
      BY <1>1, <3>1, <3>2 DEF IsBoard
  <2>2. ASSUME IsLedgers(f) PROVE IsLedgers(part)
    BY <1>1, <2>2 DEF IsLedgers
  <2> QED
    BY <1>3, <2>1, <2>2
<1> QED
  BY <1>2, <1>3

LEMMA RemnantsTyped ==
    ASSUME NEW d, NEW put, NEW left \in Remnants(d, put)
    PROVE  /\ TasksOK(d) => TasksOK(Dropped(Target(d, left)))
           /\ LedgersOK(d) => LedgersOK(Dropped(Target(d, left)))
           /\ Shaped(d) => Dropped(Target(d, left))["backup"] = Missing
<1>1. Shaped(d) => /\ Shaped(Dropped(Target(d, left))) /\ Dropped(Target(d, left))["target"] = left
                   /\ Dropped(Target(d, left))["staged"] = Missing
                   /\ Dropped(Target(d, left))["backup"] = Missing
  BY TargetMakes, DroppedMakes
<1>2. \/ left \in {Missing, d["target"]}
      \/ \E ids \in SUBSET DOMAIN d["target"] : left = [id \in ids |-> d["target"][id]]
  BY DEF Remnants, Left
<1>3. /\ d["target"] = Missing \/ IsBoard(d["target"]) => left = Missing \/ IsBoard(left)
      /\ d["target"] = Missing \/ IsLedgers(d["target"]) => left = Missing \/ IsLedgers(left)
  BY <1>2, PartTyped
<1> QED
  BY <1>1, <1>3 DEF TasksOK, LedgersOK, Place

LEMMA EndingTyped ==
    ASSUME Types, \/ Receipt \/ CopyFails \/ Fail \/ RestoreLedger \/ RestoreTasks
                  \/ RestoreFails \/ RestoreError \/ Stop
    PROVE  Types'
<1>1. TasksOK(tasks) /\ LedgersOK(ledger) /\ IsRun(run)
  BY DEF Types
<1>2. CASE Receipt \/ CopyFails \/ RestoreFails \/ Stop
  <2>1. /\ tasks' = Dropped(tasks) /\ ledger' = Dropped(ledger) /\ pc' = "idle"
        /\ \E how : run' = NoteEnd(run, how, <<>>, <<>>)
    BY <1>2 DEF Receipt, CopyFails, RestoreFails, Stop, NoteEnd, Goto
  <2>2. IsRun(run')
    BY <1>1, <2>1, NoteEndMakes
  <2>3. TasksOK(tasks') /\ LedgersOK(ledger')
    BY <1>1, <2>1, MovesTyped
  <2>4. UNCHANGED <<sources, plan, writer, acked, writes>>
    BY <1>2 DEF Receipt, CopyFails, RestoreFails, Stop, ghosts
  <2> QED
    BY <2>1, <2>2, <2>3, <2>4 DEF Types
<1>3. CASE Fail
  <2>1. pc # "idle"
    BY <1>3 DEF Fail, Refused, Working, Copying, Trying
  <2>2. pc' = "restore ledger" /\ pc' \in Restoring
    BY <1>3 DEF Fail, Goto, Restoring
  <2> QED
    BY <1>3, <2>1, <2>2 DEF Types, Fail, board, ghosts
<1>4. CASE RestoreLedger
  <2>1. /\ ledger' = Restored(ledger, run.putLedger)
        /\ pc # "idle" /\ pc' = "restore tasks" /\ pc' \in Restoring
    BY <1>4 DEF RestoreLedger, Goto, Restoring
  <2>2. LedgersOK(ledger')
    BY <1>1, <2>1, MovesTyped
  <2> QED
    BY <1>4, <2>1, <2>2 DEF Types, RestoreLedger, ghosts
<1>5. CASE RestoreTasks
  <2>1. /\ tasks' = Dropped(Restored(tasks, run.putTasks)) /\ ledger' = Dropped(ledger)
        /\ pc' = "idle" /\ run' = NoteFailure(run, "failed", <<>>)
    BY <1>5 DEF RestoreTasks, NoteFailure, Goto
  <2>2. TasksOK(tasks') /\ LedgersOK(ledger') /\ IsRun(run')
    BY <1>1, <2>1, MovesTyped, NoteFailureMakes
  <2> QED
    BY <1>5, <2>1, <2>2 DEF Types, RestoreTasks, ghosts
<1>6. CASE RestoreError
  <2>1. /\ pc' = "idle" /\ run' = NoteEnd(run, "lost", <<>>, <<>>)
        /\ UNCHANGED <<sources, plan, writer, acked, writes>>
    BY <1>6 DEF RestoreError, NoteEnd, Goto
  <2>2. TasksOK(tasks')
    <3>1. \/ tasks' = Dropped(tasks)
          \/ \E left \in Remnants(tasks, run.putTasks) : tasks' = Dropped(Target(tasks, left))
      BY <1>6 DEF RestoreError, Target
    <3> QED
      BY <1>1, <3>1, MovesTyped, RemnantsTyped
  <2>3. LedgersOK(ledger')
    <3>1. \/ ledger' = Dropped(ledger)
          \/ \E left \in Remnants(ledger, run.putLedger) : ledger' = Dropped(Target(ledger, left))
      BY <1>6 DEF RestoreError, Target
    <3> QED
      BY <1>1, <3>1, MovesTyped, RemnantsTyped
  <2>4. IsRun(run')
    BY <1>1, <2>1, NoteEndMakes
  <2> QED
    BY <2>1, <2>2, <2>3, <2>4 DEF Types
<1> QED
  BY <1>2, <1>3, <1>4, <1>5, <1>6

LEMMA Dated ==
    ASSUME NEW t \in Task, NEW n \in Nat
    PROVE  [t EXCEPT !.at = n] \in Task
  BY DEF Task

LEMMA SourceEdited ==
    ASSUME NEW ss, SourcesOK(ss), NEW i \in DOMAIN ss, NEW id \in DOMAIN ss[i], NEW n \in Nat
    PROVE  SourcesOK([ss EXCEPT ![i][id].at = n])
<1> DEFINE new == [ss EXCEPT ![i][id].at = n]
           b == [ss[i] EXCEPT ![id].at = n]
<1>1. IsBoard(ss[i])
  BY DEF SourcesOK
<1>2. b = [j \in DOMAIN ss[i] |-> IF j = id THEN [ss[i][id] EXCEPT !.at = n] ELSE ss[i][j]]
  BY <1>1 DEF IsBoard
<1>3. \A j \in DOMAIN ss[i] : ss[i][j] \in Task
  BY <1>1 DEF IsBoard
<1>4. b \in [DOMAIN ss[i] -> Task] /\ DOMAIN b = DOMAIN ss[i]
  BY <1>2, <1>3, Dated
<1>5. IsBoard(b)
  BY <1>1, <1>4 DEF IsBoard
<1>6. new = [j \in DOMAIN ss |-> IF j = i THEN b ELSE ss[j]]
  BY DEF SourcesOK
<1> HIDE DEF new, b
<1>7. DOMAIN new = DOMAIN ss /\ \A j \in DOMAIN ss : new[j] = IF j = i THEN b ELSE ss[j]
  BY <1>6
<1>8. new = [j \in DOMAIN new |-> new[j]]
  BY <1>6, <1>7
<1> QED
  BY <1>5, <1>7, <1>8 DEF SourcesOK, new

(***************************************************************************)
(* What a mutation of the target does.                                     *)
(***************************************************************************)

LEMMA BeginMakes ==
    ASSUME Types, Begin
    PROVE  /\ writer = NoWriter /\ IsWriter(writer') /\ writer'.step = "task"
           /\ writer'.event.prev = Latest(Told(writer'.id))
           /\ writer'.ledger = Appended(Told(writer'.id), writer'.event)
           /\ tasks["target"] # Missing /\ writes' \in Nat
<1>1. /\ IsBoard(tasks["target"]) /\ tasks["target"] # Missing
      /\ ledger["target"] = Missing \/ IsLedgers(ledger["target"])
  BY DEF Types, TasksOK, LedgersOK, Place, Begin
<1>2. PICK id \in DOMAIN tasks["target"], op \in {"update", "archive"} :
         LET before == tasks["target"][id]
             after == IF op = "update" THEN [before EXCEPT !.at = Now] ELSE Gone
         IN  writer' = [id |-> id, event |-> Prepare(Told(id), op, before, after),
                        ledger |-> Appended(Told(id), Prepare(Told(id), op, before, after)),
                        step |-> "task"]
  BY DEF Begin, Told
<1> DEFINE before == tasks["target"][id]
           after == IF op = "update" THEN [before EXCEPT !.at = Now] ELSE Gone
           e == Prepare(Told(id), op, before, after)
<1>3. id \in Id /\ before \in Task
  BY <1>1 DEF IsBoard
<1>4. Now \in Nat /\ writes' \in Nat
  <2>1. writes \in Nat /\ writes' = writes + 1
    BY DEF Types, Begin
  <2> QED
    BY <2>1 DEF Now
<1>5. before \in State /\ after \in State
  BY <1>3, <1>4, Dated DEF State
<1>6. Told(id) \in History
  BY <1>1, LedgerTyped DEF Told
<1> HIDE DEF before, after
<1>7. e \in Event /\ e.prev = Latest(Told(id))
  <2>1. op \in {"create", "merge", "update", "archive", "delete"}
    OBVIOUS
  <2> QED
    BY <1>5, <1>6, <2>1, EventPrepared
<1>8. Appended(Told(id), e) \in History
  BY <1>6, <1>7, EventAppended
<1>9. writer' = [id |-> id, event |-> e, ledger |-> Appended(Told(id), e), step |-> "task"]
  BY <1>2 DEF before, after
<1> HIDE DEF e
<1>10. /\ writer'.id = id /\ writer'.event = e /\ writer'.ledger = Appended(Told(id), e)
       /\ writer'.step = "task" /\ IsWriter(writer')
  BY <1>3, <1>7, <1>8, <1>9 DEF IsWriter
<1> QED
  BY <1>1, <1>4, <1>7, <1>10 DEF Begin

LEMMA WriteTaskMakes ==
    ASSUME Types, WriteTask
    PROVE  /\ TasksOK(tasks')
           /\ tasks'["staged"] = tasks["staged"] /\ tasks'["backup"] = tasks["backup"]
           /\ \A i : At(Files(tasks'["target"]), i) =
                        IF i = writer.id THEN writer.event.after ELSE Stands(i)
           /\ tasks["target"] # Missing => tasks'["target"] # Missing
           /\ writer # NoWriter /\ writer.step = "task" /\ IsWriter(writer')
           /\ writer'.id = writer.id /\ writer'.event = writer.event
           /\ writer'.ledger = writer.ledger /\ writer'.step = "ledger"
<1>1. /\ TasksOK(tasks) /\ Shaped(tasks) /\ IsWriter(writer)
      /\ tasks["target"] = Missing \/ IsBoard(tasks["target"])
  BY DEF Types, TasksOK, Place, WriteTask
<1> DEFINE dir == tasks["target"]
           others == Without(Files(dir), writer.id)
           new == IF writer.event.after = Gone
                  THEN (IF dir = Missing THEN Missing ELSE others)
                  ELSE Over([id \in {writer.id} |-> writer.event.after], others)
<1>2. tasks' = Target(tasks, new)
  BY DEF WriteTask, Target
<1>3. IsBoard(Files(dir))
  BY <1>1, FilesOfTasks
<1>4. /\ IsBoard(others)
      /\ \A i : At(others, i) = IF i = writer.id THEN Gone ELSE At(Files(dir), i)
  BY <1>3, WithoutBoard
<1>5. writer.id \in Id /\ writer.event.after \in State
  BY <1>1 DEF IsWriter, Event
<1> HIDE DEF others, dir
<1>6. /\ new = Missing \/ IsBoard(new)
      /\ dir # Missing => new # Missing
      /\ \A i : At(Files(new), i) = IF i = writer.id THEN writer.event.after ELSE At(Files(dir), i)
  <2>1. CASE writer.event.after = Gone /\ dir = Missing
    <3>1. \A i : At(Files(dir), i) = Gone
      BY <2>1, NothingThere DEF At
    <3> QED
      BY <2>1, <3>1
  <2>2. CASE writer.event.after = Gone /\ dir # Missing
    <3>1. others # Missing /\ Files(others) = others
      BY <1>4, Present DEF IsBoard
    <3> QED
      BY <1>4, <2>2, <3>1
  <2>3. CASE writer.event.after # Gone
    <3> DEFINE file == [id \in {writer.id} |-> writer.event.after]
    <3>1. DOMAIN file = {writer.id} /\ file[writer.id] = writer.event.after
      OBVIOUS
    <3>2. file \in [DOMAIN file -> Task] /\ IsFiniteSet(DOMAIN file)
      BY <1>5, <2>3, FS_Singleton DEF State
    <3> HIDE DEF file
    <3>3. IsBoard(file)
      BY <1>5, <3>1, <3>2 DEF IsBoard
    <3>4. IsBoard(Over(file, others))
      BY <1>4, <3>3, OverBoard
    <3>5. Over(file, others) # Missing /\ Files(Over(file, others)) = Over(file, others)
      BY <3>4, Present DEF IsBoard
    <3>6. \A i : At(Over(file, others), i) = IF i \in DOMAIN file THEN file[i] ELSE At(others, i)
      BY DEF Over, At
    <3>7. new = Over(file, others)
      BY <2>3 DEF file
    <3> QED
      BY <1>4, <3>1, <3>4, <3>5, <3>6, <3>7
  <2> QED
    BY <2>1, <2>2, <2>3
<1> HIDE DEF new
<1>7. /\ Shaped(tasks') /\ tasks'["target"] = new
      /\ tasks'["staged"] = tasks["staged"] /\ tasks'["backup"] = tasks["backup"]
  BY <1>1, <1>2, TargetMakes
<1>8. TasksOK(tasks')
  BY <1>1, <1>6, <1>7, PlacesOK
<1>9. \A i : At(Files(tasks'["target"]), i) = IF i = writer.id THEN writer.event.after ELSE Stands(i)
  BY <1>6, <1>7 DEF Stands, dir
<1>10. writer # NoWriter /\ writer.step = "task" /\ writer' = [writer EXCEPT !.step = "ledger"]
  BY DEF WriteTask
<1>11. ASSUME NEW u, u = [writer EXCEPT !.step = "ledger"]
       PROVE  u = [id |-> writer.id, event |-> writer.event, ledger |-> writer.ledger, step |-> "ledger"]
  BY <1>1, <1>11, Zenon DEF IsWriter
<1>12. writer' = [id |-> writer.id, event |-> writer.event, ledger |-> writer.ledger, step |-> "ledger"]
  BY <1>10, <1>11
<1>13. /\ IsWriter(writer') /\ writer'.id = writer.id /\ writer'.event = writer.event
       /\ writer'.ledger = writer.ledger /\ writer'.step = "ledger"
  BY <1>1, <1>12 DEF IsWriter
<1>14. dir # Missing => tasks'["target"] # Missing
  BY <1>6, <1>7
<1> QED
  BY <1>7, <1>8, <1>9, <1>10, <1>13, <1>14 DEF dir

LEMMA WriteLedgerMakes ==
    ASSUME Types, WriteLedger
    PROVE  /\ LedgersOK(ledger') /\ ledger'["target"] # Missing
           /\ ledger'["staged"] = ledger["staged"] /\ ledger'["backup"] = ledger["backup"]
           /\ \A i : LedgerOf(ledger'["target"], i) = IF i = writer.id THEN writer.ledger ELSE Told(i)
           /\ writer # NoWriter /\ writer.step = "ledger" /\ IsWriter(writer) /\ writer' = NoWriter
           /\ \A w \in acked' : w \in acked \/ w = [id |-> writer.id, event |-> writer.event]
           /\ \A w \in acked' : w.id \in Id
<1>1. /\ LedgersOK(ledger) /\ Shaped(ledger) /\ IsWriter(writer)
      /\ ledger["target"] = Missing \/ IsLedgers(ledger["target"])
  BY DEF Types, LedgersOK, Place, WriteLedger
<1> DEFINE dir == ledger["target"]
           file == [id \in {writer.id} |-> writer.ledger]
           new == Over(file, Files(dir))
<1>2. ledger' = Target(ledger, new)
  BY DEF WriteLedger, Target
<1>3. IsLedgers(Files(dir)) /\ DOMAIN Files(dir) \subseteq Id
  BY <1>1, FilesOfLedgers
<1>4. DOMAIN file = {writer.id} /\ file[writer.id] = writer.ledger
  OBVIOUS
<1>5. writer.id \in Id /\ writer.ledger \in History /\ writer.event \in Event
  BY <1>1 DEF IsWriter
<1>6. file \in [DOMAIN file -> History]
  BY <1>5
<1> HIDE DEF file, dir
<1>7. IsLedgers(file) /\ DOMAIN file \subseteq Id
  BY <1>4, <1>5, <1>6 DEF IsLedgers
<1>8. IsLedgers(new)
  BY <1>3, <1>7, OverLedgers
<1>9. new # Missing
  BY <1>8, Present DEF IsLedgers
<1>10. \A i : LedgerOf(new, i) = IF i = writer.id THEN writer.ledger ELSE LedgerOf(dir, i)
  <2>1. \A i : LedgerOf(new, i) = IF i \in DOMAIN file THEN file[i] ELSE LedgerOf(Files(dir), i)
    BY <1>3, <1>7, OverLedgerOf
  <2>2. \A i : LedgerOf(Files(dir), i) = LedgerOf(dir, i)
    BY <1>1, LedgerTyped DEF dir
  <2> QED
    BY <1>4, <2>1, <2>2
<1> HIDE DEF new
<1>11. /\ Shaped(ledger') /\ ledger'["target"] = new
       /\ ledger'["staged"] = ledger["staged"] /\ ledger'["backup"] = ledger["backup"]
  BY <1>1, <1>2, TargetMakes
<1>12. LedgersOK(ledger')
  BY <1>1, <1>8, <1>11, PlacesOK
<1>13. writer # NoWriter /\ writer.step = "ledger" /\ writer' = NoWriter
  BY DEF WriteLedger
<1>14. \A w \in acked' : w \in acked \/ w = [id |-> writer.id, event |-> writer.event]
  BY DEF WriteLedger
<1>15. ASSUME NEW w \in acked' PROVE w.id \in Id
  <2>1. CASE w \in acked
    BY <2>1 DEF Types
  <2>2. CASE w = [id |-> writer.id, event |-> writer.event]
    BY <1>5, <2>2
  <2> QED
    BY <1>14, <2>1, <2>2
<1> QED
  BY <1>1, <1>9, <1>10, <1>11, <1>12, <1>13, <1>14, <1>15 DEF Told, dir

LEMMA MutationTyped ==
    ASSUME Types, EditSource \/ Begin \/ WriteTask \/ WriteLedger
    PROVE  Types'
<1>1. CASE EditSource
  <2>1. Now \in Nat /\ writes' \in Nat
    <3>1. writes \in Nat /\ writes' = writes + 1
      BY <1>1 DEF Types, EditSource
    <3> QED
      BY <3>1 DEF Now
  <2>2. PICK i \in DOMAIN sources : \E id \in DOMAIN sources[i] :
           sources' = [sources EXCEPT ![i][id].at = Now]
    BY <1>1 DEF EditSource
  <2>3. PICK id \in DOMAIN sources[i] : sources' = [sources EXCEPT ![i][id].at = Now]
    BY <2>2
  <2> HIDE DEF Now
  <2>4. SourcesOK([sources EXCEPT ![i][id].at = Now])
    BY <2>1, SourceEdited DEF Types
  <2>5. SourcesOK(sources')
    BY <2>3, <2>4
  <2> QED
    BY <1>1, <2>1, <2>5 DEF Types, EditSource, board, ghosts
<1>2. CASE Begin
  BY <1>2, BeginMakes DEF Types, Begin, board
<1>3. CASE WriteTask
  BY <1>3, WriteTaskMakes DEF Types, WriteTask
<1>4. CASE WriteLedger
  BY <1>4, WriteLedgerMakes DEF Types, WriteLedger
<1> QED
  BY <1>1, <1>2, <1>3, <1>4

LEMMA TypesKept ==
    ASSUME Types, [Next]_vars
    PROVE  Types'
<1>1. CASE UNCHANGED vars
  BY <1>1 DEF Types, vars, board, ghosts
<1>2. CASE Next
  BY <1>2, PlanningTyped, ApplyingTyped, CopyingTyped, StagingTyped, ReplacingTyped, EndingTyped,
     MutationTyped DEF Next, Strategy
<1> QED
  BY <1>1, <1>2

(***************************************************************************)
(* The initial states.                                                     *)
(***************************************************************************)

LEMMA NoHistory ==
    /\ <<>> \in History /\ Chained(<<>>) /\ Latest(<<>>).after = Gone
    /\ Latest(<<>>) = [n |-> 0, after |-> Gone]
<1>1. <<>> \in History /\ Len(<<>>) = 0 /\ DOMAIN <<>> = {}
  BY DEF History
<1> QED
  BY <1>1 DEF Chained, Latest

\* The directories to begin with.
LEMMA FirstPlaces ==
    ASSUME NEW d, NEW v, d = [p \in Place |-> IF p = "target" THEN v ELSE Missing]
    PROVE  Shaped(d) /\ d["target"] = v /\ d["staged"] = Missing /\ d["backup"] = Missing
<1>1. /\ d["target"] = v /\ d["staged"] = Missing /\ d["backup"] = Missing
      /\ DOMAIN d = {"target", "staged", "backup"}
  BY DEF Place
<1>2. d = [target |-> v, staged |-> Missing, backup |-> Missing]
  BY <1>1 DEF Place
<1> QED
  BY <1>1, <1>2 DEF Shaped

LEMMA FirstHistories ==
    ASSUME NEW t \in Task
    PROVE  LET made == Appended(<<>>, Prepare(<<>>, "create", Gone, t))
               gone == Appended(made, Prepare(made, "delete", t, Gone))
           IN  /\ made \in History /\ Chained(made) /\ Latest(made).after = t
               /\ gone \in History /\ Chained(gone) /\ Latest(gone).after = Gone
<1> DEFINE e == Prepare(<<>>, "create", Gone, t)
           made == Appended(<<>>, e)
           g == Prepare(made, "delete", t, Gone)
           gone == Appended(made, g)
<1>1. Gone \in State /\ t \in State
  BY DEF State
<1>2. e \in Event /\ e.after = t /\ e.prev = Latest(<<>>)
  BY <1>1, NoHistory, EventPrepared
<1> HIDE DEF e
<1>3. made \in History /\ Chained(made) /\ Latest(made).after = t
  <2>1. /\ Latest(made) = [n |-> Len(<<>>) + 1, after |-> e.after]
        /\ made \in History /\ Chained(made)
    BY <1>2, NoHistory, EventAppended
  <2> QED
    BY <1>2, <2>1
<1> HIDE DEF made
<1>4. g \in Event /\ g.after = Gone /\ g.prev = Latest(made)
  BY <1>1, <1>3, EventPrepared
<1> HIDE DEF g
<1>5. gone \in History /\ Chained(gone) /\ Latest(gone).after = Gone
  <2>1. /\ Latest(gone) = [n |-> Len(made) + 1, after |-> g.after]
        /\ gone \in History /\ Chained(gone)
    BY <1>3, <1>4, EventAppended
  <2> QED
    BY <1>4, <2>1
<1> QED
  BY <1>3, <1>5 DEF e, made, g, gone

LEMMA InitInv ==
    ASSUME Init
    PROVE  IInv
<1>1. SourcesOK(sources) /\ IsBoard(Combined(sources))
  <2>1. /\ sources \in Seq({sources[i] : i \in DOMAIN sources})
        /\ \A i \in DOMAIN sources : IsBoard(sources[i])
    BY BoardsAssumption DEF Init
  <2>2. Len(sources) \in Nat /\ DOMAIN sources = 1..Len(sources)
    BY <2>1
  <2>3. sources = [i \in DOMAIN sources |-> sources[i]]
    BY <2>1, <2>2
  <2>4. IsFiniteSet(DOMAIN sources)
    BY <2>2, FS_Interval
  <2>5. SourcesOK(sources)
    BY <2>1, <2>2, <2>3, <2>4 DEF SourcesOK
  <2> QED
    BY <2>5, CombinedBoard
<1>2. PICK b \in Targets, deleted \in BOOLEAN :
         LET Made1(id) == Appended(<<>>, Prepare(<<>>, "create", Gone, b[id]))
             Lost(id) == Appended(<<>>, Prepare(<<>>, "create", Gone, Combined(sources)[id]))
             Old(id) == Appended(Lost(id), Prepare(Lost(id), "delete", Combined(sources)[id], Gone))
             old == IF deleted THEN DOMAIN Combined(sources) \ DOMAIN b ELSE {}
         IN  /\ tasks = [p \in Place |-> IF p = "target" /\ (b # NoTasks \/ deleted) THEN b ELSE Missing]
             /\ ledger = [p \in Place |->
                   IF p = "target" /\ (b # NoTasks \/ deleted)
                   THEN [id \in DOMAIN b \cup old |-> IF id \in DOMAIN b THEN Made1(id) ELSE Old(id)]
                   ELSE Missing]
  BY DEF Init
<1> DEFINE src == Combined(sources)
           Lost(id) == Appended(<<>>, Prepare(<<>>, "create", Gone, src[id]))
           Old(id) == Appended(Lost(id), Prepare(Lost(id), "delete", src[id], Gone))
           Mine(id) == Appended(<<>>, Prepare(<<>>, "create", Gone, b[id]))
           old == IF deleted THEN DOMAIN src \ DOMAIN b ELSE {}
           there == b # NoTasks \/ deleted
           told == [id \in DOMAIN b \cup old |-> IF id \in DOMAIN b THEN Mine(id) ELSE Old(id)]
<1>3. IsBoard(b)
  BY BoardsAssumption
<1>4. /\ tasks = [p \in Place |-> IF p = "target" THEN IF there THEN b ELSE Missing ELSE Missing]
      /\ ledger = [p \in Place |-> IF p = "target" THEN IF there THEN told ELSE Missing ELSE Missing]
  BY <1>2
<1>5. \A id \in DOMAIN b \cup old : Gone \notin DOMAIN told /\ id \in Id
  BY <1>1, <1>3, GoneAssumption DEF IsBoard
<1>6. \A id \in DOMAIN b :
         Mine(id) \in History /\ Chained(Mine(id)) /\ Latest(Mine(id)).after = b[id]
  BY <1>3, StateTyped, FirstHistories
<1>7. \A id \in old : Old(id) \in History /\ Chained(Old(id)) /\ Latest(Old(id)).after = Gone
  BY <1>1, StateTyped, FirstHistories
<1> HIDE DEF Mine, Old, old, src
<1>8. \A id \in DOMAIN b \cup old :
         /\ told[id] \in History /\ Chained(told[id])
         /\ Latest(told[id]).after = IF id \in DOMAIN b THEN b[id] ELSE Gone
  BY <1>6, <1>7
<1>9. told \in [DOMAIN b \cup old -> History] /\ DOMAIN told = DOMAIN b \cup old
  BY <1>8
<1> HIDE DEF told
<1>10. IsLedgers(told)
  BY <1>5, <1>9 DEF IsLedgers
<1> HIDE DEF there
<1>11. /\ Shaped(tasks) /\ tasks["target"] = IF there THEN b ELSE Missing
       /\ tasks["staged"] = Missing /\ tasks["backup"] = Missing
       /\ Shaped(ledger) /\ ledger["target"] = IF there THEN told ELSE Missing
       /\ ledger["staged"] = Missing /\ ledger["backup"] = Missing
  BY <1>4, FirstPlaces
<1>12. TasksOK(tasks) /\ LedgersOK(ledger)
  BY <1>3, <1>10, <1>11, PlacesOK
<1>13. IsRun(run)
  BY DEF Init, NoRun, IsRun
<1>14. Types
  BY <1>1, <1>12, <1>13 DEF Init, Types
<1>15. ASSUME NEW id \in Id
       PROVE  Chained(Told(id)) /\ Latest(Told(id)).after = Stands(id)
  <2>1. CASE there
    <3>1. Files(tasks["target"]) = b /\ Files(ledger["target"]) = told /\ ledger["target"] = told
      BY <1>3, <1>10, <1>11, <2>1, Present DEF IsBoard, IsLedgers
    <3> QED
      BY <1>8, <1>9, <3>1, NoHistory DEF Told, Stands, LedgerOf, At
  <2>2. CASE ~there
    BY <1>11, <2>2, NothingThere, NoHistory DEF Told, Stands, LedgerOf, At
  <2> QED
    BY <2>1, <2>2
<1>16. PlanFaithful /\ MergeInv
  BY <1>11 DEF Init, PlanFaithful, MergeInv, Replaces, Replacing, Restoring, Looking, WriterCurrent
<1>17. BoardInv
  BY <1>15 DEF Init, BoardInv, Replaces, Replacing, Restoring
<1> QED
  BY <1>14, <1>16, <1>17 DEF IInv

(***************************************************************************)
(* A merge until its last look at the target.                              *)
(***************************************************************************)

\* A plan that can be derived again names the tasks and the heads of the target.
LEMMA FreshMeans ==
    ASSUME Fresh
    PROVE  /\ plan.identity.tasks = Files(tasks["target"])
           /\ \A id \in DOMAIN plan.identity.tasks : Latest(Told(id)) = plan.identity.heads[id]
<1>1. plan.identity = Identity
  BY DEF Fresh, Planned
<1> QED
  BY <1>1 DEF Identity, Told

LEMMA TargetTyped ==
    ASSUME Types
    PROVE  /\ Shaped(tasks) /\ Shaped(ledger)
           /\ tasks["target"] = Missing \/ IsBoard(tasks["target"])
           /\ ledger["target"] = Missing \/ IsLedgers(ledger["target"])
           /\ \A id : Told(id) \in History
<1>1. /\ Shaped(tasks) /\ Shaped(ledger)
      /\ tasks["target"] = Missing \/ IsBoard(tasks["target"])
      /\ ledger["target"] = Missing \/ IsLedgers(ledger["target"])
  BY DEF Types, TasksOK, LedgersOK, Place
<1> QED
  BY <1>1, LedgerTyped DEF Told

LEMMA PlanningKeeps ==
    ASSUME IInv, NEW strategy \in Strategy, MakePlan(strategy)
    PROVE  MergeInv'
  BY DEF IInv, MergeInv, MakePlan, board, ghosts, Replaces, Replacing, Restoring, Looking,
         WriterCurrent, Told, Stands

LEMMA ApplyingKeeps ==
    ASSUME IInv, Apply
    PROVE  MergeInv'
<1>1. /\ pc = "idle" /\ pc' = "copy tasks" /\ Fresh
      /\ UNCHANGED <<sources, tasks, ledger, plan, writer, raced>>
  BY DEF Apply, Goto, board, ghosts
<1>2. run'.end = "none" /\ run'.before = <<>> /\ ~run'.putTasks /\ ~run'.putLedger
  BY DEF Apply, NoRun
<1>3. Early'
  BY <1>1, <1>2 DEF IInv, MergeInv, Early
<1>4. ~raced => WriterCurrent'
  BY <1>1, <1>2 DEF IInv, MergeInv, WriterCurrent, Told, Stands
<1>5. \A id \in DOMAIN plan.identity.tasks : Latest(Told(id)) = plan.identity.heads[id]
  BY <1>1, FreshMeans
<1>6. \A id \in Id : Stands(id) = At(plan.identity.tasks, id)
  BY <1>1, FreshMeans DEF Stands
<1>7. Copied'
  BY <1>1, <1>5, <1>6 DEF Copied, Told, Stands
<1> QED
  BY <1>1, <1>2, <1>3, <1>4, <1>7 DEF MergeInv, Replaces, Replacing, Restoring

LEMMA CopyingTasksKeeps ==
    ASSUME IInv, CopyTasks
    PROVE  MergeInv'
<1>1. /\ pc = "copy tasks" /\ pc' = "copy ledger"
      /\ tasks' = StageAs(tasks, Files(tasks["target"]))
      /\ UNCHANGED <<sources, ledger, plan, run, writer, raced>>
  BY DEF CopyTasks, StageAs, Goto, ghosts
<1>2. /\ tasks'["target"] = tasks["target"] /\ tasks'["backup"] = tasks["backup"]
      /\ tasks'["staged"] = Files(tasks["target"])
  BY <1>1, TargetTyped, StageAsMakes DEF IInv
<1>3. ~Replaces /\ ~Replaces' /\ Early /\ Early' /\ run.end = "none"
  BY <1>1, <1>2 DEF IInv, MergeInv, Early, Replaces, Replacing, Restoring
<1>4. ~raced => WriterCurrent'
  BY <1>1, <1>2 DEF IInv, MergeInv, WriterCurrent, Told, Stands, Replacing, Restoring
<1>5. Outrun => Outrun'
  BY <1>1 DEF Outrun, Told
<1>6. ASSUME Copied PROVE Copied'
  <2>1. \A id : Stands(id) = At(tasks'["staged"], id) /\ Pending(id)' = Pending(id)
    BY <1>1, <1>2 DEF Stands, Pending
  <2> QED
    BY <1>1, <1>6, <2>1 DEF Copied, Told
<1> QED
  BY <1>1, <1>3, <1>4, <1>5, <1>6 DEF IInv, MergeInv, Looking, Replacing, Restoring

LEMMA CopyingLedgerKeeps ==
    ASSUME IInv, CopyLedger
    PROVE  MergeInv'
<1>1. /\ pc = "copy ledger" /\ pc' = "stage"
      /\ ledger' = StageAs(ledger, Files(ledger["target"]))
      /\ run' = NoteHad(run, tasks["target"] # Missing, ledger["target"] # Missing)
      /\ UNCHANGED <<sources, tasks, plan, writer, raced>>
  BY DEF CopyLedger, StageAs, NoteHad, Goto, ghosts
<1>2. /\ ledger'["target"] = ledger["target"] /\ ledger'["backup"] = ledger["backup"]
      /\ ledger'["staged"] = Files(ledger["target"])
  BY <1>1, TargetTyped, StageAsMakes DEF IInv
<1>3. /\ run'.end = run.end /\ run'.putTasks = run.putTasks /\ run'.putLedger = run.putLedger
      /\ run'.before = run.before /\ run'.hadTasks = (tasks["target"] # Missing)
      /\ run'.hadLedger = (ledger["target"] # Missing)
  <2> DEFINE a == tasks["target"] # Missing
             b == ledger["target"] # Missing
  <2>1. IsRun(run) /\ run' = NoteHad(run, a, b)
    BY <1>1 DEF IInv, Types
  <2> HIDE DEF a, b
  <2>2. /\ run'.end = run.end /\ run'.putTasks = run.putTasks /\ run'.putLedger = run.putLedger
        /\ run'.before = run.before /\ run'.hadTasks = a /\ run'.hadLedger = b
    BY <2>1, NoteHadMakes
  <2> QED
    BY <2>2 DEF a, b
<1>4. ~Replaces /\ ~Replaces' /\ Early /\ Early' /\ run.end = "none"
  BY <1>1, <1>2, <1>3 DEF IInv, MergeInv, Early, Replaces, Replacing, Restoring
<1>5. ~raced => WriterCurrent'
  BY <1>1, <1>2 DEF IInv, MergeInv, WriterCurrent, Told, Stands, Replacing, Restoring
<1>6. Outrun => Outrun'
  BY <1>1, <1>2 DEF Outrun, Told
<1>7. ASSUME Copied PROVE Copied'
  BY <1>1, <1>2, <1>3, <1>7 DEF Copied, Told, Pending
<1> QED
  BY <1>1, <1>3, <1>4, <1>5, <1>6, <1>7 DEF IInv, MergeInv, Looking, Replacing, Restoring

LEMMA StagingKeeps ==
    ASSUME IInv, Stage
    PROVE  MergeInv'
<1>1. /\ pc = "stage" /\ pc' = "check" /\ Stageable
      /\ UNCHANGED <<sources, plan, writer, raced>>
  BY DEF Stage, Goto, ghosts
<1>2. /\ tasks'["target"] = tasks["target"] /\ ledger'["target"] = ledger["target"]
      /\ tasks'["backup"] = tasks["backup"] /\ ledger'["backup"] = ledger["backup"]
      /\ tasks'["staged"] = Over(Made, tasks["staged"])
      /\ ledger'["staged"] = Over(Grown(ledger["staged"]), ledger["staged"])
      /\ run'.staged = <<Made, Grown(ledger["staged"])>>
      /\ run'.hadTasks = run.hadTasks /\ run'.hadLedger = run.hadLedger
      /\ run'.putTasks = run.putTasks /\ run'.putLedger = run.putLedger
      /\ run'.before = run.before /\ run'.end = run.end
  BY StagingMakes DEF IInv
<1>3. ~Replaces /\ ~Replaces' /\ Early /\ Early' /\ run.end = "none"
  BY <1>1, <1>2 DEF IInv, MergeInv, Early, Replaces, Replacing, Restoring
<1>4. ~raced => WriterCurrent'
  BY <1>1, <1>2 DEF IInv, MergeInv, WriterCurrent, Told, Stands, Replacing, Restoring
<1>5. Outrun => Outrun'
  BY <1>1, <1>2 DEF Outrun, Told
<1>6. ASSUME Copied PROVE Copied'
  <2>1. /\ plan # NoPlan /\ IsPlan(plan) /\ ledger["staged"] = Files(ledger["target"])
        /\ ledger["target"] = Missing \/ IsLedgers(ledger["target"])
    BY <1>1, <1>6, TargetTyped DEF IInv, Types, Copied
  <2>2. \A id : LedgerOf(ledger["staged"], id) = Told(id)
    BY <2>1, LedgerTyped DEF Told
  <2>3. Grown(ledger["staged"]) = Grown(ledger["target"])
    BY <2>2 DEF Grown, Told
  <2>4. ASSUME NEW id \in Id PROVE At(tasks'["staged"], id) = At(plan.final, id) \/ Pending(id)
    <3>1. At(tasks["staged"], id) = At(plan.identity.tasks, id) \/ Pending(id)
      BY <1>1, <1>6 DEF Copied
    <3>2. /\ At(tasks'["staged"], id) = IF id \in DOMAIN Made THEN Made[id] ELSE At(tasks["staged"], id)
          /\ At(plan.final, id) = IF id \in DOMAIN Made THEN Made[id] ELSE At(plan.identity.tasks, id)
      <4>1. plan.final = Over(Made, plan.identity.tasks)
        BY <2>1, MadeTyped
      <4> QED
        BY <1>2, <4>1 DEF Over, At
    <3> QED
      BY <3>1, <3>2
  <2>5. ASSUME NEW id \in DOMAIN plan.events PROVE plan.events[id].prev = Latest(Told(id))
    BY <1>1, <2>2 DEF Stageable, Appendable, StaleTip
  <2>6. /\ Grown(ledger["target"])' = Grown(ledger["target"]) /\ Made' = Made
        /\ \A id : Told(id)' = Told(id) /\ Pending(id)' = Pending(id)
    BY <1>1, <1>2 DEF Grown, Made, Told, Pending
  <2> QED
    BY <1>1, <1>2, <1>6, <2>1, <2>3, <2>4, <2>5, <2>6 DEF Copied
<1> QED
  BY <1>1, <1>2, <1>3, <1>4, <1>5, <1>6 DEF IInv, MergeInv, Looking, Replacing, Restoring

\* The last look: the copies are what is reviewed.
LEMMA CheckingKeeps ==
    ASSUME IInv, Check
    PROVE  MergeInv'
<1>1. /\ pc = "check" /\ pc' = "save tasks" /\ Fresh
      /\ run' = NoteBefore(run, <<tasks["target"], ledger["target"]>>)
      /\ raced' = (raced \/ writer # NoWriter)
      /\ UNCHANGED <<sources, tasks, ledger, plan, writer>>
  BY DEF Check, NoteBefore, Goto, board
<1>2. /\ run'.end = run.end /\ run'.hadTasks = run.hadTasks /\ run'.hadLedger = run.hadLedger
      /\ run'.putTasks = run.putTasks /\ run'.putLedger = run.putLedger
      /\ run'.staged = run.staged /\ run'.before = <<tasks["target"], ledger["target"]>>
  BY <1>1, NoteBeforeMakes DEF IInv, Types
<1>3. run'.before # <<>> /\ Replaces' /\ run.end = "none" /\ Early
  <2>1. run'.before # <<>>
    BY <1>2
  <2> QED
    BY <1>1, <2>1 DEF IInv, MergeInv, Replaces, Replacing, Restoring
<1>4. ASSUME ~raced' PROVE Late'
  <2>1. ~raced /\ writer = NoWriter
    BY <1>1, <1>4
  <2>2. plan # NoPlan /\ IsPlan(plan) /\ IsBoard(tasks["staged"])
    BY <1>1 DEF IInv, Types
  <2>3. ~Outrun
    <3>1. \A id \in DOMAIN plan.identity.tasks :
             Latest(Told(id)).n = plan.identity.heads[id].n /\ plan.identity.heads[id].n \in Nat
      BY <1>1, <2>2, FreshMeans DEF IsPlan
    <3> QED
      BY <3>1 DEF Outrun
  <2>4. Copied
    BY <1>1, <2>1, <2>3 DEF IInv, MergeInv, Looking
  <2>5. \A id \in Id : At(tasks["staged"], id) = At(plan.final, id)
    BY <1>1, <2>1, <2>4 DEF Copied, Pending
  <2>6. tasks["staged"] = plan.final
    BY <2>2, <2>5, SameBoard DEF IsPlan
  <2>7. run'.before[1] = tasks["target"] /\ run'.before[2] = ledger["target"]
    BY <1>2
  <2>8. Result' = Over(Grown(ledger["target"]), Files(ledger["target"]))
    BY <1>1, <2>7 DEF Result, Grown
  <2>9. Made' = Made /\ Grown(run.before[2])' = Grown(ledger["target"])
    BY <1>1, <2>7 DEF Made, Grown
  <2>10. /\ run.hadTasks = (tasks["target"] # Missing) /\ run.hadLedger = (ledger["target"] # Missing)
         /\ ledger["staged"] = Over(Grown(ledger["target"]), Files(ledger["target"]))
         /\ run.staged = <<Made, Grown(ledger["target"])>>
    BY <1>1, <2>4 DEF Copied
  <2>11. Files(tasks["target"]) = plan.identity.tasks
    BY <1>1, FreshMeans
  <2>12. /\ Moved(tasks', run'.putTasks, tasks["target"], plan.final)
         /\ Moved(ledger', run'.putLedger, ledger["target"], Result')
    BY <1>1, <1>2, <1>3 DEF Moved, Early
  <2>13. /\ tasks["target"] = Missing \/ IsBoard(tasks["target"])
         /\ ledger["target"] = Missing \/ IsLedgers(ledger["target"])
    BY TargetTyped DEF IInv
  <2>14. ~run.putTasks /\ ~run.putLedger
    BY <1>3 DEF Early
  <2> HIDE DEF IInv
  <2> QED
    BY <1>1, <1>2, <2>6, <2>7, <2>8, <2>9, <2>10, <2>11, <2>12, <2>13, <2>14 DEF Late
<1>5. ~raced' => WriterCurrent'
  BY <1>1 DEF WriterCurrent
<1> QED
  BY <1>1, <1>2, <1>3, <1>4, <1>5 DEF MergeInv, Looking

(***************************************************************************)
(* A merge that replaces the directories, and what goes wrong.             *)
(***************************************************************************)

\* The boards that a merge knows do not change.
Known == <<plan, run.before, run.hadTasks, run.hadLedger, run.staged>>

LEMMA KnownStays ==
    ASSUME UNCHANGED Known
    PROVE  /\ run'.before = run.before /\ plan' = plan /\ run'.staged = run.staged
           /\ run'.hadTasks = run.hadTasks /\ run'.hadLedger = run.hadLedger
           /\ Result' = Result /\ Made' = Made /\ Grown(run.before[2])' = Grown(run.before[2])
  BY DEF Known, Result, Made, Grown

\* No mutation is under way there, or a merge raced with it.
LEMMA Alone ==
    ASSUME IInv, ~raced, Replaces
    PROVE  writer = NoWriter /\ Late
  BY DEF IInv, MergeInv, WriterCurrent, Replaces

LEMMA SavingTasksKeeps ==
    ASSUME IInv, SaveTasks
    PROVE  MergeInv'
<1>1. /\ pc = "save tasks" /\ pc' = "put tasks"
      /\ tasks' = IF run.hadTasks THEN PutAway(tasks) ELSE tasks
      /\ UNCHANGED <<ledger, plan, run, writer, raced>>
  BY DEF SaveTasks, PutAway, Goto, ghosts
<1>2. /\ run.end = "none" /\ run.before # <<>> /\ Replaces /\ Replaces'
  BY <1>1 DEF IInv, MergeInv, Replaces, Replacing, Restoring
<1>3. ASSUME ~raced PROVE Late'
  <2>1. Late
    BY <1>2, <1>3, Alone
  <2>2. Shaped(tasks)
    BY DEF IInv, Types, TasksOK
  <2>3. /\ tasks'["staged"] = tasks["staged"] /\ tasks'["target"] = Missing
        /\ Moved(tasks', run.putTasks, run.before[1], plan.final)
    <3>1. tasks["target"] = run.before[1] /\ run.hadTasks = (run.before[1] # Missing) /\ ~run.putTasks
          /\ Moved(tasks, run.putTasks, run.before[1], plan.final)
      BY <1>1, <2>1 DEF Late
    <3>2. CASE run.hadTasks
      BY <1>1, <2>2, <3>1, <3>2, PutAwayMakes DEF Moved
    <3>3. CASE ~run.hadTasks
      BY <1>1, <3>1, <3>3
    <3> QED
      BY <3>2, <3>3
  <2>4. UNCHANGED Known
    BY <1>1 DEF Known
  <2> QED
    BY <1>1, <2>1, <2>3, <2>4, KnownStays DEF Late
<1>4. ~raced => WriterCurrent'
  BY <1>1, <1>2, Alone DEF WriterCurrent
<1> QED
  BY <1>1, <1>2, <1>3, <1>4 DEF MergeInv, Looking

LEMMA PuttingTasksKeeps ==
    ASSUME IInv, PutTasks
    PROVE  MergeInv'
<1>1. /\ pc = "put tasks" /\ pc' = "save ledger"
      /\ tasks' = PutInPlace(tasks) /\ run' = NotePutTasks(run, TRUE)
      /\ UNCHANGED <<ledger, plan, writer, raced>>
  BY DEF PutTasks, PutInPlace, NotePutTasks, Goto, ghosts
<1>2. /\ run'.end = run.end /\ run'.hadTasks = run.hadTasks /\ run'.hadLedger = run.hadLedger
      /\ run'.putTasks = TRUE /\ run'.putLedger = run.putLedger
      /\ run'.staged = run.staged /\ run'.before = run.before
  BY <1>1, NotePutTasksMakes DEF IInv, Types
<1>3. /\ run.end = "none" /\ run.before # <<>> /\ Replaces /\ Replaces'
  BY <1>1, <1>2 DEF IInv, MergeInv, Replaces, Replacing, Restoring
<1>4. ASSUME ~raced PROVE Late'
  <2>1. Late
    BY <1>3, <1>4, Alone
  <2>2. Shaped(tasks)
    BY DEF IInv, Types, TasksOK
  <2>3. Moved(tasks', TRUE, run.before[1], plan.final)
    <3>1. /\ tasks'["target"] = tasks["staged"] /\ tasks'["backup"] = tasks["backup"]
      BY <1>1, <2>2, PutInPlaceMakes
    <3>2. /\ tasks["target"] = Missing /\ ~run.putTasks /\ tasks["staged"] = plan.final
          /\ Moved(tasks, run.putTasks, run.before[1], plan.final)
      BY <1>1, <2>1 DEF Late
    <3> QED
      BY <3>1, <3>2 DEF Moved
  <2>4. UNCHANGED Known
    BY <1>1, <1>2 DEF Known
  <2> QED
    BY <1>1, <1>2, <2>1, <2>3, <2>4, KnownStays DEF Late
<1>5. ~raced => WriterCurrent'
  BY <1>1, <1>3, Alone DEF WriterCurrent
<1> QED
  BY <1>1, <1>2, <1>3, <1>4, <1>5 DEF MergeInv, Looking

LEMMA SavingLedgerKeeps ==
    ASSUME IInv, SaveLedger
    PROVE  MergeInv'
<1>1. /\ pc = "save ledger" /\ pc' = "put ledger"
      /\ ledger' = IF run.hadLedger THEN PutAway(ledger) ELSE ledger
      /\ UNCHANGED <<tasks, plan, run, writer, raced>>
  BY DEF SaveLedger, PutAway, Goto, ghosts
<1>2. /\ run.end = "none" /\ run.before # <<>> /\ Replaces /\ Replaces'
  BY <1>1 DEF IInv, MergeInv, Replaces, Replacing, Restoring
<1>3. ASSUME ~raced PROVE Late'
  <2>1. Late
    BY <1>2, <1>3, Alone
  <2>2. Shaped(ledger)
    BY DEF IInv, Types, LedgersOK
  <2>3. /\ ledger'["staged"] = ledger["staged"] /\ ledger'["target"] = Missing
        /\ Moved(ledger', run.putLedger, run.before[2], Result)
    <3>1. ledger["target"] = run.before[2] /\ run.hadLedger = (run.before[2] # Missing) /\ ~run.putLedger
          /\ Moved(ledger, run.putLedger, run.before[2], Result)
      BY <1>1, <2>1 DEF Late
    <3>2. CASE run.hadLedger
      BY <1>1, <2>2, <3>1, <3>2, PutAwayMakes DEF Moved
    <3>3. CASE ~run.hadLedger
      BY <1>1, <3>1, <3>3
    <3> QED
      BY <3>2, <3>3
  <2>4. UNCHANGED Known
    BY <1>1 DEF Known
  <2> QED
    BY <1>1, <2>1, <2>3, <2>4, KnownStays DEF Late
<1>4. ~raced => WriterCurrent'
  BY <1>1, <1>2, Alone DEF WriterCurrent
<1> QED
  BY <1>1, <1>2, <1>3, <1>4 DEF MergeInv, Looking

LEMMA PuttingLedgerKeeps ==
    ASSUME IInv, PutLedger
    PROVE  MergeInv'
<1>1. /\ pc = "put ledger" /\ pc' = "receipt"
      /\ ledger' = PutInPlace(ledger) /\ run' = NotePutLedger(run, TRUE)
      /\ UNCHANGED <<tasks, plan, writer, raced>>
  BY DEF PutLedger, PutInPlace, NotePutLedger, Goto, ghosts
<1>2. /\ run'.end = run.end /\ run'.hadTasks = run.hadTasks /\ run'.hadLedger = run.hadLedger
      /\ run'.putTasks = run.putTasks /\ run'.putLedger = TRUE
      /\ run'.staged = run.staged /\ run'.before = run.before
  BY <1>1, NotePutLedgerMakes DEF IInv, Types
<1>3. /\ run.end = "none" /\ run.before # <<>> /\ Replaces /\ Replaces'
  BY <1>1, <1>2 DEF IInv, MergeInv, Replaces, Replacing, Restoring
<1>4. ASSUME ~raced PROVE Late'
  <2>1. Late
    BY <1>3, <1>4, Alone
  <2>2. Shaped(ledger)
    BY DEF IInv, Types, LedgersOK
  <2>3. Moved(ledger', TRUE, run.before[2], Result)
    <3>1. /\ ledger'["target"] = ledger["staged"] /\ ledger'["backup"] = ledger["backup"]
      BY <1>1, <2>2, PutInPlaceMakes
    <3>2. /\ ledger["target"] = Missing /\ ~run.putLedger /\ ledger["staged"] = Result
          /\ Moved(ledger, run.putLedger, run.before[2], Result)
      BY <1>1, <2>1 DEF Late
    <3> QED
      BY <3>1, <3>2 DEF Moved
  <2>4. UNCHANGED Known
    BY <1>1, <1>2 DEF Known
  <2> QED
    BY <1>1, <1>2, <2>1, <2>3, <2>4, KnownStays DEF Late
<1>5. ~raced => WriterCurrent'
  BY <1>1, <1>3, Alone DEF WriterCurrent
<1> QED
  BY <1>1, <1>2, <1>3, <1>4, <1>5 DEF MergeInv, Looking

LEMMA FailingKeeps ==
    ASSUME IInv, Fail
    PROVE  MergeInv'
<1>1. /\ pc \in Working /\ pc' = "restore ledger"
      /\ UNCHANGED <<tasks, ledger, plan, run, writer, raced>>
  BY DEF Fail, Refused, Working, Copying, Trying, Goto, board, ghosts
<1>2. run.end = "none" /\ (Replaces' <=> run.before # <<>>)
  BY <1>1 DEF IInv, MergeInv, Working, Copying, Trying, Replaces, Replacing, Restoring
<1>3. CASE pc \in Looking
  <2>1. Early /\ ~Replaces' /\ Early'
    BY <1>1, <1>2, <1>3 DEF IInv, MergeInv, Looking, Replaces, Replacing, Restoring, Early
  <2>2. ~raced => WriterCurrent'
    BY <1>1, <2>1 DEF IInv, MergeInv, WriterCurrent, Early, Told, Stands
  <2> QED
    BY <1>1, <1>2, <2>1, <2>2 DEF MergeInv, Looking, Replacing, Restoring
<1>4. CASE pc \notin Looking
  <2>1. Replaces /\ Replaces'
    BY <1>1, <1>2, <1>4 DEF IInv, MergeInv, Looking, Replaces, Replacing, Restoring, Working, Copying, Trying
  <2>2. ASSUME ~raced PROVE Late'
    <3>1. Late /\ pc # "restore tasks"
      BY <1>1, <2>1, <2>2, Alone DEF Working, Copying, Trying
    <3>2. UNCHANGED Known
      BY <1>1 DEF Known
    <3> QED
      BY <1>1, <3>1, <3>2, KnownStays DEF Late
  <2>3. ~raced => WriterCurrent'
    BY <1>1, <2>1, Alone DEF WriterCurrent
  <2> QED
    BY <1>1, <1>2, <2>1, <2>2, <2>3 DEF MergeInv, Looking, Replacing, Restoring
<1> QED
  BY <1>3, <1>4

\* What was moved goes back, and nothing is in its way.
LEMMA GoesBack ==
    ASSUME NEW d, Shaped(d), NEW put, NEW before, NEW after, Moved(d, put, before, after)
    PROVE  Clear(d, put) /\ Restored(d, put)["target"] = before /\ Restored(d, put)["backup"] = Missing
<1>1. /\ Restored(d, put)["backup"] = Missing
      /\ Restored(d, put)["target"] = IF d["backup"] = Missing THEN Left(d, put) ELSE d["backup"]
  BY RestoredMakes
<1> QED
  BY <1>1 DEF Moved, Left, Clear

\* Nothing was moved, nothing goes back.
LEMMA StaysThere ==
    ASSUME NEW d, Shaped(d), d["backup"] = Missing, NEW put, ~put
    PROVE  /\ Clear(d, put)
           /\ Restored(d, put)["target"] = d["target"] /\ Restored(d, put)["backup"] = Missing
<1>1. /\ Restored(d, put)["backup"] = Missing
      /\ Restored(d, put)["target"] = IF d["backup"] = Missing THEN Left(d, put) ELSE d["backup"]
  BY RestoredMakes
<1> QED
  BY <1>1 DEF Left, Clear

LEMMA RestoringLedgerKeeps ==
    ASSUME IInv, RestoreLedger
    PROVE  MergeInv'
<1>1. /\ pc = "restore ledger" /\ pc' = "restore tasks"
      /\ ledger' = Restored(ledger, run.putLedger)
      /\ UNCHANGED <<tasks, plan, run, writer, raced>>
  BY DEF RestoreLedger, Goto, ghosts
<1>2. Shaped(ledger) /\ run.end = "none"
  BY <1>1 DEF IInv, MergeInv, Types, LedgersOK
<1>3. CASE Replaces
  <2>1. Replaces'
    BY <1>1, <1>3 DEF Replaces, Replacing, Restoring
  <2>2. ASSUME ~raced PROVE Late'
    <3>1. Late
      BY <1>3, <2>2, Alone
    <3>2. Moved(ledger, run.putLedger, run.before[2], Result)
      BY <1>1, <3>1 DEF Late
    <3>3. Restored(ledger, run.putLedger)["target"] = run.before[2]
      BY <1>2, <3>2, GoesBack
    <3>4. UNCHANGED Known
      BY <1>1 DEF Known
    <3> QED
      BY <1>1, <3>1, <3>3, <3>4, KnownStays DEF Late
  <2>3. ~raced => WriterCurrent'
    BY <1>1, <1>3, Alone DEF WriterCurrent
  <2> QED
    BY <1>1, <1>2, <2>1, <2>2, <2>3 DEF MergeInv, Looking, Replacing, Restoring
<1>4. CASE ~Replaces
  <2>1. Early /\ ~Replaces'
    BY <1>1, <1>4 DEF IInv, MergeInv, Replaces, Replacing, Restoring
  <2>2. ledger'["target"] = ledger["target"] /\ ledger'["backup"] = Missing
    BY <1>1, <1>2, <2>1, StaysThere DEF Early
  <2>3. Early'
    BY <1>1, <2>1, <2>2 DEF Early
  <2>4. ~raced => WriterCurrent'
    BY <1>1, <2>1, <2>2 DEF IInv, MergeInv, WriterCurrent, Early, Told, Stands
  <2> QED
    BY <1>1, <1>2, <2>1, <2>3, <2>4 DEF MergeInv, Looking, Replacing, Restoring
<1> QED
  BY <1>3, <1>4

\* The end of a merge: nothing of it stays beside the board.
LEMMA EndingKeeps ==
    ASSUME IInv, Receipt \/ CopyFails \/ RestoreFails \/ Stop
    PROVE  /\ MergeInv' /\ pc' = "idle"
           /\ tasks'["target"] = tasks["target"] /\ ledger'["target"] = ledger["target"]
           /\ UNCHANGED <<plan, writer, acked, raced>>
<1>1. /\ pc' = "idle" /\ tasks' = Dropped(tasks) /\ ledger' = Dropped(ledger)
      /\ UNCHANGED <<plan, writer, acked, raced>>
  BY DEF Receipt, CopyFails, RestoreFails, Stop, Goto, ghosts
<1>2. /\ tasks'["target"] = tasks["target"] /\ ledger'["target"] = ledger["target"]
      /\ tasks'["backup"] = Missing /\ ledger'["backup"] = Missing
  BY <1>1, DroppedMakes DEF IInv, Types, TasksOK, LedgersOK
<1>3. ~raced => WriterCurrent'
  BY <1>1, <1>2 DEF IInv, MergeInv, WriterCurrent, Told, Stands, Replacing, Restoring
<1> QED
  BY <1>1, <1>2, <1>3 DEF MergeInv, Replaces, Looking, Replacing, Restoring

LEMMA RestoringTasksKeeps ==
    ASSUME IInv, RestoreTasks
    PROVE  /\ MergeInv' /\ pc = "restore tasks" /\ pc' = "idle" /\ ~Replaces'
           /\ ledger'["target"] = ledger["target"]
           /\ ~Replaces => tasks'["target"] = tasks["target"]
           /\ ~raced /\ Replaces =>
                 tasks'["target"] = run.before[1] /\ ledger'["target"] = run.before[2]
           /\ UNCHANGED <<plan, writer, acked, raced, hurt>>
<1>1. /\ pc = "restore tasks" /\ pc' = "idle" /\ ~Replaces'
      /\ tasks' = Dropped(Restored(tasks, run.putTasks)) /\ ledger' = Dropped(ledger)
      /\ UNCHANGED <<plan, writer, acked, raced, hurt>>
  BY DEF RestoreTasks, Goto, ghosts, Replaces, Replacing, Restoring
<1>2. Shaped(tasks) /\ Shaped(ledger) /\ Shaped(Restored(tasks, run.putTasks))
  BY RestoredMakes DEF IInv, Types, TasksOK, LedgersOK
<1>3. /\ tasks'["target"] = Restored(tasks, run.putTasks)["target"] /\ tasks'["backup"] = Missing
      /\ ledger'["target"] = ledger["target"] /\ ledger'["backup"] = Missing
  BY <1>1, <1>2, DroppedMakes
<1>4. ASSUME ~Replaces PROVE tasks'["target"] = tasks["target"]
  <2>1. Early
    BY <1>1, <1>4 DEF IInv, MergeInv
  <2> QED
    BY <1>2, <1>3, <2>1, StaysThere DEF Early
<1>5. ASSUME ~raced, Replaces
      PROVE  tasks'["target"] = run.before[1] /\ ledger'["target"] = run.before[2]
  <2>1. Late
    BY <1>5, Alone
  <2>2. Moved(tasks, run.putTasks, run.before[1], plan.final) /\ ledger["target"] = run.before[2]
    BY <1>1, <2>1 DEF Late
  <2> QED
    BY <1>2, <1>3, <2>2, GoesBack
<1>6. ASSUME ~raced PROVE WriterCurrent'
  <2>1. CASE Replaces
    BY <1>1, <1>6, <2>1, Alone DEF WriterCurrent
  <2>2. CASE ~Replaces
    BY <1>1, <1>3, <1>4, <1>6, <2>2 DEF IInv, MergeInv, WriterCurrent, Told, Stands, Replacing, Restoring
  <2> QED
    BY <2>1, <2>2
<1> QED
  BY <1>1, <1>3, <1>4, <1>5, <1>6 DEF MergeInv, Looking, Replacing, Restoring

\* A merge that no mutation raced with does not fail to restore.
LEMMA RestoreFailsRaced ==
    ASSUME IInv, RestoreFails
    PROVE  raced
<1>1. SUFFICES ASSUME ~raced PROVE FALSE
  OBVIOUS
<1>2. /\ pc \in Restoring
      /\ \/ pc = "restore ledger" /\ ~Clear(ledger, run.putLedger)
         \/ pc = "restore tasks" /\ ~Clear(tasks, run.putTasks)
  BY DEF RestoreFails, Restoring
<1>3. Shaped(tasks) /\ Shaped(ledger)
  BY DEF IInv, Types, TasksOK, LedgersOK
<1>4. CASE Replaces
  <2>1. Late
    BY <1>1, <1>4, Alone
  <2>2. /\ Moved(tasks, run.putTasks, run.before[1], plan.final)
        /\ pc # "restore tasks" => Moved(ledger, run.putLedger, run.before[2], Result)
    BY <2>1 DEF Late
  <2>3. Clear(tasks, run.putTasks)
    <3>1. Moved(tasks, run.putTasks, run.before[1], plan.final)
      BY <2>2
    <3> QED
      BY <1>3, <3>1, GoesBack
  <2>4. pc # "restore tasks" => Clear(ledger, run.putLedger)
    BY <1>3, <2>2, GoesBack
  <2> QED
    BY <1>2, <2>3, <2>4
<1>5. CASE ~Replaces
  <2>1. Early
    BY <1>2, <1>5 DEF IInv, MergeInv, Restoring
  <2> QED
    BY <1>2, <1>3, <2>1, StaysThere DEF Early
<1> QED
  BY <1>4, <1>5

\* An error of the except clause comes while directories are replaced.
LEMMA RestoreErrorKeeps ==
    ASSUME IInv, RestoreError
    PROVE  MergeInv' /\ BoardInv'
<1>1. /\ pc \in Restoring /\ pc' = "idle" /\ hurt' = TRUE /\ UNCHANGED <<plan, writer, raced>>
      /\ \/ tasks' = Dropped(tasks)
         \/ \E left \in Remnants(tasks, run.putTasks) : tasks' = Dropped(Target(tasks, left))
      /\ \/ ledger' = Dropped(ledger)
         \/ \E left \in Remnants(ledger, run.putLedger) : ledger' = Dropped(Target(ledger, left))
  BY DEF RestoreError, Target, Goto, Restoring
<1>2. Shaped(tasks) /\ Shaped(ledger)
  BY DEF IInv, Types, TasksOK, LedgersOK
<1>3. tasks'["backup"] = Missing
  BY <1>1, <1>2, DroppedMakes, RemnantsTyped
<1>4. ledger'["backup"] = Missing
  BY <1>1, <1>2, DroppedMakes, RemnantsTyped
<1>5. Replaces
  <2>1. ~Early
    BY DEF RestoreError, Remnants, Early
  <2> QED
    BY <1>1, <2>1 DEF IInv, MergeInv, Restoring
<1>6. ~raced => WriterCurrent'
  BY <1>1, <1>5, Alone DEF WriterCurrent
<1> QED
  BY <1>1, <1>3, <1>4, <1>6 DEF MergeInv, BoardInv, Replaces, Looking, Replacing, Restoring

(***************************************************************************)
(* The mutations of the target while a merge runs.                         *)
(***************************************************************************)

LEMMA EditingKeeps ==
    ASSUME IInv, EditSource
    PROVE  MergeInv'
<1>1. UNCHANGED <<tasks, ledger, plan, pc, run, writer, raced>>
  BY DEF EditSource, board, ghosts
<1>2. /\ Early' = Early /\ Outrun' = Outrun /\ Copied' = Copied /\ Late' = Late
      /\ WriterCurrent' = WriterCurrent /\ Replaces' = Replaces
  BY <1>1 DEF Early, Outrun, Copied, Late, WriterCurrent, Replaces, Told, Stands, Pending, Made,
     Grown, Result
<1> QED
  BY <1>1, <1>2 DEF IInv, MergeInv

LEMMA BeginningKeeps ==
    ASSUME IInv, Begin
    PROVE  MergeInv'
<1>1. /\ UNCHANGED <<tasks, ledger, plan, pc, run>>
      /\ raced' = (raced \/ pc \in Replacing)
  BY DEF Begin, Race, board
<1>2. /\ writer = NoWriter /\ IsWriter(writer') /\ writer'.step = "task"
      /\ writer'.event.prev = Latest(Told(writer'.id))
      /\ writer'.ledger = Appended(Told(writer'.id), writer'.event)
      /\ tasks["target"] # Missing
  BY BeginMakes DEF IInv
<1>3. ASSUME ~raced' PROVE WriterCurrent'
  BY <1>1, <1>2, <1>3 DEF WriterCurrent, Told
<1>4. Outrun => Outrun'
  BY <1>1 DEF Outrun, Told
<1>5. ASSUME Copied PROVE Copied'
  <2>1. \A id : ~Pending(id) /\ Told(id)' = Told(id) /\ Stands(id)' = Stands(id)
    BY <1>1, <1>2 DEF Pending, Told, Stands
  <2>2. Made' = Made /\ Grown(ledger["target"])' = Grown(ledger["target"])
    BY <1>1 DEF Made, Grown
  <2> QED
    BY <1>1, <1>5, <2>1, <2>2 DEF Copied
<1>6. Early' = Early /\ Replaces' = Replaces
  BY <1>1 DEF Early, Replaces
<1> QED
  BY <1>1, <1>3, <1>4, <1>5, <1>6 DEF IInv, MergeInv, Replaces

LEMMA WritingTaskKeeps ==
    ASSUME IInv, WriteTask
    PROVE  MergeInv'
<1>1. /\ UNCHANGED <<ledger, plan, pc, run>>
      /\ raced' = (raced \/ pc \in Replacing)
  BY DEF WriteTask, Race
<1>2. /\ tasks'["staged"] = tasks["staged"] /\ tasks'["backup"] = tasks["backup"]
      /\ \A i : At(Files(tasks'["target"]), i) =
                   IF i = writer.id THEN writer.event.after ELSE Stands(i)
      /\ tasks["target"] # Missing => tasks'["target"] # Missing
      /\ writer # NoWriter /\ writer.step = "task" /\ IsWriter(writer')
      /\ writer'.id = writer.id /\ writer'.event = writer.event
      /\ writer'.ledger = writer.ledger /\ writer'.step = "ledger" /\ writer' # NoWriter
  BY WriteTaskMakes DEF IInv, NoWriter
<1>3. \A id : /\ Told(id)' = Told(id) /\ ~Pending(id)
              /\ Stands(id)' = IF id = writer.id THEN writer.event.after ELSE Stands(id)
  BY <1>1, <1>2 DEF Told, Stands, Pending
<1>4. \A id : id = writer.id => Pending(id)'
  BY <1>2 DEF Pending
<1>5. ASSUME ~raced' PROVE WriterCurrent'
  <2>1. WriterCurrent /\ pc \notin Replacing
    BY <1>1, <1>5 DEF IInv, MergeInv
  <2> QED
    BY <1>1, <1>2, <1>3, <2>1 DEF WriterCurrent
<1>6. Outrun => Outrun'
  BY <1>1 DEF Outrun, Told
<1>7. ASSUME ~raced', Copied PROVE Copied'
  <2>1. tasks["target"] # Missing /\ tasks'["target"] # Missing
    BY <1>1, <1>2, <1>5, <1>7 DEF IInv, MergeInv, WriterCurrent
  <2>2. Made' = Made /\ Grown(ledger["target"])' = Grown(ledger["target"])
    BY <1>1 DEF Made, Grown
  <2> QED
    BY <1>1, <1>2, <1>3, <1>4, <1>7, <2>1, <2>2 DEF Copied
<1>8. (Early => Early') /\ Replaces' = Replaces
  BY <1>1, <1>2 DEF Early, Replaces
<1> QED
  BY <1>1, <1>2, <1>5, <1>6, <1>7, <1>8 DEF IInv, MergeInv, Replaces

LEMMA WritingLedgerKeeps ==
    ASSUME IInv, WriteLedger
    PROVE  MergeInv'
<1>1. /\ UNCHANGED <<tasks, plan, pc, run>>
      /\ raced' = (raced \/ pc \in Replacing \/ Unseen)
  BY DEF WriteLedger
<1>2. /\ ledger'["staged"] = ledger["staged"] /\ ledger'["backup"] = ledger["backup"]
      /\ \A i : LedgerOf(ledger'["target"], i) = IF i = writer.id THEN writer.ledger ELSE Told(i)
      /\ writer # NoWriter /\ IsWriter(writer) /\ writer' = NoWriter
  BY WriteLedgerMakes DEF IInv
<1>3. \A id : Told(id)' = IF id = writer.id THEN writer.ledger ELSE Told(id)
  BY <1>2 DEF Told
<1>4. WriterCurrent'
  BY <1>2 DEF WriterCurrent
<1>5. ASSUME ~raced', pc \in Looking, Outrun \/ Copied PROVE Outrun'
  <2>1. ~raced /\ WriterCurrent
    BY <1>1, <1>5 DEF IInv, MergeInv
  <2>2. /\ writer.ledger = Appended(Told(writer.id), writer.event)
        /\ writer.id \in DOMAIN plan.identity.tasks
    BY <1>1, <1>2, <1>5, <2>1 DEF WriterCurrent, Unseen, Looking, Working, Copying, Trying
  <2>3. plan # NoPlan /\ IsPlan(plan)
    BY <1>5 DEF IInv, Types, Looking
  <2>4. \A id : Told(id) \in History /\ Len(Told(id)) \in Nat /\ Latest(Told(id)).n = Len(Told(id))
    BY TargetTyped, HeadTyped DEF IInv, History
  <2>5. Latest(writer.ledger).n = Len(Told(writer.id)) + 1
    <3>1. writer.event \in Event
      BY <1>2 DEF IsWriter
    <3> QED
      BY <2>2, <2>4, <3>1, EventAppended
  <2>6. CASE Copied
    <3>1. Latest(Told(writer.id)) = plan.identity.heads[writer.id]
      BY <2>2, <2>6 DEF Copied
    <3>2. PICK id \in DOMAIN plan.identity.tasks : id = writer.id
      BY <2>2
    <3>3. Latest(Told(id)').n > plan.identity.heads[id].n
      BY <1>3, <2>4, <2>5, <3>1, <3>2
    <3> QED
      BY <1>1, <3>3 DEF Outrun
  <2>7. CASE Outrun
    <3>1. PICK id \in DOMAIN plan.identity.tasks :
             Latest(Told(id)).n > plan.identity.heads[id].n
      BY <2>7 DEF Outrun
    <3>2. plan.identity.heads[id].n \in Nat
      BY <2>3 DEF IsPlan
    <3>3. Latest(Told(id)').n > plan.identity.heads[id].n
      BY <1>3, <2>4, <2>5, <3>1, <3>2
    <3> QED
      BY <1>1, <3>3 DEF Outrun
  <2> QED
    BY <1>5, <2>6, <2>7
<1>6. (Early => Early') /\ Replaces' = Replaces
  BY <1>1, <1>2 DEF Early, Replaces
<1> QED
  BY <1>1, <1>2, <1>4, <1>5, <1>6 DEF IInv, MergeInv, Replaces

(***************************************************************************)
(* The board.                                                              *)
(***************************************************************************)

\* What the invariant says of a board that no merge is replacing.
Standing ==
    /\ \A id \in Id : Chained(Told(id)) /\ (Latest(Told(id)).after = Stands(id) \/ Pending(id))
    /\ \A w \in acked : Contains(Read(Told(w.id)), w.event)

Both == Whole(run.before[1], run.before[2]) /\ Whole(plan.final, Result)

LEMMA BoardSplit ==
    BoardInv <=> \/ raced \/ hurt
                 \/ Replaces /\ Both
                 \/ ~Replaces /\ Standing
  BY DEF BoardInv, Both, Standing

LEMMA BoardStands ==
    ASSUME tasks'["target"] = tasks["target"], ledger'["target"] = ledger["target"],
           UNCHANGED <<writer, acked>>, Standing
    PROVE  Standing'
<1>1. /\ acked' = acked
      /\ \A id : Told(id)' = Told(id) /\ Stands(id)' = Stands(id) /\ Pending(id)' = Pending(id)
  BY DEF Told, Stands, Pending
<1> QED
  BY <1>1 DEF Standing

\* The board of a merge that has ended.
LEMMA WholeStands ==
    ASSUME NEW t, NEW l, Whole(t, l), tasks'["target"] = t, ledger'["target"] = l, acked' = acked
    PROVE  Standing'
<1>1. \A id : Told(id)' = LedgerOf(l, id) /\ Stands(id)' = At(Files(t), id)
  BY DEF Told, Stands
<1> QED
  BY <1>1 DEF Whole, Standing

LEMMA BothStay ==
    ASSUME UNCHANGED <<plan, run.before, acked>>, Both
    PROVE  Both'
<1>1. /\ run'.before = run.before /\ plan' = plan /\ acked' = acked /\ Result' = Result
  BY DEF Result, Grown
<1> QED
  BY <1>1 DEF Both, Whole

\* Steps that leave the target alone, before the last look.
LEMMA PreparingBoard ==
    ASSUME IInv,
           \/ \E strategy \in Strategy : MakePlan(strategy)
           \/ Apply \/ CopyTasks \/ CopyLedger \/ Stage
    PROVE  BoardInv'
<1>1. /\ pc \notin Replacing /\ pc' \notin Replacing
      /\ UNCHANGED <<writer, acked, raced, hurt>>
  BY DEF MakePlan, Apply, CopyTasks, CopyLedger, Stage, Goto, ghosts, Replacing, Restoring
<1>2. tasks'["target"] = tasks["target"] /\ ledger'["target"] = ledger["target"]
  <2>1. CASE (\E strategy \in Strategy : MakePlan(strategy)) \/ Apply
    BY <2>1 DEF MakePlan, Apply, board
  <2>2. CASE CopyTasks
    <3>1. tasks' = StageAs(tasks, Files(tasks["target"])) /\ ledger' = ledger
      BY <2>2 DEF CopyTasks, StageAs
    <3> QED
      BY <3>1, TargetTyped, StageAsMakes DEF IInv
  <2>3. CASE CopyLedger
    <3>1. ledger' = StageAs(ledger, Files(ledger["target"])) /\ tasks' = tasks
      BY <2>3 DEF CopyLedger, StageAs
    <3> QED
      BY <3>1, TargetTyped, StageAsMakes DEF IInv
  <2>4. CASE Stage
    BY <2>4, StagingMakes DEF IInv
  <2> QED
    BY <2>1, <2>2, <2>3, <2>4
<1>3. ~Replaces /\ ~Replaces'
  BY <1>1 DEF Replaces
<1>4. raced \/ hurt \/ Standing
  BY <1>3, BoardSplit DEF IInv
<1>5. raced' \/ hurt' \/ Standing'
  BY <1>1, <1>2, <1>4, BoardStands
<1> QED
  BY <1>3, <1>5 DEF BoardInv, Standing

\* The board that is reviewed is made of the board that is found.
LEMMA CheckingBoard ==
    ASSUME IInv, Check
    PROVE  BoardInv'
<1>1. /\ pc = "check" /\ pc' = "save tasks" /\ Fresh
      /\ run' = NoteBefore(run, <<tasks["target"], ledger["target"]>>)
      /\ raced' = (raced \/ writer # NoWriter) /\ hurt' = hurt
      /\ UNCHANGED <<tasks, ledger, plan, writer, acked>>
  BY DEF Check, NoteBefore, Goto, board
<1>2. run'.before = <<tasks["target"], ledger["target"]>> /\ run'.before # <<>>
  <2>1. run'.before = <<tasks["target"], ledger["target"]>>
    BY <1>1, NoteBeforeMakes DEF IInv, Types
  <2> QED
    BY <2>1
<1>3. Replaces' /\ ~Replaces
  BY <1>1, <1>2 DEF Replaces, Replacing, Restoring
<1>4. SUFFICES ASSUME ~raced', ~hurt' PROVE Both'
  BY <1>3 DEF BoardInv, Both
<1> DEFINE t == tasks["target"]
           l == ledger["target"]
           final == plan.final
           made == Over(Grown(l), Files(l))
<1>5. /\ plan # NoPlan /\ IsPlan(plan)
      /\ t = Missing \/ IsBoard(t)
      /\ l = Missing \/ IsLedgers(l)
      /\ \A id : Told(id) \in History
  BY <1>1, TargetTyped DEF IInv, Types
<1>6. writer = NoWriter /\ Standing /\ MergeInv /\ ~raced
  BY <1>1, <1>3, <1>4, BoardSplit DEF IInv
<1>7. ~Outrun /\ Copied
  <2>1. \A id \in DOMAIN plan.identity.tasks :
           Latest(Told(id)).n = plan.identity.heads[id].n /\ plan.identity.heads[id].n \in Nat
    BY <1>1, <1>5, FreshMeans DEF IsPlan
  <2>2. ~Outrun
    BY <2>1 DEF Outrun
  <2> QED
    BY <1>1, <1>6, <2>2 DEF MergeInv, Looking
<1>8. /\ \A id \in Id : Chained(Told(id)) /\ Latest(Told(id)).after = Stands(id)
      /\ \A w \in acked : Contains(Read(Told(w.id)), w.event)
  BY <1>6 DEF Standing, Pending
<1>9. \A id \in DOMAIN plan.events :
         /\ id \in Id /\ plan.events[id] \in Event
         /\ plan.events[id].prev = Latest(Told(id))
  BY <1>1, <1>5, <1>7 DEF Copied, IsPlan
<1>10. \A id : LedgerOf(made, id) =
                   IF id \in DOMAIN plan.events THEN Appended(Told(id), plan.events[id]) ELSE Told(id)
  <2>1. /\ IsLedgers(Grown(l)) /\ DOMAIN Grown(l) = DOMAIN plan.events
        /\ \A id \in DOMAIN plan.events : Grown(l)[id] = Appended(Told(id), plan.events[id])
    BY <1>5, GrownTyped DEF Told
  <2>2. IsLedgers(Files(l))
    BY <1>5, FilesOfLedgers
  <2> HIDE DEF l
  <2>3. \A id : LedgerOf(made, id) =
                    IF id \in DOMAIN Grown(l) THEN Grown(l)[id] ELSE LedgerOf(Files(l), id)
    BY <2>1, <2>2, OverLedgerOf DEF IsLedgers
  <2>4. \A id : LedgerOf(Files(l), id) = Told(id)
    BY <1>5, LedgerTyped DEF Told, l
  <2> QED
    BY <2>1, <2>3, <2>4
<1>11. \A id : At(Files(final), id) =
                   IF id \in DOMAIN plan.events THEN plan.events[id].after ELSE Stands(id)
  <2>1. Files(final) = final
    BY <1>5, Present DEF IsPlan, IsBoard
  <2>2. final = Over(Made, plan.identity.tasks)
    BY <1>5, MadeTyped
  <2>3. DOMAIN Made = DOMAIN plan.events /\ \A id \in DOMAIN Made : Made[id] = plan.events[id].after
    BY <1>5, MadeTyped
  <2>4. plan.identity.tasks = Files(t)
    BY <1>1, FreshMeans
  <2> HIDE DEF final, t
  <2>5. \A id : At(final, id) = IF id \in DOMAIN Made THEN Made[id] ELSE At(Files(t), id)
    BY <2>2, <2>4 DEF Over, At
  <2> QED
    BY <2>1, <2>3, <2>5 DEF Stands, t
<1> HIDE DEF made, final
<1>12. Whole(t, l)
  BY <1>8 DEF Whole, Told, Stands
<1>13. Whole(final, made)
  <2>1. ASSUME NEW id \in Id
        PROVE  Chained(LedgerOf(made, id)) /\ Latest(LedgerOf(made, id)).after = At(Files(final), id)
    <3>1. CASE id \in DOMAIN plan.events
      <4> DEFINE e == plan.events[id]
      <4>1. e \in Event /\ e.prev = Latest(Told(id)) /\ Chained(Told(id)) /\ Told(id) \in History
        BY <1>5, <1>8, <1>9, <3>1
      <4> HIDE DEF e
      <4>2. Chained(Appended(Told(id), e)) /\ Latest(Appended(Told(id), e)).after = e.after
        BY <4>1, EventAppended
      <4> QED
        BY <1>10, <1>11, <3>1, <4>2 DEF e
    <3>2. CASE id \notin DOMAIN plan.events
      BY <1>8, <1>10, <1>11, <3>2
    <3> QED
      BY <3>1, <3>2
  <2>2. ASSUME NEW w \in acked PROVE Contains(Read(LedgerOf(made, w.id)), w.event)
    <3>1. Contains(Read(Told(w.id)), w.event)
      BY <1>8
    <3>2. CASE w.id \in DOMAIN plan.events
      BY <1>5, <1>9, <1>10, <3>1, <3>2, EventAppended
    <3>3. CASE w.id \notin DOMAIN plan.events
      BY <1>10, <3>1, <3>3
    <3> QED
      BY <3>2, <3>3
  <2> QED
    BY <2>1, <2>2 DEF Whole
<1>14. /\ run'.before[1] = t /\ run'.before[2] = l
       /\ Result' = made /\ plan'.final = final /\ acked' = acked
  <2>1. run'.before[1] = t /\ run'.before[2] = l /\ plan' = plan /\ acked' = acked
    <3>1. run'.before[1] = t /\ run'.before[2] = l
      BY <1>2
    <3> QED
      BY <1>1, <3>1
  <2> HIDE DEF l, t
  <2>2. Result' = made
    BY <2>1 DEF Result, Grown, made
  <2> QED
    BY <2>1, <2>2 DEF final
<1> HIDE DEF t, l
<1> QED
  BY <1>12, <1>13, <1>14 DEF Both, Whole

LEMMA ReplacingBoard ==
    ASSUME IInv, SaveTasks \/ PutTasks \/ SaveLedger \/ PutLedger
    PROVE  BoardInv'
<1>1. /\ pc \in Replacing \ Restoring /\ pc' \in Replacing
      /\ UNCHANGED <<plan, acked, raced, hurt>>
  BY DEF SaveTasks, PutTasks, SaveLedger, PutLedger, Goto, ghosts, Replacing, Restoring
<1>2. run'.before = run.before
  <2>1. run' = run \/ run' = NotePutTasks(run, TRUE) \/ run' = NotePutLedger(run, TRUE)
    BY DEF SaveTasks, PutTasks, SaveLedger, PutLedger, NotePutTasks, NotePutLedger
  <2>2. IsRun(run)
    BY DEF IInv, Types
  <2>3. NotePutTasks(run, TRUE).before = run.before
    BY <2>2, NotePutTasksMakes
  <2>4. NotePutLedger(run, TRUE).before = run.before
    BY <2>2, NotePutLedgerMakes
  <2> QED
    BY <2>1, <2>3, <2>4
<1>3. Replaces /\ Replaces'
  BY <1>1, <1>2 DEF IInv, MergeInv, Replaces
<1>4. raced \/ hurt \/ Both
  BY <1>3, BoardSplit DEF IInv
<1>5. raced' \/ hurt' \/ Both'
  BY <1>1, <1>2, <1>4, BothStay
<1> QED
  BY <1>3, <1>5 DEF BoardInv, Both

LEMMA FailingBoard ==
    ASSUME IInv, Fail \/ RestoreLedger
    PROVE  BoardInv'
<1>1. /\ pc \in Working \cup Restoring /\ pc' \in Restoring
      /\ UNCHANGED <<tasks, plan, run, writer, acked, raced, hurt>>
  BY DEF Fail, Refused, RestoreLedger, Goto, board, ghosts, Working, Copying, Trying, Restoring
<1>2. CASE Replaces
  <2>1. Replaces' /\ (raced \/ hurt \/ Both)
    BY <1>1, <1>2, BoardSplit DEF IInv, Replaces, Replacing
  <2>2. raced' \/ hurt' \/ Both'
    BY <1>1, <2>1, BothStay
  <2> QED
    BY <2>1, <2>2 DEF BoardInv, Both
<1>3. CASE ~Replaces
  <2>1. Early /\ ~Replaces'
    BY <1>1, <1>3 DEF IInv, MergeInv, Replaces, Replacing, Working, Copying, Trying, Restoring, Early
  <2>2. ledger'["target"] = ledger["target"]
    <3>1. CASE Fail
      BY <3>1 DEF Fail, board
    <3>2. CASE RestoreLedger
      <4>1. ledger' = Restored(ledger, run.putLedger) /\ Shaped(ledger)
        BY <3>2, TargetTyped DEF RestoreLedger, IInv
      <4> QED
        BY <2>1, <4>1, StaysThere DEF Early
    <3> QED
      BY <3>1, <3>2
  <2>3. raced' \/ hurt' \/ Standing'
    BY <1>1, <1>3, <2>2, BoardSplit, BoardStands DEF IInv
  <2> QED
    BY <2>1, <2>3 DEF BoardInv, Standing
<1> QED
  BY <1>2, <1>3

\* At the receipt, both directories are those that were staged.
LEMMA Finished ==
    ASSUME IInv, pc = "receipt", ~raced
    PROVE  /\ Replaces /\ Late /\ tasks["target"] = plan.final /\ ledger["target"] = Result
<1>1. Replaces
  BY DEF IInv, MergeInv, Replaces, Replacing, Restoring
<1>2. Late
  BY <1>1, Alone
<1>3. /\ run.putTasks /\ Moved(tasks, run.putTasks, run.before[1], plan.final)
      /\ run.putLedger /\ Moved(ledger, run.putLedger, run.before[2], Result)
  BY <1>2 DEF Late
<1> QED
  BY <1>1, <1>2, <1>3 DEF Moved

LEMMA EndingBoard ==
    ASSUME IInv, Receipt \/ CopyFails \/ RestoreTasks \/ RestoreFails \/ Stop
    PROVE  BoardInv'
<1>1. CASE Receipt
  <2>1. /\ tasks'["target"] = tasks["target"] /\ ledger'["target"] = ledger["target"]
        /\ UNCHANGED <<acked, raced, hurt>> /\ ~Replaces' /\ pc = "receipt"
    BY <1>1, EndingKeeps DEF Receipt, Replaces, Replacing, Restoring, ghosts
  <2>2. ASSUME ~raced, ~hurt PROVE Standing'
    <3>1. /\ Replaces /\ tasks["target"] = plan.final /\ ledger["target"] = Result
      BY <2>1, <2>2, Finished
    <3>2. Whole(plan.final, Result)
      BY <2>2, <3>1, BoardSplit DEF IInv, Both
    <3> QED
      BY <2>1, <3>1, <3>2, WholeStands
  <2> QED
    BY <2>1, <2>2 DEF BoardInv, Standing
<1>2. CASE RestoreTasks
  <2>1. /\ ~Replaces' /\ ledger'["target"] = ledger["target"]
        /\ ~Replaces => tasks'["target"] = tasks["target"]
        /\ ~raced /\ Replaces =>
              tasks'["target"] = run.before[1] /\ ledger'["target"] = run.before[2]
        /\ UNCHANGED <<plan, writer, acked, raced, hurt>>
    BY <1>2, RestoringTasksKeeps
  <2>2. ASSUME ~raced, ~hurt PROVE Standing'
    <3>1. CASE Replaces
      <4>1. Whole(run.before[1], run.before[2])
        BY <2>2, <3>1, BoardSplit DEF IInv, Both
      <4> QED
        BY <2>1, <2>2, <3>1, <4>1, WholeStands
    <3>2. CASE ~Replaces
      BY <2>1, <2>2, <3>2, BoardSplit, BoardStands DEF IInv
    <3> QED
      BY <3>1, <3>2
  <2> QED
    BY <2>1, <2>2 DEF BoardInv, Standing
<1>3. CASE RestoreFails
  BY <1>3, RestoreFailsRaced DEF RestoreFails, ghosts, BoardInv
<1>4. CASE Stop
  <2>1. /\ tasks'["target"] = tasks["target"] /\ ledger'["target"] = ledger["target"]
        /\ UNCHANGED <<writer, acked, raced>> /\ hurt' = (hurt \/ pc \in Replacing)
        /\ ~Replaces'
    BY <1>4, EndingKeeps DEF Stop, Replaces, Replacing, Restoring
  <2>2. ASSUME ~raced, ~hurt' PROVE Standing'
    <3>1. ~Replaces /\ Standing
      BY <2>1, <2>2, BoardSplit DEF IInv, Replaces
    <3> QED
      BY <2>1, <3>1, BoardStands
  <2> QED
    BY <2>1, <2>2 DEF BoardInv, Standing
<1>5. CASE CopyFails
  <2>1. /\ tasks'["target"] = tasks["target"] /\ ledger'["target"] = ledger["target"]
        /\ UNCHANGED <<writer, acked, raced, hurt>> /\ ~Replaces /\ ~Replaces'
    BY <1>5, EndingKeeps DEF CopyFails, Copying, Replaces, Replacing, Restoring, ghosts
  <2>2. ASSUME ~raced, ~hurt PROVE Standing'
    BY <2>1, <2>2, BoardSplit, BoardStands DEF IInv
  <2> QED
    BY <2>1, <2>2 DEF BoardInv, Standing
<1> QED
  BY <1>1, <1>2, <1>3, <1>4, <1>5

LEMMA MutationBoard ==
    ASSUME IInv, EditSource \/ Begin \/ WriteTask \/ WriteLedger
    PROVE  BoardInv'
<1>1. CASE EditSource
  <2>1. UNCHANGED <<tasks, ledger, plan, pc, run, writer, acked, raced, hurt>>
    BY <1>1 DEF EditSource, board, ghosts
  <2>2. Replaces' = Replaces /\ (Standing => Standing') /\ (Both => Both')
    BY <2>1, BoardStands, BothStay DEF Replaces
  <2> QED
    BY <2>1, <2>2, BoardSplit DEF IInv, BoardInv, Standing, Both
<1>2. SUFFICES ASSUME Begin \/ WriteTask \/ WriteLedger, ~raced', ~hurt' PROVE ~Replaces' /\ Standing'
  BY <1>1 DEF BoardInv, Standing
<1>3. /\ UNCHANGED <<plan, pc, run, hurt>> /\ ~raced /\ pc \notin Replacing
  BY <1>2 DEF Begin, WriteTask, WriteLedger, Race, board
<1>4. ~Replaces /\ ~Replaces'
  BY <1>3 DEF Replaces
<1>5. Standing /\ WriterCurrent
  BY <1>2, <1>3, <1>4, BoardSplit DEF IInv, MergeInv
<1>6. CASE Begin
  <2>1. writer = NoWriter /\ UNCHANGED <<tasks, ledger, acked>>
    BY <1>6 DEF Begin, board
  <2>2. \A id : Told(id)' = Told(id) /\ Stands(id)' = Stands(id) /\ ~Pending(id)
    BY <2>1 DEF Told, Stands, Pending
  <2> QED
    BY <1>4, <1>5, <2>1, <2>2 DEF Standing
<1>7. CASE WriteTask
  <2>1. /\ \A i : At(Files(tasks'["target"]), i) =
                     IF i = writer.id THEN writer.event.after ELSE Stands(i)
        /\ writer.step = "task" /\ IsWriter(writer')
        /\ writer'.id = writer.id /\ writer'.step = "ledger" /\ writer' # NoWriter
        /\ UNCHANGED <<ledger, acked>>
    BY <1>7, WriteTaskMakes DEF IInv, WriteTask, NoWriter
  <2>2. \A id : /\ Told(id)' = Told(id) /\ ~Pending(id)
                /\ Stands(id)' = IF id = writer.id THEN writer.event.after ELSE Stands(id)
                /\ id = writer.id => Pending(id)'
    BY <2>1 DEF Told, Stands, Pending
  <2> QED
    BY <1>4, <1>5, <2>1, <2>2 DEF Standing
<1>8. CASE WriteLedger
  <2>1. /\ \A i : LedgerOf(ledger'["target"], i) = IF i = writer.id THEN writer.ledger ELSE Told(i)
        /\ writer # NoWriter /\ writer.step = "ledger" /\ IsWriter(writer) /\ writer' = NoWriter
        /\ \A w \in acked' : w \in acked \/ w = [id |-> writer.id, event |-> writer.event]
        /\ tasks' = tasks
    BY <1>8, WriteLedgerMakes DEF IInv, WriteLedger
  <2>2. \A id : /\ Told(id)' = IF id = writer.id THEN writer.ledger ELSE Told(id)
                /\ Stands(id)' = Stands(id) /\ (Pending(id) => id = writer.id)
    BY <2>1 DEF Told, Stands, Pending
  <2> DEFINE e == writer.event
             old == Told(writer.id)
  <2>3. /\ e \in Event /\ old \in History /\ writer.id \in Id /\ Chained(old)
        /\ e.prev = Latest(old) /\ writer.ledger = Appended(old, e) /\ Stands(writer.id) = e.after
    BY <1>5, <2>1, TargetTyped DEF IInv, IsWriter, WriterCurrent, Standing
  <2> HIDE DEF e, old
  <2>4. /\ Chained(writer.ledger) /\ Latest(writer.ledger).after = e.after
        /\ Contains(Read(writer.ledger), e)
        /\ \A w : Contains(Read(old), w) => Contains(Read(writer.ledger), w)
    BY <2>3, EventAppended
  <2>5. ASSUME NEW id \in Id PROVE Chained(Told(id)') /\ Latest(Told(id)').after = Stands(id)'
    BY <1>5, <2>2, <2>3, <2>4 DEF Standing
  <2>6. ASSUME NEW w \in acked' PROVE Contains(Read(LedgerOf(ledger'["target"], w.id)), w.event)
    <3>1. CASE w \in acked
      <4>1. Contains(Read(Told(w.id)), w.event)
        BY <1>5, <3>1 DEF Standing
      <4> QED
        BY <2>1, <2>4, <4>1 DEF old
    <3>2. CASE w = [id |-> writer.id, event |-> writer.event]
      BY <2>1, <2>4, <3>2 DEF e
    <3> QED
      BY <2>1, <3>1, <3>2
  <2> QED
    BY <1>4, <2>5, <2>6 DEF Standing, Told
<1> QED
  BY <1>2, <1>6, <1>7, <1>8

(***************************************************************************)
(* Theorems.                                                               *)
(***************************************************************************)

LEMMA NextKeeps ==
    ASSUME IInv, [Next]_vars
    PROVE  IInv'
<1>1. Types'
  BY TypesKept DEF IInv
<1>2. CASE UNCHANGED vars
  <2>1. PlanFaithful' /\ MergeInv'
    <3>1. UNCHANGED <<tasks, ledger, plan, pc, run, writer, raced>>
      BY <1>2 DEF vars, board, ghosts
    <3>2. /\ Early' = Early /\ Outrun' = Outrun /\ Copied' = Copied /\ Late' = Late
          /\ WriterCurrent' = WriterCurrent /\ Replaces' = Replaces
      BY <3>1 DEF Early, Outrun, Copied, Late, WriterCurrent, Replaces, Told, Stands, Pending, Made,
         Grown, Result
    <3> QED
      BY <3>1, <3>2 DEF IInv, MergeInv, PlanFaithful
  <2>2. BoardInv'
    BY <1>2 DEF vars, board, ghosts, IInv, BoardInv, Whole, Replaces, Told, Stands, Pending, Grown, Result
  <2> QED
    BY <1>1, <2>1, <2>2 DEF IInv
<1>3. CASE Next
  <2>1. PlanFaithful'
    <3>1. CASE \E strategy \in Strategy : MakePlan(strategy)
      BY <3>1, NewPlanFaithful DEF IInv, MakePlan
    <3>2. CASE ~\E strategy \in Strategy : MakePlan(strategy)
      <4>1. plan' = plan
        BY <1>3, <3>2 DEF Next, Strategy, Apply, CopyTasks, CopyLedger, Stage, Check, SaveTasks, PutTasks,
           SaveLedger, PutLedger, Receipt, CopyFails, Fail, RestoreLedger, RestoreTasks, RestoreFails,
           RestoreError, Stop, EditSource, Begin, WriteTask, WriteLedger
      <4> QED
        BY <4>1 DEF IInv, PlanFaithful
    <3> QED
      BY <3>1, <3>2
  <2>2. MergeInv'
    BY <1>3, PlanningKeeps, ApplyingKeeps, CopyingTasksKeeps, CopyingLedgerKeeps, StagingKeeps,
       CheckingKeeps, SavingTasksKeeps, PuttingTasksKeeps, SavingLedgerKeeps, PuttingLedgerKeeps,
       FailingKeeps, RestoringLedgerKeeps, RestoringTasksKeeps, EndingKeeps, RestoreErrorKeeps, EditingKeeps,
       BeginningKeeps, WritingTaskKeeps, WritingLedgerKeeps DEF Next, Strategy
  <2>3. BoardInv'
    BY <1>3, PreparingBoard, CheckingBoard, ReplacingBoard, FailingBoard, EndingBoard, RestoreErrorKeeps,
       MutationBoard DEF Next, Strategy
  <2> QED
    BY <1>1, <2>1, <2>2, <2>3 DEF IInv
<1> QED
  BY <1>2, <1>3

THEOREM MergeInvariant == Spec => []IInv
<1>1. Init => IInv
  BY InitInv
<1>2. IInv /\ [Next]_vars => IInv'
  BY NextKeeps
<1> QED
  BY <1>1, <1>2, PTL DEF Spec

\* Whatever the boards are and whatever the strategy, a plan that is reviewed is what
\* its strategy says, and is still so when it is applied (build_plan).
THEOREM PlansFaithful == Spec => []PlanFaithful
<1>1. IInv => PlanFaithful
  BY DEF IInv
<1> QED
  BY <1>1, MergeInvariant, PTL

LEMMA SoundBoard ==
    ASSUME IInv, Quiet
    PROVE  /\ \A id \in Id : Chained(Told(id)) /\ Latest(Told(id)).after = Stands(id)
           /\ \A w \in acked : Contains(Read(Told(w.id)), w.event)
<1>1. ~Replaces /\ ~raced /\ ~hurt /\ writer = NoWriter
  BY DEF Quiet, Replaces, Replacing, Restoring
<1>2. Standing
  BY <1>1, BoardSplit DEF IInv
<1> QED
  BY <1>1, <1>2 DEF Standing, Pending

\* The board is sound between commands however many merges and mutations there were, and
\* however merges failed: every task is what its ledger says, chains are whole, and
\* no event of a mutation that succeeded is lost, unless one raced with a merge that
\* replaced the directories, or a merge was stopped then or failed to restore them
\* (apply_plan, replace_paths).
THEOREM BoardsSound == Spec => []BoardSound
<1>1. IInv => BoardSound
  <2> SUFFICES ASSUME IInv, Quiet
               PROVE  /\ Agree(Files(tasks["target"]), ledger["target"])
                      /\ \A id \in DOMAIN Files(ledger["target"]) :
                            /\ Chained(ledger["target"][id])
                            /\ id \notin DOMAIN Files(tasks["target"]) =>
                                  Latest(ledger["target"][id]).after = Gone
                      /\ \A w \in acked : Contains(Read(LedgerOf(ledger["target"], w.id)), w.event)
    BY DEF BoardSound
  <2>1. /\ IsBoard(Files(tasks["target"])) /\ DOMAIN Files(tasks["target"]) \subseteq Id
        /\ DOMAIN Files(ledger["target"]) \subseteq Id
    BY TargetTyped, FilesOfTasks, FilesOfLedgers DEF IInv
  <2>2. Agree(Files(tasks["target"]), ledger["target"])
    BY <2>1, SoundBoard DEF Agree, Told, Stands, At
  <2>3. \A id \in DOMAIN Files(ledger["target"]) : ledger["target"][id] = Told(id)
    BY DEF Told, LedgerOf
  <2>4. \A id : id \notin DOMAIN Files(tasks["target"]) => Stands(id) = Gone
    BY DEF Stands, At
  <2> QED
    BY <2>1, <2>2, <2>3, <2>4, SoundBoard DEF Told
<1> QED
  BY <1>1, MergeInvariant, PTL

\* However often a plan is applied and whatever is done to the board in between, no
\* ledger has an event of it twice: append_prepared refuses a stale chain tip.
THEOREM EventsAppliedOnce == Spec => []AppliedOnce
<1>1. IInv => AppliedOnce
  <2> SUFFICES ASSUME IInv, Quiet, plan # NoPlan, NEW id \in DOMAIN plan.events,
                      NEW i \in DOMAIN Read(LedgerOf(ledger["target"], id)),
                      NEW j \in DOMAIN Read(LedgerOf(ledger["target"], id)),
                      Read(LedgerOf(ledger["target"], id))[i] = plan.events[id],
                      Read(LedgerOf(ledger["target"], id))[j] = plan.events[id]
               PROVE  i = j
    BY DEF AppliedOnce
  <2> DEFINE l == Told(id)
  <2>1. id \in Id
    BY DEF IInv, Types, IsPlan
  <2>2. l \in History /\ Chained(l)
    BY <2>1, SoundBoard, TargetTyped DEF IInv
  <2>3. i \in DOMAIN l /\ j \in DOMAIN l /\ l[i].event = l[j].event
    BY DEF Read, Told
  <2> HIDE DEF l
  <2>4. i \in Nat /\ j \in Nat
    BY <2>2, <2>3 DEF History
  <2>5. ASSUME NEW k \in DOMAIN l PROVE l[k].event.prev.n = k - 1
    <3> DEFINE left == IF k = 1 THEN Gone ELSE l[k - 1].event.after
    <3>1. l[k].event.prev = [n |-> k - 1, after |-> left]
      BY <2>2 DEF Chained
    <3> HIDE DEF left
    <3> QED
      BY <3>1
  <2> QED
    BY <2>3, <2>4, <2>5
<1> QED
  BY <1>1, MergeInvariant, PTL

\* A merge that says it was applied, and that no mutation raced with, has made every
\* mutation of its plan, and the tasks are those that were reviewed.
THEOREM MergesWhole == Spec => AppliedWhole
<1>1. ASSUME IInv, [Next]_vars, pc = "receipt", run'.end = "applied", ~raced'
      PROVE  /\ tasks'["target"] = plan.final
             /\ \A id \in DOMAIN plan.events :
                   Contains(Read(LedgerOf(ledger'["target"], id)), plan.events[id])
  <2>1. run.end = "none"
    BY <1>1 DEF IInv, MergeInv
  <2>2. Receipt
    <3>1. run' # run
      BY <1>1, <2>1
    <3>2. ~Stop /\ ~CopyFails
      <4>1. ASSUME Stop PROVE FALSE
        <5>1. run' = NoteEnd(run, "stopped", <<>>, <<>>)
          BY <4>1 DEF Stop, NoteEnd
        <5> QED
          BY <1>1, <5>1, NoteEndMakes DEF IInv, Types
      <4>2. ~CopyFails
        BY <1>1 DEF CopyFails, Copying
      <4> QED
        BY <4>1, <4>2
    <3> QED
      BY <1>1, <3>1, <3>2 DEF vars, Next, MakePlan, Apply, CopyTasks, CopyLedger, Stage, Check, SaveTasks,
         PutTasks, SaveLedger, PutLedger, Fail, RestoreLedger, RestoreTasks, RestoreFails, RestoreError,
         EditSource, Begin, WriteTask, WriteLedger
  <2>3. ~raced
    BY <1>1, <2>2 DEF Receipt, ghosts
  <2>4. /\ tasks'["target"] = tasks["target"] /\ ledger'["target"] = ledger["target"]
        /\ tasks["target"] = plan.final /\ ledger["target"] = Result /\ Late
    BY <1>1, <2>2, <2>3, EndingKeeps, Finished
  <2>5. ASSUME NEW id \in DOMAIN plan.events
        PROVE  Contains(Read(LedgerOf(Result, id)), plan.events[id])
    <3> DEFINE l == run.before[2]
               e == plan.events[id]
    <3>1. plan # NoPlan /\ IsPlan(plan) /\ (l = Missing \/ IsLedgers(l)) /\ e \in Event
      BY <1>1, <2>4 DEF IInv, Types, Late, IsPlan
    <3>2. /\ IsLedgers(Grown(l)) /\ DOMAIN Grown(l) = DOMAIN plan.events
          /\ Grown(l)[id] = Appended(LedgerOf(l, id), e) /\ IsLedgers(Files(l))
          /\ LedgerOf(l, id) \in History
      BY <3>1, GrownTyped, FilesOfLedgers, LedgerTyped
    <3>3. Result = Over(Grown(l), Files(l))
      BY DEF Result
    <3> HIDE DEF l, e
    <3>4. LedgerOf(Result, id) = Appended(LedgerOf(l, id), e)
      BY <3>2, <3>3, OverLedgerOf DEF IsLedgers
    <3> QED
      BY <3>1, <3>2, <3>4, EventAppended DEF e
  <2> QED
    BY <2>4, <2>5
<1> QED
  BY <1>1, MergeInvariant, PTL DEF Spec, AppliedWhole

\* A merge that fails after its last look, however far it has come, leaves the
\* directories that it found, if no mutation raced with it and its except clause is not
\* stopped and meets no error itself (apply_plan).
THEOREM MergeFailuresRestore == Spec => FailureRestores
<1>1. ASSUME IInv, [Next]_vars, run'.end \in {"failed", "broken"}, pc \in Restoring, run.before # <<>>,
             ~raced'
      PROVE  <<tasks'["target"], ledger'["target"]>> = run.before
  <2>1. run.end = "none" /\ Replaces
    BY <1>1 DEF IInv, MergeInv, Replaces, Replacing, Restoring
  <2>2. RestoreTasks
    <3>1. run' # run
      BY <1>1, <2>1
    <3>2. ~Stop /\ ~RestoreError
      <4>1. ASSUME Stop \/ RestoreError PROVE FALSE
        <5>1. PICK how \in {"stopped", "lost"} : run' = NoteEnd(run, how, <<>>, <<>>)
          BY <4>1 DEF Stop, RestoreError, NoteEnd
        <5>2. IsRun(run)
          BY <1>1 DEF IInv, Types
        <5>3. NoteEnd(run, how, <<>>, <<>>).end = how
          BY <5>2, NoteEndMakes
        <5> QED
          BY <1>1, <5>1, <5>3
      <4> QED
        BY <4>1
    <3>3. ~RestoreFails
      <4>1. RestoreFails => raced
        BY <1>1, RestoreFailsRaced
      <4>2. RestoreFails => raced' = raced
        BY DEF RestoreFails, ghosts
      <4> QED
        BY <1>1, <4>1, <4>2
    <3>4. ~Receipt /\ ~CopyFails
      BY <1>1 DEF Receipt, CopyFails, Copying, Restoring
    <3> QED
      BY <1>1, <3>1, <3>2, <3>3, <3>4 DEF vars, Next, MakePlan, Apply, CopyTasks, CopyLedger, Stage, Check,
         SaveTasks, PutTasks, SaveLedger, PutLedger, Fail, Refused, Trying, Restoring, RestoreLedger,
         EditSource, Begin, WriteTask, WriteLedger
  <2>3. ~raced
    BY <1>1, <2>2, RestoringTasksKeeps
  <2>4. tasks'["target"] = run.before[1] /\ ledger'["target"] = run.before[2]
    BY <1>1, <2>1, <2>2, <2>3, RestoringTasksKeeps
  <2>5. run.before = <<run.before[1], run.before[2]>>
    BY <1>1, <2>1, <2>3, Alone DEF Late
  <2> QED
    BY <2>4, <2>5
<1> QED
  BY <1>1, MergeInvariant, PTL DEF Spec, FailureRestores
=============================================================================
