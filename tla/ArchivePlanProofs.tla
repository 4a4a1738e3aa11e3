-------------------------- MODULE ArchivePlanProofs --------------------------
(***************************************************************************)
(* Whatever is edited, committed and reserved between a plan and its       *)
(* application, what is archived is old enough, needs nothing and is what  *)
(* people saw; and no archived ID is given away.                           *)
(***************************************************************************)
EXTENDS ArchivePlan, FiniteSetTheorems, SequenceTheorems, WellFoundedInduction, TLAPS

(***************************************************************************)
(* Minima.                                                                 *)
(***************************************************************************)

\* Of the finite sets with a property, one is the smallest.
LEMMA SmallestSet ==
    ASSUME NEW T, IsFiniteSet(T), NEW F \in SUBSET (SUBSET T), F # {}
    PROVE  \E A \in F : \A B \in F : B \subseteq A => B = A
<1>1. IsWellFoundedOn(StrictSubsetOrdering(T), SUBSET T)
  BY FS_StrictSubsetOrderingWellFounded, FS_FiniteSubsetsOfFinite
<1>2. PICK A \in F : \A B \in F : <<B, A>> \notin StrictSubsetOrdering(T)
  BY <1>1, WFMin
<1> QED
  BY <1>2 DEF StrictSubsetOrdering

LEMMA LeastNumber ==
    ASSUME NEW S \in SUBSET Nat, S # {}
    PROVE  \E m \in S : \A k \in S : m <= k
<1>1. PICK n \in S : TRUE
  OBVIOUS
<1> DEFINE N == 0..n
           F == {0..m : m \in S \cap N}
<1>2. n \in S \cap N /\ \A m \in S \cap N : 0..m \subseteq N
  BY <1>1
<1>3. PICK A \in F : \A B \in F : B \subseteq A => B = A
  <2>1. F \in SUBSET (SUBSET N)
    BY <1>2
  <2>2. F # {}
    BY <1>2
  <2>3. IsFiniteSet(N)
    BY <1>1, FS_Interval
  <2> HIDE DEF F, N
  <2> QED
    BY <2>1, <2>2, <2>3, SmallestSet
<1>4. PICK m \in S \cap (0..n) : A = 0..m
  OBVIOUS
<1>5. ASSUME NEW k \in S, ~(m <= k) PROVE FALSE
  <2>1. k \in S \cap (0..n) /\ 0..k \subseteq 0..m /\ m \in 0..m /\ m \notin 0..k
    BY <1>4, <1>5
  <2>2. 0..k \in F
    BY <2>1
  <2> QED
    BY <1>3, <1>4, <2>1, <2>2
<1> QED
  BY <1>4, <1>5

LEMMA NumberInduction ==
    ASSUME NEW Good, 0 \in Good, \A k \in Nat : k \in Good => k + 1 \in Good
    PROVE  Nat \subseteq Good
<1> DEFINE Bad == Nat \ Good
<1>1. SUFFICES ASSUME Bad # {} PROVE FALSE
  OBVIOUS
<1>2. PICK m \in Bad : \A k \in Bad : m <= k
  BY <1>1, LeastNumber
<1>3. m - 1 \in Nat /\ m - 1 \in Good /\ m - 1 + 1 = m
  BY <1>2
<1> QED
  BY <1>3

LEMMA SubsetInduction ==
    ASSUME NEW T, IsFiniteSet(T), NEW Good,
           \A S \in SUBSET T : (\A R \in SUBSET S : R # S => R \in Good) => S \in Good
    PROVE  SUBSET T \subseteq Good
<1> DEFINE Bad == (SUBSET T) \ Good
<1>1. SUFFICES ASSUME Bad # {} PROVE FALSE
  OBVIOUS
<1>2. PICK S \in Bad : \A R \in Bad : R \subseteq S => R = S
  <2>1. Bad \in SUBSET (SUBSET T)
    OBVIOUS
  <2> HIDE DEF Bad
  <2> QED
    BY <1>1, <2>1, SmallestSet
<1> QED
  BY <1>2

\* The minimum of two numbers.
LEMMA Lower ==
    ASSUME NEW i \in Nat, NEW j \in Nat
    PROVE  Min({i, j}) \in {i, j} /\ Min({i, j}) <= i /\ Min({i, j}) <= j
<1>1. \E m \in {i, j} : \A k \in {i, j} : m <= k
  BY LeastNumber
<1> QED
  BY <1>1 DEF Min

(***************************************************************************)
(* The bytes of a batch.                                                   *)
(***************************************************************************)

Weight(B, batch) ==
    IF batch = {} THEN 0
    ELSE LET t == CHOOSE t \in batch : TRUE IN Size[t] + B[batch \ {t}]

LEMMA BytesExist == Bytes = [batch \in SUBSET Task |-> Weight(Bytes, batch)]
<1> DEFINE Small(k) == {S \in SUBSET Task : Cardinality(S) <= k}
           Good(k) == \E B : B = [S \in Small(k) |-> Weight(B, S)]
<1>1. ASSUME NEW S \in SUBSET Task
      PROVE  /\ Cardinality(S) \in Nat /\ (Cardinality(S) = 0 <=> S = {})
             /\ \A t \in S : Cardinality(S \ {t}) = Cardinality(S) - 1
  BY TaskAssumption, FS_Subset, FS_CardinalityType, FS_EmptySet, FS_RemoveElement
<1>2. Good(0)
  <2>1. \A S \in Small(0) : S = {}
    BY <1>1
  <2>2. [S \in Small(0) |-> 0] = [S \in Small(0) |-> Weight([R \in Small(0) |-> 0], S)]
    BY <2>1 DEF Weight
  <2> QED
    BY <2>2
<1>3. ASSUME NEW k \in Nat, Good(k) PROVE Good(k + 1)
  <2>1. PICK B : B = [S \in Small(k) |-> Weight(B, S)]
    BY <1>3
  <2> DEFINE C == [S \in Small(k + 1) |-> Weight(B, S)]
  <2>2. Small(k) \subseteq Small(k + 1)
    BY <1>1
  <2>3. \A S \in Small(k) : C[S] = B[S]
    BY <2>1, <2>2
  <2>4. ASSUME NEW S \in Small(k + 1) PROVE Weight(C, S) = Weight(B, S)
    <3>1. \A t \in S : S \ {t} \in Small(k)
      BY <1>1
    <3> DEFINE c == CHOOSE c \in S : TRUE
    <3>2. S # {} => C[S \ {c}] = B[S \ {c}]
      <4> HIDE DEF C, Small
      <4>1. S # {} => c \in S
        OBVIOUS
      <4> QED
        BY <2>3, <3>1, <4>1
    <3> HIDE DEF C
    <3> QED
      BY <3>2 DEF Weight
  <2>5. C = [S \in Small(k + 1) |-> Weight(C, S)]
    BY <2>4
  <2> QED
    BY <2>5
<1>4. \A k \in Nat : Good(k)
  <2> HIDE DEF Good
  <2> DEFINE G == {k \in Nat : Good(k)}
  <2>1. 0 \in G /\ \A k \in Nat : k \in G => k + 1 \in G
    BY <1>2, <1>3
  <2> QED
    BY <2>1, NumberInduction
<1>5. Cardinality(Task) \in Nat /\ Small(Cardinality(Task)) = SUBSET Task
  BY TaskAssumption, FS_Subset, FS_CardinalityType
<1>6. \E B : B = [S \in SUBSET Task |-> Weight(B, S)]
  BY <1>4, <1>5
<1> QED
  BY <1>6 DEF Bytes, Weight

\* It does not matter which record is counted first.
LEMMA BytesAdd ==
    ASSUME NEW batch \in SUBSET Task, NEW t \in batch
    PROVE  Bytes[batch \ {t}] \in Nat /\ Bytes[batch] = Size[t] + Bytes[batch \ {t}]
<1> DEFINE Adds(S) == Bytes[S] \in Nat /\ \A u \in S : Bytes[S] = Size[u] + Bytes[S \ {u}]
<1>1. ASSUME NEW S \in SUBSET Task, \A R \in SUBSET S : R # S => Adds(R) PROVE Adds(S)
  <2>1. CASE S = {}
    BY <2>1, BytesExist DEF Weight
  <2>2. CASE S # {}
    <3> DEFINE c == CHOOSE c \in S : TRUE
    <3>1. c \in S /\ c \in Task
      BY <2>2
    <3>2. Bytes[S] = Size[c] + Bytes[S \ {c}]
      BY <2>2, BytesExist DEF Weight
    <3> HIDE DEF c
    <3>3. Bytes[S] \in Nat
      BY <1>1, <3>1, <3>2, FunctionsAssumption
    <3>4. ASSUME NEW u \in S PROVE Bytes[S] = Size[u] + Bytes[S \ {u}]
      <4>1. CASE u = c
        BY <3>2, <4>1
      <4>2. CASE u # c
        <5>1. u \in S \ {c} /\ c \in S \ {u} /\ (S \ {c}) \ {u} = (S \ {u}) \ {c}
          BY <3>1, <4>2
        <5>2. Bytes[S \ {c}] = Size[u] + Bytes[(S \ {u}) \ {c}]
          BY <1>1, <3>1, <5>1
        <5>3. Bytes[S \ {u}] = Size[c] + Bytes[(S \ {u}) \ {c}] /\ Bytes[S \ {u}] \in Nat
          BY <1>1, <5>1
        <5>4. Size[u] \in Nat /\ Size[c] \in Nat
          BY <3>1, FunctionsAssumption
        <5>5. Bytes[(S \ {u}) \ {c}] \in Nat
          BY <1>1, <5>1
        <5> QED
          BY <3>2, <5>1, <5>2, <5>3, <5>4, <5>5
      <4> QED
        BY <4>1, <4>2
    <3> QED
      BY <3>3, <3>4
  <2> QED
    BY <2>1, <2>2
<1>2. \A S \in SUBSET Task : Adds(S)
  <2> HIDE DEF Adds
  <2> DEFINE G == {S \in SUBSET Task : Adds(S)}
  <2>1. \A S \in SUBSET Task : (\A R \in SUBSET S : R # S => R \in G) => S \in G
    BY <1>1
  <2>2. IsFiniteSet(Task)
    BY TaskAssumption
  <2>3. SUBSET Task \subseteq G
    <3> HIDE DEF G
    <3> QED
      BY <2>1, <2>2, SubsetInduction
  <2> QED
    BY <2>3
<1>3. Adds(batch) /\ Adds(batch \ {t})
  BY <1>2
<1> QED
  BY <1>3

\* A part of a batch is no greater than the batch.
LEMMA BytesOfPart ==
    ASSUME NEW batch \in SUBSET Task, NEW part \in SUBSET batch
    PROVE  Bytes[part] \in Nat /\ Bytes[batch] \in Nat /\ Bytes[part] <= Bytes[batch]
<1> DEFINE Above(S) == part \subseteq S => Bytes[part] <= Bytes[S]
<1>1. \A S \in SUBSET Task : Bytes[S] \in Nat
  <2>1. ASSUME NEW S \in SUBSET Task PROVE Bytes[S] \in Nat
    <3>1. CASE S = {}
      BY <3>1, BytesExist DEF Weight
    <3>2. CASE S # {}
      <4>1. PICK t \in S : TRUE
        BY <3>2
      <4>2. t \in Task
        OBVIOUS
      <4>3. Size[t] \in Nat
        BY <4>2, FunctionsAssumption
      <4>4. Bytes[S \ {t}] \in Nat /\ Bytes[S] = Size[t] + Bytes[S \ {t}]
        BY <4>1, BytesAdd
      <4> QED
        BY <4>3, <4>4
    <3> QED
      BY <3>1, <3>2
  <2> QED
    BY <2>1
<1>2. ASSUME NEW S \in SUBSET Task, \A R \in SUBSET S : R # S => Above(R) PROVE Above(S)
  <2>1. SUFFICES ASSUME part \subseteq S, S # part PROVE Bytes[part] <= Bytes[S]
    BY <1>1
  <2>2. PICK t \in S : t \notin part
    BY <2>1
  <2>3. Bytes[part] <= Bytes[S \ {t}]
    BY <1>2, <2>1, <2>2
  <2>4. Bytes[S] = Size[t] + Bytes[S \ {t}]
    BY <2>2, BytesAdd
  <2>5. t \in Task /\ Size[t] \in Nat /\ S \ {t} \in SUBSET Task /\ part \in SUBSET Task
    BY FunctionsAssumption
  <2> QED
    BY <1>1, <2>3, <2>4, <2>5
<1>3. Above(batch)
  <2> HIDE DEF Above
  <2> DEFINE G == {S \in SUBSET Task : Above(S)}
  <2>1. \A S \in SUBSET Task : (\A R \in SUBSET S : R # S => R \in G) => S \in G
    BY <1>2
  <2>2. IsFiniteSet(Task)
    BY TaskAssumption
  <2>3. SUBSET Task \subseteq G
    <3> HIDE DEF G
    <3> QED
      BY <2>1, <2>2, SubsetInduction
  <2> QED
    BY <2>3
<1> QED
  BY <1>1, <1>3

(***************************************************************************)
(* The batches.                                                            *)
(***************************************************************************)

\* The batch that the i-th task is put into, up to that task.
Filled(current, ids, policy, i) ==
    IF i > 1 /\ Room(current[i - 1], ids[i], policy)
    THEN current[i - 1] \cup {ids[i]} ELSE {ids[i]}

Full(current, ids, policy, n, i) == i = n \/ ~Room(current[i], ids[i + 1], policy)

LEMMA FillingExists ==
    ASSUME NEW n \in Nat, NEW ids, NEW policy
    PROVE  \E current : current = [i \in 1..n |-> Filled(current, ids, policy, i)]
<1> DEFINE Good(k) == \E c : c = [i \in 1..k |-> Filled(c, ids, policy, i)]
<1>1. Good(0)
  <2>1. \A c : [i \in 1..0 |-> Filled(c, ids, policy, i)] = [i \in 1..0 |-> {}]
    OBVIOUS
  <2> QED
    BY <2>1
<1>2. ASSUME NEW k \in Nat, Good(k) PROVE Good(k + 1)
  <2>1. PICK c : c = [i \in 1..k |-> Filled(c, ids, policy, i)]
    BY <1>2
  <2> DEFINE d == [i \in 1..k + 1 |-> Filled(c, ids, policy, i)]
  <2>2. \A i \in 1..k : d[i] = c[i]
    BY <2>1
  <2>3. ASSUME NEW i \in 1..k + 1 PROVE Filled(d, ids, policy, i) = Filled(c, ids, policy, i)
    <3>1. i > 1 => i - 1 \in 1..k
      OBVIOUS
    <3> HIDE DEF d
    <3> QED
      BY <2>2, <3>1 DEF Filled
  <2>4. d = [i \in 1..k + 1 |-> Filled(d, ids, policy, i)]
    BY <2>3
  <2> QED
    BY <2>4
<1> HIDE DEF Good
<1> DEFINE G == {k \in Nat : Good(k)}
<1>3. 0 \in G /\ \A k \in Nat : k \in G => k + 1 \in G
  BY <1>1, <1>2
<1>4. Good(n)
  BY <1>3, NumberInduction
<1> QED
  BY <1>4 DEF Good

Filling(current, ids, policy, n) ==
    /\ \A i \in 1..n : current[i] = Filled(current, ids, policy, i)
    /\ Batches(ids, policy) = {current[i] : i \in {j \in 1..n : Full(current, ids, policy, n, j)}}

LEMMA BatchesAre ==
    ASSUME NEW n \in Nat, NEW S, NEW ids \in [1..n -> S], NEW policy
    PROVE  \E current : Filling(current, ids, policy, n)
<1> DEFINE c == CHOOSE c : c = [i \in 1..n |-> Filled(c, ids, policy, i)]
<1>1. c = [i \in 1..n |-> Filled(c, ids, policy, i)]
  BY FillingExists
<1>2. DOMAIN ids = 1..n /\ Len(ids) = n
  <2>1. ids \in Seq(S)
    BY SeqDef
  <2> QED
    BY <2>1
<1>3. Batches(ids, policy) = {c[i] : i \in {j \in 1..n : Full(c, ids, policy, n, j)}}
  BY <1>2 DEF Batches, Filled, Full
<1>4. \A i \in 1..n : c[i] = Filled(c, ids, policy, i)
  BY <1>1
<1> HIDE DEF c
<1> QED
  BY <1>3, <1>4 DEF Filling

\* What a policy asks of a batch.
Fits(batch, policy) ==
    /\ batch # {} /\ batch \subseteq Task /\ Cardinality(batch) <= policy.maxTasks
    /\ Cardinality(batch) > 1 =>
          Bytes[batch] <= policy.target /\ \A t \in batch : Size[t] <= policy.hardMax

LEMMA AloneFits ==
    ASSUME NEW policy \in Policies, NEW t \in Task
    PROVE  Fits({t}, policy)
<1>1. Cardinality({t}) = 1
  BY FS_Singleton
<1>2. policy.maxTasks \in Nat \ {0}
  BY PolicyAssumption
<1> QED
  BY <1>1, <1>2 DEF Fits

LEMMA RoomFits ==
    ASSUME NEW policy \in Policies, NEW batch \in SUBSET Task, NEW t \in Task,
           Room(batch, t, policy)
    PROVE  Fits(batch \cup {t}, policy)
<1>1. IsFiniteSet(batch) /\ Cardinality(batch) \in Nat
  BY TaskAssumption, FS_Subset, FS_CardinalityType
<1>2. Cardinality(batch \cup {t}) <= Cardinality(batch) + 1
  <2>1. Cardinality(batch \cup {t}) = IF t \in batch THEN Cardinality(batch) ELSE Cardinality(batch) + 1
    BY <1>1, FS_AddElement
  <2> QED
    BY <1>1, <2>1
<1>3. policy.maxTasks \in Nat \ {0}
  BY PolicyAssumption
<1>4. Cardinality(batch \cup {t}) \in Nat
  BY <1>1, FS_AddElement, FS_CardinalityType
<1> QED
  BY <1>1, <1>2, <1>3, <1>4 DEF Room, Fits

\* However the tasks are ordered, each is in a batch, and the batches fit.
LEMMA BatchesFit ==
    ASSUME NEW policy \in Policies, NEW n \in Nat, NEW S \in SUBSET Task, NEW ids \in [1..n -> S]
    PROVE  /\ \A batch \in Batches(ids, policy) : Fits(batch, policy)
           /\ UNION Batches(ids, policy) = Range(ids)
<1>1. PICK c : Filling(c, ids, policy, n)
  BY BatchesAre
<1> DEFINE Good(i) == Fits(c[i], policy) /\ ids[i] \in c[i] /\ c[i] \subseteq Range(ids)
<1>2. \A i \in 1..n : ids[i] \in Range(ids) /\ ids[i] \in Task
  BY DEF Range
<1>3. ASSUME NEW i \in 1..n, i > 1 => Good(i - 1) PROVE Good(i)
  <2>1. c[i] = Filled(c, ids, policy, i)
    BY <1>1 DEF Filling
  <2>2. CASE i > 1 /\ Room(c[i - 1], ids[i], policy)
    <3>1. c[i] = c[i - 1] \cup {ids[i]} /\ c[i - 1] \in SUBSET Task
      BY <1>3, <2>1, <2>2 DEF Filled, Fits
    <3>2. Fits(c[i], policy)
      BY <1>2, <2>2, <3>1, RoomFits
    <3> QED
      BY <1>2, <1>3, <2>2, <3>1, <3>2
  <2>3. CASE ~(i > 1 /\ Room(c[i - 1], ids[i], policy))
    BY <1>2, <2>1, <2>3, AloneFits DEF Filled
  <2> QED
    BY <2>2, <2>3
<1>4. \A i \in 1..n : Good(i)
  <2> HIDE DEF Good
  <2> DEFINE G == {i \in Nat : i \in 1..n => Good(i)}
  <2>1. 0 \in G /\ \A k \in Nat : k \in G => k + 1 \in G
    <3>1. ASSUME NEW k \in Nat, k \in G, k + 1 \in 1..n PROVE Good(k + 1)
      <4>1. k + 1 > 1 => Good(k + 1 - 1)
        BY <3>1
      <4> QED
        BY <1>3, <3>1, <4>1
    <3> QED
      BY <3>1
  <2>2. Nat \subseteq G
    <3> HIDE DEF G
    <3> QED
      BY <2>1, NumberInduction
  <2> QED
    BY <2>2
<1>5. ASSUME NEW i \in 1..n PROVE ids[i] \in UNION Batches(ids, policy)
  <2> DEFINE Ends == {j \in i..n : Full(c, ids, policy, n, j)}
  <2>1. Ends \in SUBSET Nat /\ n \in Ends
    BY DEF Full
  <2>2. PICK e \in Ends : \A j \in Ends : e <= j
    <3> HIDE DEF Ends
    <3> QED
      BY <2>1, LeastNumber
  <2>3. \A j \in i..n : j < e => ~Full(c, ids, policy, n, j)
    BY <2>2
  <2> DEFINE G == {k \in Nat : i + k <= e => ids[i] \in c[i + k]}
  <2>4. 0 \in G
    BY <1>4
  <2>5. ASSUME NEW k \in Nat, k \in G, i + (k + 1) <= e PROVE ids[i] \in c[i + (k + 1)]
    <3> DEFINE j == i + k
    <3>1. j \in i..n /\ j < e /\ j + 1 \in 1..n /\ ids[i] \in c[j] /\ i + (k + 1) = j + 1
      BY <2>2, <2>5
    <3> HIDE DEF j
    <3>2. j \in Int /\ j + 1 > 1 /\ j + 1 - 1 = j
      BY <3>1
    <3>3. Room(c[j], ids[j + 1], policy)
      BY <2>3, <3>1 DEF Full
    <3>4. c[j + 1] = Filled(c, ids, policy, j + 1)
      BY <1>1, <3>1 DEF Filling
    <3>5. c[j + 1] = c[j] \cup {ids[j + 1]}
      <4>1. Room(c[j + 1 - 1], ids[j + 1], policy)
        BY <3>2, <3>3
      <4>2. c[j + 1] = c[j + 1 - 1] \cup {ids[j + 1]}
        BY <3>2, <3>4, <4>1 DEF Filled
      <4> QED
        BY <3>2, <4>2
    <3> QED
      BY <3>1, <3>5
  <2>6. Nat \subseteq G
    <3>1. \A k \in Nat : k \in G => k + 1 \in G
      BY <2>5
    <3> HIDE DEF G
    <3> QED
      BY <2>4, <3>1, NumberInduction
  <2>7. ids[i] \in c[e] /\ e \in 1..n /\ Full(c, ids, policy, n, e)
    <3>1. e - i \in Nat /\ e \in 1..n
      BY <2>2
    <3>2. e - i \in G /\ i + (e - i) = e
      BY <2>6, <3>1
    <3> QED
      BY <3>1, <3>2
  <2> QED
    BY <1>1, <2>7 DEF Filling
<1>6. UNION Batches(ids, policy) \subseteq Range(ids)
  BY <1>1, <1>4 DEF Filling
<1>7. Range(ids) \subseteq UNION Batches(ids, policy)
  BY <1>5 DEF Range
<1> QED
  BY <1>1, <1>4, <1>6, <1>7 DEF Filling

\* One of the tasks of a batch is the last by ID.
LEMMA LastID ==
    ASSUME NEW batch \in SUBSET Task, batch # {}
    PROVE  \E m \in batch : \A t \in batch : t <= m
<1> DEFINE HasLast(S) == S # {} => \E m \in S : \A t \in S : t <= m
<1>1. ASSUME NEW S \in SUBSET Task, \A R \in SUBSET S : R # S => HasLast(R) PROVE HasLast(S)
  <2>1. SUFFICES ASSUME S # {} PROVE \E m \in S : \A t \in S : t <= m
    OBVIOUS
  <2>2. PICK u \in S : u \in Int
    BY <2>1, TaskAssumption
  <2>3. CASE S = {u}
    BY <2>2, <2>3
  <2>4. CASE S # {u}
    <3>1. PICK m \in S \ {u} : \A t \in S \ {u} : t <= m
      BY <1>1, <2>2, <2>4
    <3>2. m \in Int
      BY TaskAssumption
    <3>3. CASE u <= m
      BY <3>1, <3>3
    <3>4. CASE m < u
      <4>1. \A t \in S : t \in Int
        BY TaskAssumption
      <4> QED
        BY <2>2, <3>1, <3>2, <3>4, <4>1
    <3> QED
      BY <2>2, <3>2, <3>3, <3>4
  <2> QED
    BY <2>3, <2>4
<1>2. HasLast(batch)
  <2> HIDE DEF HasLast
  <2> DEFINE G == {S \in SUBSET Task : HasLast(S)}
  <2>1. \A S \in SUBSET Task : (\A R \in SUBSET S : R # S => R \in G) => S \in G
    BY <1>1
  <2>2. IsFiniteSet(Task)
    BY TaskAssumption
  <2>3. SUBSET Task \subseteq G
    <3> HIDE DEF G
    <3> QED
      BY <2>1, <2>2, SubsetInduction
  <2> QED
    BY <2>3
<1> QED
  BY <1>2

Increasing(ids) == \A i, j \in DOMAIN ids : i < j => ids[i] < ids[j]

\* The tasks of a batch can be sorted by ID.
LEMMA SortedExists ==
    ASSUME NEW batch \in SUBSET Task
    PROVE  \E ids \in [1..Cardinality(batch) -> batch] : Increasing(ids)
<1> DEFINE Good(S) == \E ids \in [1..Cardinality(S) -> S] : Increasing(ids)
<1>1. ASSUME NEW S \in SUBSET Task, \A R \in SUBSET S : R # S => Good(R) PROVE Good(S)
  <2>1. IsFiniteSet(S) /\ Cardinality(S) \in Nat
    BY TaskAssumption, FS_Subset, FS_CardinalityType
  <2>2. CASE S = {}
    <3>1. Cardinality(S) = 0
      BY <2>2, FS_EmptySet
    <3> DEFINE none == [i \in 1..0 |-> 0]
    <3>2. none \in [1..0 -> S] /\ Increasing(none)
      BY <2>2 DEF Increasing
    <3> QED
      BY <3>1, <3>2
  <2>3. CASE S # {}
    <3>1. PICK m \in S : \A t \in S : t <= m
      BY <2>1, <2>3, LastID
    <3> DEFINE R == S \ {m}
               n == Cardinality(S)
    <3>2. Cardinality(R) = n - 1 /\ n - 1 \in Nat
      <4>1. IsFiniteSet(R) /\ Cardinality(R) = n - 1
        BY <2>1, FS_RemoveElement
      <4> QED
        BY <4>1, FS_CardinalityType
    <3>3. PICK ids \in [1..n - 1 -> R] : Increasing(ids)
      <4>1. Good(R)
        BY <1>1
      <4> QED
        BY <3>2, <4>1
    <3> HIDE DEF n
    <3> DEFINE more == [i \in 1..n |-> IF i = n THEN m ELSE ids[i]]
    <3>4. \A i \in 1..n : i = n \/ i \in 1..n - 1
      BY <2>1 DEF n
    <3>5. n \in 1..n /\ 1..n - 1 \subseteq 1..n /\ \A i \in 1..n - 1 : i # n /\ i \in 1..n
      BY <2>1, <3>2 DEF n
    <3>6. more \in [1..n -> S] /\ \A i \in 1..n - 1 : more[i] = ids[i]
      BY <3>4, <3>5
    <3>7. more[n] = m
      BY <3>5
    <3> HIDE DEF more
    <3>8. Increasing(more)
      <4> SUFFICES ASSUME NEW i \in 1..n, NEW j \in 1..n, i < j PROVE more[i] < more[j]
        BY <3>6 DEF Increasing
      <4>1. i \in 1..n - 1
        BY <2>1 DEF n
      <4>2. more[i] = ids[i] /\ ids[i] \in R
        BY <3>3, <3>6, <4>1
      <4>3. CASE j = n
        <5>1. ids[i] # m /\ ids[i] <= m /\ ids[i] \in Int /\ m \in Int
          BY <3>1, <4>2, TaskAssumption
        <5> QED
          BY <3>7, <4>2, <4>3, <5>1
      <4>4. CASE j # n
        <5>1. j \in 1..n - 1
          BY <3>4, <4>4
        <5> QED
          BY <3>3, <3>6, <4>1, <5>1 DEF Increasing
      <4> QED
        BY <4>3, <4>4
    <3> QED
      BY <3>6, <3>8 DEF n
  <2> QED
    BY <2>2, <2>3
<1>2. Good(batch)
  <2> HIDE DEF Good
  <2> DEFINE G == {S \in SUBSET Task : Good(S)}
  <2>1. \A S \in SUBSET Task : (\A R \in SUBSET S : R # S => R \in G) => S \in G
    BY <1>1
  <2>2. IsFiniteSet(Task)
    BY TaskAssumption
  <2>3. SUBSET Task \subseteq G
    <3> HIDE DEF G
    <3> QED
      BY <2>1, <2>2, SubsetInduction
  <2> QED
    BY <2>3
<1> QED
  BY <1>2

\* Sorting loses nothing and repeats nothing.
LEMMA SortedBatch ==
    ASSUME NEW batch \in SUBSET Task
    PROVE  /\ Cardinality(batch) \in Nat
           /\ Sorted(batch) \in [1..Cardinality(batch) -> batch]
           /\ \A i, j \in 1..Cardinality(batch) : Sorted(batch)[i] = Sorted(batch)[j] => i = j
           /\ Range(Sorted(batch)) = batch
<1> DEFINE n == Cardinality(batch)
           ids == Sorted(batch)
<1>1. IsFiniteSet(batch) /\ n \in Nat
  BY TaskAssumption, FS_Subset, FS_CardinalityType
<1>2. ids \in [1..n -> batch] /\ Increasing(ids)
  <2>1. \E s \in [1..n -> batch] : Increasing(s)
    BY SortedExists
  <2> QED
    BY <2>1 DEF Sorted, Increasing
<1> HIDE DEF ids
<1>3. ASSUME NEW i \in 1..n, NEW j \in 1..n, ids[i] = ids[j] PROVE i = j
  <2>1. ids[i] \in Int /\ ~(ids[i] < ids[j]) /\ ~(ids[j] < ids[i])
    <3>1. ids[i] \in batch
      BY <1>2
    <3>2. ids[i] \in Int
      BY <3>1, TaskAssumption
    <3> QED
      BY <1>3, <3>2
  <2>2. ~(i < j) /\ ~(j < i)
    BY <1>2, <2>1 DEF Increasing
  <2> QED
    BY <1>1, <2>2
<1>4. Range(ids) = batch
  <2>1. ids \in Injection(1..n, batch)
    BY <1>2, <1>3 DEF Injection, IsInjective
  <2>2. ids \in Surjection(1..n, batch)
    <3>1. IsFiniteSet(1..n) /\ Cardinality(1..n) = n
      BY <1>1, FS_Interval
    <3> QED
      BY <1>1, <2>1, <3>1, FS_Injection
  <2> QED
    BY <2>2 DEF Surjection, Range
<1> QED
  BY <1>1, <1>2, <1>3, <1>4 DEF ids

\* A batch that fits is not split again, in whatever order it is packed.
LEMMA SplitAgain ==
    ASSUME NEW policy \in Policies, NEW batch \in SUBSET Task, Fits(batch, policy)
    PROVE  Batches(Sorted(batch), policy) = {batch}
<1> DEFINE n == Cardinality(batch)
           ids == Sorted(batch)
<1>1. /\ n \in Nat /\ ids \in [1..n -> batch] /\ Range(ids) = batch
      /\ \A i, j \in 1..n : ids[i] = ids[j] => i = j
  BY SortedBatch
<1> HIDE DEF n, ids
<1>2. n # 0 /\ IsFiniteSet(batch)
  BY TaskAssumption, FS_Subset, FS_EmptySet DEF Fits, n
<1>3. PICK c : Filling(c, ids, policy, n)
  <2>1. \E c : Filling(c, ids, policy, n)
    BY <1>1, BatchesAre
  <2> QED
    BY <2>1
<1> DEFINE Upto(i) == {ids[k] : k \in 1..i}
<1>4. ASSUME NEW i \in 1..n, i # n PROVE Room(Upto(i), ids[i + 1], policy)
  <2>1. i + 1 \in 1..n /\ 1..i \subseteq 1..n /\ i + 1 \notin 1..i /\ n > 1
    BY <1>1, <1>4
  <2>2. Upto(i) \in SUBSET batch /\ ids[i + 1] \in batch /\ ids[i + 1] \notin Upto(i)
    BY <1>1, <2>1
  <2> HIDE DEF Upto
  <2>3. Cardinality(Upto(i)) \in Nat /\ Cardinality(Upto(i)) < n
    <3>1. IsFiniteSet(Upto(i)) /\ Cardinality(Upto(i)) <= n /\ Cardinality(Upto(i)) # n
      BY <1>2, <2>2, FS_Subset DEF n
    <3> QED
      BY <1>1, <3>1, FS_CardinalityType
  <2>4. Cardinality(Upto(i)) < policy.maxTasks
    <3>1. n <= policy.maxTasks /\ policy.maxTasks \in Nat
      BY PolicyAssumption DEF Fits, n
    <3> QED
      BY <1>1, <2>3, <3>1
  <2>5. Bytes[Upto(i) \cup {ids[i + 1]}] <= policy.target
    <3>1. Upto(i) \cup {ids[i + 1]} \in SUBSET batch
      BY <2>2
    <3>2. /\ Bytes[Upto(i) \cup {ids[i + 1]}] \in Nat /\ Bytes[batch] \in Nat
          /\ Bytes[Upto(i) \cup {ids[i + 1]}] <= Bytes[batch]
      BY <3>1, BytesOfPart
    <3>3. Bytes[batch] <= policy.target /\ policy.target \in Nat
      BY <2>1, PolicyAssumption DEF Fits, n
    <3> QED
      BY <3>2, <3>3
  <2>6. \A t \in batch : Size[t] <= policy.hardMax
    BY <2>1 DEF Fits, n
  <2> QED
    BY <2>2, <2>4, <2>5, <2>6 DEF Room
<1>5. \A i \in 1..n : c[i] = Upto(i)
  <2> DEFINE G == {i \in Nat : i \in 1..n => c[i] = Upto(i)}
  <2>1. 0 \in G
    OBVIOUS
  <2>2. ASSUME NEW i \in Nat, i \in G, i + 1 \in 1..n PROVE c[i + 1] = Upto(i + 1)
    <3>1. c[i + 1] = Filled(c, ids, policy, i + 1)
      BY <1>3, <2>2 DEF Filling
    <3>2. CASE i = 0
      <4>1. c[i + 1] = {ids[1]} /\ Upto(i + 1) = {ids[1]}
        BY <3>1, <3>2 DEF Filled
      <4> QED
        BY <4>1
    <3>3. CASE i # 0
      <4>1. i \in 1..n /\ i # n /\ i + 1 > 1 /\ i + 1 - 1 = i
        BY <1>1, <2>2, <3>3
      <4>2. c[i] = Upto(i) /\ Room(c[i], ids[i + 1], policy)
        BY <1>4, <2>2, <4>1
      <4>3. c[i + 1] = c[i] \cup {ids[i + 1]}
        <5> HIDE DEF Upto, G
        <5>1. Room(c[i + 1 - 1], ids[i + 1], policy)
          BY <4>1, <4>2
        <5>2. c[i + 1] = c[i + 1 - 1] \cup {ids[i + 1]}
          BY <3>1, <4>1, <5>1 DEF Filled
        <5> QED
          BY <4>1, <5>2
      <4>4. 1..i + 1 = (1..i) \cup {i + 1}
        BY <4>1
      <4>5. Upto(i + 1) = Upto(i) \cup {ids[i + 1]}
        BY <4>4
      <4> QED
        BY <4>2, <4>3, <4>5
    <3> QED
      BY <3>2, <3>3
  <2>3. \A i \in Nat : i \in G => i + 1 \in G
    BY <2>2
  <2>4. Nat \subseteq G
    <3> HIDE DEF G
    <3> QED
      BY <2>1, <2>3, NumberInduction
  <2> QED
    BY <2>4
<1>6. n \in 1..n /\ c[n] = batch
  <2>1. n \in 1..n
    BY <1>1, <1>2
  <2>2. Upto(n) = batch
    BY <1>1 DEF Range
  <2> QED
    BY <1>5, <2>1, <2>2
<1>7. \A i \in 1..n : Full(c, ids, policy, n, i) <=> i = n
  BY <1>4, <1>5 DEF Full
<1>8. Batches(ids, policy) = {c[n]}
  BY <1>3, <1>6, <1>7 DEF Filling
<1> QED
  BY <1>6, <1>8 DEF ids

(***************************************************************************)
(* The inductive invariant.                                                *)
(***************************************************************************)

Entries == [op : {"create", "update", "reconcile", "recovery"}, status : Status, at : Nat]

\* The ledger l says that a task became what it is with its i-th event.
Began(l, i) ==
    /\ i > 1 => l[i - 1].status # l[i].status
    /\ \A j \in i..Len(l) : l[j].status = l[i].status

BeganAt(l, at) == \E i \in 1..Len(l) : Began(l, i) /\ l[i].at = at

\* A ledger is that of a file, and says since when.
FilesSound(f) ==
    \A t \in Task : f.ledger[t] # <<>> => f.tasks[t] # Gone /\ BeganAt(f.ledger[t], f.since[t])

\* So in the work tree and in HEAD, and what HEAD has a ledger of is not forgotten.
SinceKnown ==
    /\ FilesSound(Files) /\ FilesSound(committed)
    /\ \A t \in Task : committed.ledger[t] # <<>> => ledger[t] # <<>>

\* A plan was right when it was made.
PlanSound ==
    /\ plan.policy \in Policies /\ Selected \subseteq Task
    /\ plan.head \in Nat /\ plan.head <= head
    /\ \A t \in Selected :
          /\ plan.items[t].status \in Terminal /\ plan.items[t].at + Older <= plan.made
          /\ plan.items[t].ledger \in Seq(Entries) /\ plan.items[t].ledger # <<>>
          /\ BeganAt(plan.items[t].ledger, plan.items[t].at)
    /\ Selected \cap (plan.reserved \cup plan.cold) = {}
    /\ UNION plan.batches = Selected
    /\ \A batch \in plan.batches : Fits(batch, plan.policy)

\* Of a plan made from committed files, the commit still says that nothing is needed.
PlanCurrent ==
    plan.clean /\ plan.head = head =>
        \A t \in Selected : \A b \in Needs[t] : committed.tasks[b] \in Terminal

PlanInv == plan # NoPlan => PlanSound /\ PlanCurrent

IInv == TypeOK /\ SinceKnown /\ PlanInv

(***************************************************************************)
(* Ledgers.                                                                *)
(***************************************************************************)

\* A ledger says one thing.
LEMMA BeganOnce ==
    ASSUME NEW l \in Seq(Entries), NEW at, NEW by, BeganAt(l, at), BeganAt(l, by)
    PROVE  at = by
<1>1. Len(l) \in Nat
  BY LenProperties
<1>2. PICK i \in 1..Len(l) : Began(l, i) /\ l[i].at = at
  BY DEF BeganAt
<1>3. PICK j \in 1..Len(l) : Began(l, j) /\ l[j].at = by
  BY DEF BeganAt
<1>4. ASSUME NEW k \in 1..Len(l), NEW m \in 1..Len(l), Began(l, k), Began(l, m), k < m
      PROVE  FALSE
  <2>1. m > 1 /\ m - 1 \in k..Len(l) /\ m \in k..Len(l)
    BY <1>1, <1>4
  <2> QED
    BY <1>4, <2>1 DEF Began
<1>5. i = j
  BY <1>1, <1>2, <1>3, <1>4
<1> QED
  BY <1>2, <1>3, <1>5

LEMMA AppendKeeps ==
    ASSUME NEW l \in Seq(Entries), l # <<>>, NEW e \in Entries,
           Last(l).status = e.status, NEW at, BeganAt(l, at)
    PROVE  BeganAt(Append(l, e), at)
<1> DEFINE m == Append(l, e)
<1>1. /\ Len(l) \in Nat \ {0} /\ Len(m) = Len(l) + 1
      /\ \A i \in 1..Len(l) : m[i] = l[i]
      /\ m[Len(l) + 1] = e
  BY EmptySeq, AppendProperties, LenProperties
<1> HIDE DEF m
<1>2. PICK i \in 1..Len(l) : Began(l, i) /\ l[i].at = at
  BY DEF BeganAt
<1>3. m[i] = l[i] /\ i \in 1..Len(m) /\ (i > 1 => m[i - 1] = l[i - 1])
  BY <1>1
<1>4. ASSUME NEW j \in i..Len(m) PROVE m[j].status = m[i].status
  <2>1. CASE j = Len(l) + 1
    <3>1. l[Len(l)].status = l[i].status
      BY <1>1, <1>2 DEF Began
    <3> QED
      BY <1>1, <1>3, <2>1, <3>1 DEF Last
  <2>2. CASE j \in i..Len(l)
    BY <1>1, <1>2, <1>3, <2>2 DEF Began
  <2> QED
    BY <1>1, <2>1, <2>2
<1>5. Began(m, i)
  BY <1>2, <1>3, <1>4 DEF Began
<1> QED
  BY <1>2, <1>3, <1>5 DEF BeganAt, m

LEMMA AppendTurns ==
    ASSUME NEW l \in Seq(Entries), NEW e \in Entries,
           l # <<>> => Last(l).status # e.status
    PROVE  BeganAt(Append(l, e), e.at)
<1> DEFINE m == Append(l, e)
<1>1. /\ Len(l) \in Nat /\ Len(m) = Len(l) + 1
      /\ \A i \in 1..Len(l) : m[i] = l[i]
      /\ m[Len(l) + 1] = e
      /\ Len(l) > 0 => l # <<>>
  BY EmptySeq, AppendProperties, LenProperties
<1> HIDE DEF m
<1>2. Began(m, Len(l) + 1)
  BY <1>1 DEF Began, Last
<1>3. Len(l) + 1 \in 1..Len(m)
  BY <1>1
<1> QED
  BY <1>1, <1>2, <1>3 DEF BeganAt, m

LEMMA Typed ==
    ASSUME TypeOK, NEW t \in Task
    PROVE  /\ ledger[t] \in Seq(Entries) /\ clock \in Nat
           /\ \A op \in {"create", "update", "reconcile", "recovery"}, s \in Status :
                 Event(op, s) \in Entries /\ Event(op, s).status = s /\ Event(op, s).at = clock
  BY DEF TypeOK, Files, Ledgers, Entries, Event

\* A reconciled ledger ends with the file, and knows since when.
LEMMA ReconciledLedger ==
    ASSUME TypeOK, SinceKnown, NEW t \in Task, tasks[t] \in Status
    PROVE  /\ Reconciled(t) \in Seq(Entries) /\ Reconciled(t) # <<>>
           /\ Last(Reconciled(t)).status = tasks[t]
           /\ BeganAt(Reconciled(t), IF Recorded(t) = tasks[t] THEN since[t] ELSE clock)
<1> DEFINE l == ledger[t]
<1>1. l \in Seq(Entries)
  BY Typed
<1>2. CASE l = <<>>
  <2> DEFINE e == Event("recovery", tasks[t])
  <2>1. e \in Entries /\ e.status = tasks[t] /\ e.at = clock
    BY Typed
  <2>2. Reconciled(t) = <<e>>
    BY <1>2 DEF Reconciled
  <2>3. Recorded(t) # tasks[t]
    BY <1>2, TaskAssumption DEF Recorded
  <2> HIDE DEF e
  <2>4. <<e>> = Append(<<>>, e) /\ <<>> \in Seq(Entries)
    OBVIOUS
  <2>5. BeganAt(<<e>>, clock)
    BY <2>1, <2>4, AppendTurns
  <2>6. <<e>> \in Seq(Entries) /\ <<e>> # <<>> /\ Last(<<e>>) = e
    BY <2>1 DEF Last
  <2> QED
    BY <2>1, <2>2, <2>3, <2>5, <2>6
<1>3. CASE l # <<>> /\ Recorded(t) # tasks[t]
  <2> DEFINE e == Event("reconcile", tasks[t])
  <2>1. e \in Entries /\ e.status = tasks[t] /\ e.at = clock
    BY Typed
  <2>2. Reconciled(t) = Append(l, e)
    BY <1>3 DEF Reconciled
  <2> HIDE DEF e
  <2>3. BeganAt(Append(l, e), clock)
    BY <1>1, <1>3, <2>1, AppendTurns DEF Recorded
  <2>4. Append(l, e) \in Seq(Entries) /\ Append(l, e) # <<>> /\ Last(Append(l, e)) = e
    BY <1>1, <2>1, AppendProperties DEF Last
  <2> QED
    BY <1>3, <2>1, <2>2, <2>3, <2>4
<1>4. CASE l # <<>> /\ Recorded(t) = tasks[t]
  BY <1>1, <1>4 DEF Reconciled, Recorded, SinceKnown, FilesSound, Files
<1> QED
  BY <1>2, <1>3, <1>4

\* The evidence of a plan: what _terminal_transition finds is true.
LEMMA Evidence ==
    ASSUME TypeOK, SinceKnown, NEW t \in Task, Provable(t)
    PROVE  TerminalAt(t) = since[t] /\ BeganAt(ledger[t], since[t])
<1> DEFINE l == ledger[t]
<1>1. l \in Seq(Entries) /\ l # <<>> /\ Len(l) \in Nat \ {0} /\ DOMAIN l = 1..Len(l)
  BY Typed, EmptySeq, LenProperties DEF Provable
<1>2. l[Len(l)].status = tasks[t]
  BY <1>1 DEF Provable, Recorded, Last
<1>3. PICK i \in 1..Len(l) : Began(l, i) /\ l[i].at = since[t]
  BY <1>1 DEF SinceKnown, FilesSound, Files, BeganAt
<1>4. \A j \in i..Len(l) : l[j].status = tasks[t]
  BY <1>1, <1>2, <1>3 DEF Began
<1>5. i \in Turns(t)
  BY <1>1, <1>3, <1>4 DEF Turns, Began
<1>6. ASSUME NEW j \in Turns(t) PROVE j <= i
  <2>1. j \in 1..Len(l) /\ (j > 1 => l[j - 1].status # tasks[t])
    BY <1>1 DEF Turns
  <2>2. CASE i < j
    <3>1. j > 1 /\ j - 1 \in i..Len(l)
      BY <1>1, <2>1, <2>2
    <3> QED
      BY <1>4, <2>1, <3>1
  <2> QED
    BY <1>1, <2>1, <2>2
<1>7. Max(Turns(t)) = i
  <2>1. \A j \in Turns(t) : j \in Int
    BY <1>1 DEF Turns
  <2> DEFINE m == Max(Turns(t))
  <2>2. m \in Turns(t) /\ \A j \in Turns(t) : m >= j
    BY <1>5, <1>6, <2>1 DEF Max
  <2> HIDE DEF m
  <2>3. m = i
    BY <1>5, <1>6, <2>1, <2>2
  <2> QED
    BY <2>3 DEF m
<1> QED
  BY <1>3, <1>7 DEF TerminalAt, BeganAt

(***************************************************************************)
(* The steps.                                                              *)
(***************************************************************************)

Rows == [Task -> {"right", "wrong", "none"}]

\* A plan stays what it is, and so does the commit it was made of.
LEMMA PlanKept ==
    ASSUME TypeOK, PlanInv, plan' = plan, head' \in Nat, head <= head',
           head' = head => committed' = committed
    PROVE  PlanInv'
<1>1. SUFFICES ASSUME plan # NoPlan PROVE PlanSound' /\ PlanCurrent'
  BY DEF PlanInv
<1>2. PlanSound /\ PlanCurrent /\ head \in Nat
  BY <1>1 DEF PlanInv, TypeOK
<1>3. PlanSound'
  BY <1>2 DEF PlanSound, Selected
<1>4. PlanCurrent'
  <2>1. SUFFICES ASSUME plan.clean, plan.head = head'
                 PROVE  head' = head /\ PlanCurrent'
    BY DEF PlanCurrent
  <2>2. head' = head
    BY <1>2, <2>1 DEF PlanSound
  <2> QED
    BY <1>2, <2>1, <2>2 DEF PlanCurrent, Selected
<1> QED
  BY <1>3, <1>4

LEMMA LookUpType ==
    ASSUME TypeOK, NEW asked, NEW resolved, LookUp(asked, resolved)
    PROVE  index' \in Rows /\ stale' \in BOOLEAN
<1>1. stale' \in BOOLEAN
  BY DEF LookUp, TypeOK
<1>2. index' = index \/ index' = [t \in Task |-> IF t \in Cold THEN "right" ELSE "none"]
  BY DEF LookUp
<1> QED
  BY <1>1, <1>2 DEF Rows, TypeOK

\* A command writes a task and its ledger.
LEMMA PutStep ==
    ASSUME IInv, NEW t \in Task, NEW s \in Status, NEW l \in Seq(Entries), Put(t, s, l),
           BeganAt(l, IF tasks[t] = s /\ Recorded(t) = s THEN since[t] ELSE clock),
           index' \in Rows, stale' \in BOOLEAN
    PROVE  IInv'
<1> DEFINE at == IF tasks[t] = s /\ Recorded(t) = s THEN since[t] ELSE clock
<1>1. /\ tasks' = [tasks EXCEPT ![t] = s] /\ ledger' = [ledger EXCEPT ![t] = l]
      /\ since' = [since EXCEPT ![t] = at]
      /\ UNCHANGED <<clock, reserved, plan, head, committed>>
  BY DEF Put
<1>2. TypeOK /\ SinceKnown /\ PlanInv
  BY DEF IInv
<1>3. at \in Nat
  BY <1>2 DEF TypeOK, Files
<1> HIDE DEF at
<1>4. TypeOK'
  <2>1. Files' \in [tasks : [Task -> Status \cup {Gone}], ledger : Ledgers, since : [Task -> Nat]]
    <3>1. /\ tasks' \in [Task -> Status \cup {Gone}] /\ ledger' \in [Task -> Seq(Entries)]
          /\ since' \in [Task -> Nat]
      BY <1>1, <1>2, <1>3 DEF TypeOK, Files, Ledgers, Entries
    <3> QED
      BY <3>1 DEF Files, Ledgers, Entries
  <2> QED
    BY <1>1, <1>2, <2>1 DEF TypeOK, Rows
<1>5. SinceKnown'
  <2>1. ASSUME NEW u \in Task, ledger'[u] # <<>>
        PROVE  tasks'[u] # Gone /\ BeganAt(ledger'[u], since'[u])
    <3>1. CASE u = t
      <4>1. tasks'[u] = s /\ ledger'[u] = l /\ since'[u] = at
        BY <1>1, <1>2, <3>1 DEF TypeOK, Files, Ledgers
      <4>2. s # Gone
        BY TaskAssumption
      <4> QED
        BY <4>1, <4>2 DEF at
    <3>2. CASE u # t
      BY <1>1, <1>2, <2>1, <3>2 DEF TypeOK, SinceKnown, FilesSound, Files
    <3> QED
      BY <3>1, <3>2
  <2>2. l # <<>>
    BY DEF BeganAt
  <2>3. \A u \in Task : ledger[u] # <<>> => ledger'[u] # <<>>
    BY <1>1, <1>2, <2>2 DEF TypeOK, Files
  <2> QED
    BY <1>1, <1>2, <2>1, <2>3 DEF SinceKnown, FilesSound, Files
<1>6. PlanInv'
  <2>1. plan' = plan /\ head' \in Nat /\ head <= head' /\ committed' = committed
    BY <1>1, <1>2 DEF TypeOK
  <2> QED
    BY <1>2, <2>1, PlanKept
<1> QED
  BY <1>4, <1>5, <1>6 DEF IInv

LEMMA CreateStep ==
    ASSUME IInv, NEW t \in Task, NEW s \in Status, Create(t, s)
    PROVE  IInv'
<1> DEFINE e == Event("create", s)
<1>1. TypeOK /\ index' \in Rows /\ stale' \in BOOLEAN
  BY LookUpType DEF Create, IInv
<1>2. e \in Entries /\ e.at = clock
  BY <1>1, Typed
<1>3. Put(t, s, <<e>>)
  BY DEF Create
<1>4. tasks[t] # s
  <2>1. t \in Variants(t)
    BY DEF Variants
  <2>2. t \notin Hot
    BY <2>1 DEF Create
  <2> QED
    BY <2>2, TaskAssumption DEF Hot
<1> HIDE DEF e
<1>5. <<e>> = Append(<<>>, e) /\ <<>> \in Seq(Entries) /\ <<e>> \in Seq(Entries)
  BY <1>2
<1>6. BeganAt(<<e>>, clock)
  BY <1>2, <1>5, AppendTurns
<1> QED
  BY <1>1, <1>3, <1>4, <1>5, <1>6, PutStep

LEMMA UpdateStep ==
    ASSUME IInv, NEW t \in Task, NEW s \in Status, Update(t, s)
    PROVE  IInv'
<1> DEFINE e == Event("update", s)
           l == Reconciled(t)
           at == IF tasks[t] = s /\ Recorded(t) = s THEN since[t] ELSE clock
<1>1. TypeOK /\ SinceKnown /\ index' \in Rows /\ stale' \in BOOLEAN
  BY LookUpType DEF Update, IInv
<1>2. e \in Entries /\ e.status = s /\ e.at = clock
  BY <1>1, Typed
<1>3. Put(t, s, Append(l, e)) /\ tasks[t] \in Status
  BY <1>1 DEF Update, TypeOK, Files
<1>4. /\ l \in Seq(Entries) /\ l # <<>> /\ Last(l).status = tasks[t]
      /\ BeganAt(l, IF Recorded(t) = tasks[t] THEN since[t] ELSE clock)
  BY <1>1, <1>3, ReconciledLedger
<1> HIDE DEF e, l
<1>5. Append(l, e) \in Seq(Entries)
  BY <1>2, <1>4, AppendProperties
<1>6. BeganAt(Append(l, e), at)
  <2>1. CASE tasks[t] = s
    BY <1>2, <1>4, <2>1, AppendKeeps
  <2>2. CASE tasks[t] # s
    BY <1>2, <1>4, <2>2, AppendTurns
  <2> QED
    BY <2>1, <2>2
<1> QED
  BY <1>1, <1>3, <1>5, <1>6, PutStep

LEMMA ReconcileStep ==
    ASSUME IInv, NEW t \in Task, Reconcile(t)
    PROVE  IInv'
<1>1. /\ TypeOK /\ SinceKnown /\ index' \in Rows /\ stale' \in BOOLEAN
      /\ tasks[t] \in Status /\ Put(t, tasks[t], Reconciled(t))
  BY DEF Reconcile, IInv, TypeOK, Files, Rows
<1>2. /\ Reconciled(t) \in Seq(Entries)
      /\ BeganAt(Reconciled(t), IF Recorded(t) = tasks[t] THEN since[t] ELSE clock)
  BY <1>1, ReconciledLedger
<1> QED
  BY <1>1, <1>2, PutStep

\* The other steps leave the ledgers and the times of the work tree alone.
LEMMA Elsewhere ==
    ASSUME IInv, TypeOK', plan' = plan, head' \in Nat, head <= head',
           head' = head => committed' = committed, committed' \in {committed, Files},
           \A t \in Task : ledger[t] # <<>> => tasks'[t] # Gone,
           UNCHANGED <<ledger, since>>
    PROVE  IInv'
<1>1. SinceKnown'
  <2>1. SinceKnown
    BY DEF IInv
  <2>2. FilesSound(Files)'
    BY <2>1 DEF SinceKnown, FilesSound, Files
  <2>3. FilesSound(committed)'
    BY <2>1 DEF SinceKnown, FilesSound
  <2>4. \A t \in Task : committed'.ledger[t] # <<>> => ledger'[t] # <<>>
    BY <2>1 DEF SinceKnown, Files
  <2> QED
    BY <2>2, <2>3, <2>4 DEF SinceKnown
<1>2. PlanInv'
  BY PlanKept DEF IInv
<1> QED
  BY <1>1, <1>2 DEF IInv

\* Files of HEAD among those of the work tree are as sound.
LEMMA RestoreStep ==
    ASSUME IInv, NEW S \in SUBSET Task, Restore(S)
    PROVE  IInv'
<1>1. TypeOK /\ SinceKnown /\ PlanInv
  BY DEF IInv
<1>2. /\ tasks'  = [t \in Task |-> IF t \in S THEN committed.tasks[t] ELSE tasks[t]]
      /\ ledger' = [t \in Task |-> IF t \in S THEN committed.ledger[t] ELSE ledger[t]]
      /\ since'  = [t \in Task |-> IF t \in S THEN committed.since[t] ELSE since[t]]
      /\ UNCHANGED <<clock, reserved, plan, head, committed, index, stale>>
  BY DEF Restore
<1>3. TypeOK'
  <2>1. /\ tasks' \in [Task -> Status \cup {Gone}] /\ ledger' \in Ledgers
        /\ since' \in [Task -> Nat]
    BY <1>1, <1>2 DEF TypeOK, Files, Ledgers
  <2> QED
    BY <1>1, <1>2, <2>1 DEF TypeOK, Files
<1>4. SinceKnown'
  <2>1. ASSUME NEW t \in Task
        PROVE  /\ ledger'[t] # <<>> => tasks'[t] # Gone /\ BeganAt(ledger'[t], since'[t])
               /\ committed.ledger[t] # <<>> => ledger'[t] # <<>>
    <3>1. CASE t \in S
      BY <1>1, <1>2, <3>1 DEF SinceKnown, FilesSound
    <3>2. CASE t \notin S
      BY <1>1, <1>2, <3>2 DEF SinceKnown, FilesSound, Files
    <3> QED
      BY <3>1, <3>2
  <2> QED
    BY <1>1, <1>2, <2>1 DEF SinceKnown, FilesSound, Files
<1>5. PlanInv'
  BY <1>1, <1>2, PlanKept DEF TypeOK
<1> QED
  BY <1>3, <1>4, <1>5 DEF IInv

LEMMA OtherStep ==
    ASSUME IInv,
           \/ \E t \in Task : \/ Show(t) \/ Reserve(t)
                             \/ \E s \in Status \cup {Gone} : Edit(t, s)
                             \/ \E row \in {"none", "wrong"} : Damage(t, row)
           \/ Commit \/ Tick
    PROVE  IInv'
<1>1. TypeOK
  BY DEF IInv
<1>2. \A t \in Task : ledger[t] # <<>> => tasks[t] # Gone
  BY DEF IInv, SinceKnown, FilesSound, Files
<1>3. ASSUME NEW t \in Task, Show(t) PROVE IInv'
  <2>1. index' \in Rows /\ stale' \in BOOLEAN
    BY <1>1, <1>3, LookUpType DEF Show
  <2>2. TypeOK'
    BY <1>1, <1>3, <2>1 DEF Show, TypeOK, Files, Rows
  <2>3. /\ plan' = plan /\ head' = head /\ UNCHANGED <<ledger, since, committed>>
        /\ \A u \in Task : ledger[u] # <<>> => tasks'[u] # Gone
    BY <1>1, <1>2, <1>3 DEF Show, TypeOK, Files
  <2> QED
    BY <1>1, <2>2, <2>3, Elsewhere DEF TypeOK
<1>4. ASSUME NEW t \in Task, Reserve(t) PROVE IInv'
  <2>1. TypeOK'
    BY <1>1, <1>4 DEF Reserve, TypeOK, Files, Rows
  <2>2. /\ plan' = plan /\ head' = head /\ UNCHANGED <<ledger, since, committed>>
        /\ \A u \in Task : ledger[u] # <<>> => tasks'[u] # Gone
    BY <1>1, <1>2, <1>4 DEF Reserve, TypeOK, Files
  <2> QED
    BY <1>1, <2>1, <2>2, Elsewhere DEF TypeOK
<1>5. ASSUME NEW t \in Task, NEW s \in Status \cup {Gone}, Edit(t, s) PROVE IInv'
  <2>1. TypeOK'
    BY <1>1, <1>5 DEF Edit, TypeOK, Files, Rows
  <2>2. /\ plan' = plan /\ head' = head /\ UNCHANGED <<ledger, since, committed>>
        /\ \A u \in Task : ledger[u] # <<>> => tasks'[u] # Gone
    BY <1>1, <1>2, <1>5 DEF Edit, TypeOK, Files
  <2> QED
    BY <1>1, <2>1, <2>2, Elsewhere DEF TypeOK
<1>6. ASSUME NEW t \in Task, NEW row \in {"none", "wrong"}, Damage(t, row) PROVE IInv'
  <2>1. TypeOK'
    BY <1>1, <1>6 DEF Damage, TypeOK, Files, Rows
  <2>2. /\ plan' = plan /\ head' = head /\ UNCHANGED <<ledger, since, committed>>
        /\ \A u \in Task : ledger[u] # <<>> => tasks'[u] # Gone
    BY <1>1, <1>2, <1>6 DEF Damage, TypeOK, Files
  <2> QED
    BY <1>1, <2>1, <2>2, Elsewhere DEF TypeOK
<1>7. CASE Commit
  <2>1. /\ head' = head + 1 /\ committed' = Files /\ head \in Nat
        /\ UNCHANGED <<tasks, ledger, clock, reserved, plan, index, stale, since>>
    BY <1>1, <1>7 DEF Commit, TypeOK
  <2>2. head' \in Nat /\ head <= head' /\ head' # head
    BY <2>1
  <2>3. TypeOK'
    BY <1>1, <2>1, <2>2 DEF TypeOK, Files
  <2> QED
    BY <1>2, <2>1, <2>2, <2>3, Elsewhere
<1>8. CASE Tick
  <2>1. clock' \in Nat /\ UNCHANGED <<tasks, ledger, reserved, plan, head, committed, index, stale, since>>
    BY <1>1, <1>8 DEF Tick, TypeOK
  <2>2. TypeOK'
    BY <1>1, <2>1 DEF TypeOK, Files
  <2> QED
    BY <1>1, <1>2, <2>1, <2>2, Elsewhere DEF TypeOK
<1> QED
  BY <1>3, <1>4, <1>5, <1>6, <1>7, <1>8

LEMMA MakePlanStep ==
    ASSUME IInv, NEW policy \in Policies, MakePlan(policy)
    PROVE  IInv'
<1> DEFINE all == Candidates(policy)
           n == Min({Cardinality(all), policy.maxTasks})
<1>1. TypeOK /\ SinceKnown
  BY DEF IInv
<1>2. all \in SUBSET Task /\ n \in Nat
  <2>1. all \in SUBSET Task
    BY DEF Candidates, Hot
  <2> HIDE DEF all
  <2>2. Cardinality(all) \in Nat
    BY <2>1, TaskAssumption, FS_Subset, FS_CardinalityType
  <2>3. policy.maxTasks \in Nat
    BY PolicyAssumption
  <2> QED
    BY <2>1, <2>2, <2>3, Lower
<1>3. PICK ids \in [1..n -> all] :
         plan' = [items |-> [t \in Range(ids) |-> [at |-> TerminalAt(t), status |-> tasks[t],
                                                  ledger |-> ledger[t]]],
                  batches |-> Batches(ids, policy), policy |-> policy, made |-> clock,
                  head |-> head, clean |-> Clean, reserved |-> reserved, cold |-> Cold]
  BY DEF MakePlan, Oldest
<1> HIDE DEF n
<1> DEFINE chosen == Range(ids)
<1>4. \A t \in chosen : t \in all
  BY DEF Range
<1>5. ASSUME NEW t \in chosen
      PROVE  /\ t \in Hot /\ t \in Task /\ t \notin reserved /\ t \notin Cold
             /\ BeganAt(ledger[t], TerminalAt(t)) /\ TerminalAt(t) + Older <= clock
             /\ tasks[t] \in Terminal /\ ledger[t] \in Seq(Entries) /\ ledger[t] # <<>>
             /\ \A b \in Needs[t] : tasks[b] \in Terminal
  <2>1. t \in Hot /\ Selectable(t, policy) /\ Provable(t) /\ TerminalAt(t) + Older <= clock
    BY <1>4 DEF Candidates
  <2>2. t \in Task /\ t \in Variants(t)
    BY <2>1 DEF Hot, Variants
  <2>3. BeganAt(ledger[t], TerminalAt(t)) /\ ledger[t] \in Seq(Entries)
    BY <1>1, <2>1, <2>2, Evidence, Typed
  <2>4. t \notin Cold
    BY <2>1, <2>2 DEF Selectable, Inventory
  <2>5. tasks[t] \in Terminal /\ ledger[t] # <<>>
    BY <2>1, PolicyAssumption DEF Selectable, Provable
  <2> QED
    BY <2>1, <2>2, <2>3, <2>4, <2>5 DEF Selectable
<1> HIDE DEF all
<1>6. UNION Batches(ids, policy) = chosen /\ \A batch \in Batches(ids, policy) : Fits(batch, policy)
  BY <1>2, BatchesFit
<1> HIDE DEF chosen
<1>7. /\ UNCHANGED <<tasks, ledger, clock, packs, reserved, head, committed, index, stale, since, changes>>
      /\ head \in Nat
  BY <1>1 DEF MakePlan, TypeOK
<1>8. TypeOK' /\ SinceKnown'
  BY <1>1, <1>7 DEF TypeOK, SinceKnown, FilesSound, Files
<1>9. /\ Selected' = chosen /\ plan'.clean = Clean
      /\ \A t \in chosen : /\ plan'.items[t].at = TerminalAt(t) /\ plan'.items[t].status = tasks[t]
                           /\ plan'.items[t].ledger = ledger[t]
      /\ plan'.batches = Batches(ids, policy) /\ plan'.policy = policy /\ plan'.made = clock
      /\ plan'.head = head /\ plan'.reserved = reserved /\ plan'.cold = Cold
  BY <1>3 DEF Selected, chosen
<1>10. PlanSound'
  BY <1>5, <1>6, <1>7, <1>9 DEF PlanSound
<1>11. PlanCurrent'
  BY <1>5, <1>7, <1>9 DEF PlanCurrent, Clean
<1> QED
  BY <1>8, <1>10, <1>11 DEF IInv, PlanInv

\* What the application of a plan does: its batches are the packs.
LEMMA Applied ==
    ASSUME IInv, Apply
    PROVE  /\ PlanSound /\ Selected \cap (reserved \cup Cold) = {}
           /\ \A t \in Selected :
                 /\ t \in Hot /\ since[t] = plan.items[t].at
                 /\ plan.clean => \A b \in Needs[t] : tasks[b] \in Terminal
           /\ packs' = packs \cup {{Record(t) : t \in batch} : batch \in plan.batches}
<1>1. /\ plan # NoPlan /\ Clean /\ plan.head = head /\ plan.reserved = reserved /\ plan.cold = Cold
      /\ \A t \in Selected : Current(t)
  BY DEF Apply, Verified
<1>2. PlanSound /\ PlanCurrent
  BY <1>1 DEF IInv, PlanInv
<1>3. ASSUME NEW batch \in plan.batches PROVE Packed(batch) = {{Record(t) : t \in batch}}
  <2>1. plan.policy \in Policies /\ batch \in SUBSET Task /\ Fits(batch, plan.policy)
    BY <1>2 DEF PlanSound, Fits
  <2>2. Batches(Sorted(batch), plan.policy) = {batch}
    BY <2>1, SplitAgain
  <2> QED
    BY <2>2 DEF Packed
<1>4. UNION {Packed(batch) : batch \in plan.batches}
        = {{Record(t) : t \in batch} : batch \in plan.batches}
  BY <1>3
<1>5. packs' = packs \cup {{Record(t) : t \in batch} : batch \in plan.batches}
  BY <1>4 DEF Apply
<1>6. ASSUME NEW t \in Selected PROVE t \in Hot /\ since[t] = plan.items[t].at
  <2>1. /\ t \in Task /\ tasks[t] \in Terminal /\ ledger[t] \in Seq(Entries) /\ ledger[t] # <<>>
        /\ BeganAt(ledger[t], plan.items[t].at)
    BY <1>1, <1>2 DEF PlanSound, Current
  <2>2. BeganAt(ledger[t], since[t])
    BY <2>1 DEF IInv, SinceKnown, FilesSound, Files
  <2>3. since[t] = plan.items[t].at
    BY <2>1, <2>2, BeganOnce
  <2> QED
    BY <2>1, <2>3, TaskAssumption DEF Hot, Status
<1>7. ASSUME NEW t \in Selected, plan.clean PROVE \A b \in Needs[t] : tasks[b] \in Terminal
  BY <1>1, <1>2, <1>7 DEF PlanCurrent, Clean
<1> QED
  BY <1>1, <1>2, <1>5, <1>6, <1>7 DEF PlanSound

LEMMA ApplyStep ==
    ASSUME IInv, Apply
    PROVE  IInv'
<1>1. TypeOK /\ SinceKnown /\ PlanInv
  BY DEF IInv
<1>2. /\ tasks' = [t \in Task |-> IF t \in Selected THEN Gone ELSE tasks[t]]
      /\ ledger' = [t \in Task |-> IF t \in Selected THEN <<>> ELSE ledger[t]]
      /\ since' = [t \in Task |-> IF t \in Selected THEN 0 ELSE since[t]]
      /\ head' = head + 1 /\ stale' = TRUE /\ committed' = Files'
      /\ UNCHANGED <<clock, reserved, plan, index>>
  BY DEF Apply
<1>3. TypeOK'
  <2>1. head' \in Nat
    BY <1>1, <1>2 DEF TypeOK
  <2>2. tasks' \in [Task -> Status \cup {Gone}] /\ since' \in [Task -> Nat]
    BY <1>1, <1>2 DEF TypeOK, Files
  <2>3. ledger' \in [Task -> Seq(Entries)]
    <3>1. <<>> \in Seq(Entries) /\ \A t \in Task : ledger[t] \in Seq(Entries)
      BY <1>1, Typed
    <3> QED
      BY <1>2, <3>1
  <2> QED
    BY <1>1, <1>2, <2>1, <2>2, <2>3 DEF TypeOK, Files, Ledgers, Entries
<1>4. SinceKnown'
  <2>1. ASSUME NEW t \in Task, ledger'[t] # <<>>
        PROVE  tasks'[t] # Gone /\ BeganAt(ledger'[t], since'[t])
    BY <1>1, <1>2, <2>1 DEF SinceKnown, FilesSound, Files
  <2> QED
    BY <1>2, <2>1 DEF SinceKnown, FilesSound, Files
<1>5. PlanInv'
  <2>1. plan' = plan /\ head' \in Nat /\ head <= head' /\ head' # head
    BY <1>1, <1>2 DEF TypeOK
  <2> QED
    BY <1>1, <2>1, PlanKept
<1> QED
  BY <1>3, <1>4, <1>5 DEF IInv

\* The inductive invariant of planning and archiving.
LEMMA Inductive == Spec => []IInv
<1>1. Init => IInv
  <2> SUFFICES ASSUME Init PROVE IInv
    OBVIOUS
  <2>1. ledger \in [Task -> Seq(Entries)]
    <3>1. <<>> \in Seq(Entries)
      OBVIOUS
    <3> QED
      BY <3>1 DEF Init
  <2>2. TypeOK
    <3>1. Files \in [tasks : [Task -> Status \cup {Gone}], ledger : Ledgers, since : [Task -> Nat]]
      BY <2>1 DEF Init, Files, Ledgers, Entries
    <3> QED
      BY <3>1 DEF Init, TypeOK
  <2>3. SinceKnown
    BY DEF Init, SinceKnown, FilesSound, Files
  <2> QED
    BY <2>2, <2>3 DEF Init, IInv, PlanInv
<1>2. IInv /\ [Next]_vars => IInv'
  <2> SUFFICES ASSUME IInv, [Next]_vars PROVE IInv'
    OBVIOUS
  <2>1. CASE UNCHANGED vars
    BY <2>1 DEF vars, IInv, TypeOK, SinceKnown, FilesSound, Files, PlanInv, PlanSound,
                PlanCurrent, Selected
  <2>2. ASSUME NEW t \in Task, Mutate(t) PROVE IInv'
    BY <2>2, CreateStep, UpdateStep, ReconcileStep, OtherStep DEF Mutate
  <2> QED
    BY <2>1, <2>2, MakePlanStep, ApplyStep, OtherStep, RestoreStep DEF Next
<1> QED
  BY <1>1, <1>2, PTL DEF Spec

(***************************************************************************)
(* The theorems.                                                           *)
(***************************************************************************)

\* Only the application of a plan writes packs.
LEMMA Archiving ==
    ASSUME [Next]_vars
    PROVE  Apply \/ packs' = packs
  BY DEF Next, Mutate, Create, Update, Put, Reconcile, Show, Edit, Restore, Commit, Tick,
         Reserve, Damage, MakePlan, vars

\* What is archived is the selection of the plan.
LEMMA ArchivedSelected ==
    ASSUME IInv, [Next]_vars, NEW t \in Archived
    PROVE  Apply /\ t \in Selected /\ Record(t) \in Records'
<1>1. Apply
  BY Archiving DEF Archived, Cold, Records
<1>2. PICK r \in Records' : r.id = t /\ r \notin Records
  BY DEF Archived, Cold
<1>3. PICK batch \in plan.batches : r \in {Record(u) : u \in batch}
  BY <1>1, <1>2, Applied DEF Records
<1>4. r = Record(t) /\ t \in batch
  BY <1>2, <1>3 DEF Record
<1> QED
  BY <1>1, <1>2, <1>3, <1>4, Applied DEF PlanSound

\* However long a plan waits and whatever happens meanwhile, what is archived had its
\* status for the time asked for, and the record says since when.
THEOREM ArchivedAreAged == Spec => ArchivedAged
<1>1. IInv /\ [Next]_vars =>
        [\A t \in Archived : /\ since[t] + Older <= plan.made
                             /\ \E r \in Records' : r.id = t /\ r.at = since[t]]_vars
  <2> SUFFICES ASSUME IInv, [Next]_vars, NEW t \in Archived
               PROVE  /\ since[t] + Older <= plan.made
                      /\ \E r \in Records' : r.id = t /\ r.at = since[t]
    OBVIOUS
  <2>1. Apply /\ t \in Selected /\ Record(t) \in Records'
    BY ArchivedSelected
  <2>2. since[t] = plan.items[t].at /\ PlanSound
    BY <2>1, Applied
  <2> QED
    BY <2>1, <2>2 DEF PlanSound, Record
<1> QED
  BY <1>1, Inductive, PTL DEF Spec, ArchivedAged

\* When a task is archived nobody has reserved it, and its blockers are resolved if the
\* plan was made from committed files, whatever was edited and put back since.
THEOREM ArchivedAreResolved == Spec => ArchivedResolved
<1>1. IInv /\ [Next]_vars =>
        [\A t \in Archived :
          t \notin reserved /\ (plan.clean => \A b \in Needs[t] : tasks[b] \in Terminal)]_vars
  <2> SUFFICES ASSUME IInv, [Next]_vars, NEW t \in Archived
               PROVE  /\ t \notin reserved
                      /\ plan.clean => \A b \in Needs[t] : tasks[b] \in Terminal
    OBVIOUS
  <2> QED
    BY ArchivedSelected, Applied
<1> QED
  BY <1>1, Inductive, PTL DEF Spec, ArchivedResolved

\* The packs are the batches that people saw in the plan, within its policy, and hold
\* every task that leaves the hot tier.
THEOREM PacksArePlanned == Spec => PacksAsPlanned
<1>1. IInv /\ [Next]_vars =>
        [packs' # packs =>
          LET new == {{r.id : r \in pack} : pack \in packs' \ packs} IN
          /\ new = plan.batches
          /\ \A batch \in new : Cardinality(batch) > 1 =>
                /\ Bytes[batch] <= plan.policy.target
                /\ Cardinality(batch) <= plan.policy.maxTasks
          /\ {t \in Hot : tasks'[t] = Gone} = UNION new]_vars
  <2> DEFINE new == {{r.id : r \in pack} : pack \in packs' \ packs}
  <2> SUFFICES ASSUME IInv, [Next]_vars, packs' # packs
               PROVE  /\ new = plan.batches
                      /\ \A batch \in new : Cardinality(batch) > 1 =>
                            /\ Bytes[batch] <= plan.policy.target
                            /\ Cardinality(batch) <= plan.policy.maxTasks
                      /\ {t \in Hot : tasks'[t] = Gone} = UNION new
    OBVIOUS
  <2>1. Apply
    BY Archiving
  <2>2. /\ PlanSound /\ Selected \cap Cold = {} /\ \A t \in Selected : t \in Hot
        /\ packs' = packs \cup {{Record(t) : t \in batch} : batch \in plan.batches}
    BY <2>1, Applied
  <2>3. ASSUME NEW batch \in plan.batches
        PROVE  /\ {Record(t) : t \in batch} \in packs' \ packs
               /\ {r.id : r \in {Record(t) : t \in batch}} = batch
    <3>1. \A t : Record(t).id = t
      BY DEF Record
    <3>2. PICK t \in batch : t \in Selected
      BY <2>2 DEF PlanSound, Fits
    <3>3. {Record(u) : u \in batch} \notin packs
      <4>1. SUFFICES ASSUME {Record(u) : u \in batch} \in packs PROVE t \in Cold
        BY <2>2, <3>2
      <4>2. Record(t) \in Records
        BY <3>2, <4>1 DEF Records
      <4> QED
        BY <3>1, <4>2 DEF Cold
    <3> QED
      BY <2>2, <3>1, <3>3
  <2>4. new = plan.batches
    <3>1. plan.batches \subseteq new
      BY <2>3
    <3>2. ASSUME NEW pack \in packs' \ packs PROVE {r.id : r \in pack} \in plan.batches
      <4>1. PICK batch \in plan.batches : pack = {Record(t) : t \in batch}
        BY <2>2, <3>2
      <4> QED
        BY <2>3, <4>1
    <3> QED
      BY <3>1, <3>2
  <2>5. {t \in Hot : tasks'[t] = Gone} = Selected
    BY <2>1, <2>2 DEF Apply, Hot, PlanSound
  <2> HIDE DEF new
  <2> QED
    BY <2>2, <2>4, <2>5 DEF PlanSound, Fits
<1> QED
  BY <1>1, Inductive, PTL DEF Spec, PacksAsPlanned

\* No command gives a cold ID away, whatever has become of the cache.
THEOREM ColdIdsReserved == Spec => IdsReserved
<1>1. IInv /\ [Next]_vars =>
        [\A t \in Task :
          tasks[t] = Gone /\ tasks'[t] # Gone /\ ledger'[t] # ledger[t] => Inventory(t) = {}]_vars
  <2> SUFFICES ASSUME IInv, [Next]_vars, NEW t \in Task,
                      tasks[t] = Gone, tasks'[t] # Gone, ledger'[t] # ledger[t]
               PROVE  Inventory(t) = {}
    OBVIOUS
  <2>1. ~Apply
    BY DEF Apply
  <2>2. ASSUME NEW S \in SUBSET Task, Restore(S) PROVE FALSE
    BY <2>2 DEF Restore, IInv, SinceKnown, FilesSound, Files
  <2>3. PICK u \in Task : \/ Reconcile(u)
                          \/ \E s \in Status : Create(u, s) \/ Update(u, s)
    BY <2>1, <2>2 DEF Next, Mutate, Show, Edit, Commit, Tick, Reserve, Damage, MakePlan, vars
  <2>4. u = t
    BY <2>3 DEF Create, Update, Reconcile, Put, IInv, TypeOK, Files
  <2>5. Entry(t) = {}
    BY <2>3, <2>4 DEF Create, Update, Reconcile
  <2> QED
    BY <2>5 DEF Entry
<1> QED
  BY <1>1, Inductive, PTL DEF Spec, IdsReserved
=============================================================================
