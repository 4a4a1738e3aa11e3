-------------------------- MODULE DependencyProofs --------------------------
(***************************************************************************)
(* For every finite board: the order that topological_sort outputs is      *)
(* sound, the searches find what waits for a task, and the critical path   *)
(* is a longest chain.  Commands that run one after the other never close  *)
(* a cycle, and the two checks for one agree.                              *)
(*                                                                         *)
(* The counter of a node is the number of its blockers that are not output *)
(* yet, and the queue holds the nodes whose counter is zero and that are   *)
(* not output.  So the loop ends with the nodes that wait for others.  The *)
(* searches have visited only what waits for their first node, and what    *)
(* waits for a node they are done with is visited or is to be.             *)
(***************************************************************************)
EXTENDS DependencyGraph, DependencyCommands, FiniteSetTheorems, SequenceTheorems, WellFoundedInduction, TLAPS

Distinct(s) == \A i, j \in 1..Len(s) : s[i] = s[j] => i = j

(***************************************************************************)
(* The inductive invariant.                                                *)
(***************************************************************************)

\* A graph is made of tasks of the board.
GraphOK ==
    /\ DOMAIN blockers = Board /\ Board \subseteq Id /\ nodes \subseteq Board
    /\ \A t \in Board : blockers[t] \subseteq Id
    /\ query.kind = "cycle" => nodes = Board

Waiting(t) == blockers[t] \ Members(result)

\* The output so far and the queue, without repetition.
Output ==
    /\ result \in Seq(nodes) /\ queue \in Seq(nodes)
    /\ Distinct(result) /\ Distinct(queue)
    /\ Members(result) \cap Members(queue) = {}

Respected ==
    \A i \in 1..Len(result) : \A b \in blockers[result[i]] : \E j \in 1..i - 1 : result[j] = b

Counted == inDegree = [t \in nodes |-> Cardinality(Waiting(t))]

Queued == \A t \in nodes : Waiting(t) = {} <=> t \in Members(result) \cup Members(queue)

Answered ==
    /\ reply \in {"running", "done", "failed"}
    /\ reply # "running" => queue = <<>>
    /\ reply # "running" => (reply = "failed" <=> Len(result) # Cardinality(nodes))

\* A path that the search follows leads from its first node to one it has visited.
Route(p) ==
    /\ p \in Seq(nodes) /\ Len(p) >= 1 /\ p[1] = query.to
    /\ Chain(p) /\ p[Len(p)] \in visited

\* The nodes that the search has visited and is yet to look at.
Frontier == {queue[i][Len(queue[i])] : i \in 1..Len(queue)}

\* What waits for the first node is found, or waits for a node of the frontier.
Searching ==
    /\ queue \in Seq(Seq(nodes)) /\ \A i \in 1..Len(queue) : Route(queue[i])
    /\ query.to \in visited /\ visited \subseteq AllDependents(query.to) \cup {query.to}
    /\ \A v \in visited : v \in Frontier \/ (v # query.from /\ Dependents(v) \subseteq visited)
    /\ reply = "done" => queue = <<>>

\* The path that closes the cycle.
Closing ==
    /\ query.from \in AllDependents(query.to)
    /\ Head(result) = query.from /\ result[2] = query.to
    /\ result[Len(result)] = query.from /\ Chain(Tail(result))

CycleInv ==
    /\ reply \in {"running", "done", "failed"}
    /\ query.from = query.to => reply = "failed"
    /\ query.from # query.to /\ ~({query.from, query.to} \subseteq nodes) => reply = "done"
    /\ query.from # query.to /\ {query.from, query.to} \subseteq nodes =>
          IF reply = "failed" THEN Closing ELSE Searching

\* What waits for the task is visited, or waits for a node on the stack.
ScoreInv ==
    /\ query.from \notin nodes => visited = {} /\ stack = {}
    /\ query.from \in nodes =>
          /\ visited \cup stack \subseteq AllDependents(query.from)
          /\ \A v \in visited \cup {query.from} : Dependents(v) \subseteq visited \cup stack
    /\ reply = "done" => stack = {}

IInv ==
    /\ GraphOK
    /\ query.kind = "none" => result = <<>> /\ visited = {} /\ stack = {}
    /\ query.kind = "order" => Output /\ Respected /\ Counted /\ Queued /\ Answered
    /\ query.kind = "cycle" => CycleInv
    /\ query.kind = "score" => ScoreInv

(***************************************************************************)
(* Sequences and their members.                                            *)
(***************************************************************************)

LEMMA MembersOfSeq ==
    ASSUME NEW S, NEW s \in Seq(S)
    PROVE  Members(s) \subseteq S /\ \A i \in 1..Len(s) : s[i] \in Members(s)
  BY ElementOfSeq DEF Members

LEMMA Appending ==
    ASSUME NEW S, NEW s \in Seq(S), NEW x \in S, Distinct(s), x \notin Members(s)
    PROVE  /\ Append(s, x) \in Seq(S) /\ Len(Append(s, x)) = Len(s) + 1
           /\ \A i \in 1..Len(s) : Append(s, x)[i] = s[i]
           /\ Append(s, x)[Len(s) + 1] = x
           /\ Members(Append(s, x)) = Members(s) \cup {x}
           /\ Distinct(Append(s, x))
<1> DEFINE t == Append(s, x)
<1>1. /\ t \in Seq(S) /\ Len(t) = Len(s) + 1 /\ Len(s) \in Nat
      /\ \A i \in 1..Len(s) : t[i] = s[i]
      /\ t[Len(s) + 1] = x
  BY AppendProperties, LenProperties
<1> HIDE DEF t
<1>2. Members(t) = Members(s) \cup {x}
  BY <1>1 DEF Members
<1>3. Distinct(t)
  BY <1>1 DEF Distinct, Members
<1> QED
  BY <1>1, <1>2, <1>3 DEF t

LEMMA Joining ==
    ASSUME NEW S, NEW s \in Seq(S), NEW t \in Seq(S), Distinct(s), Distinct(t),
           Members(s) \cap Members(t) = {}
    PROVE  /\ s \o t \in Seq(S) /\ Members(s \o t) = Members(s) \cup Members(t)
           /\ Distinct(s \o t)
<1> DEFINE u == s \o t
<1>1. /\ u \in Seq(S) /\ Len(u) = Len(s) + Len(t) /\ Len(s) \in Nat /\ Len(t) \in Nat
      /\ \A i \in 1..Len(s) + Len(t) : u[i] = IF i <= Len(s) THEN s[i] ELSE t[i - Len(s)]
  BY ConcatProperties, LenProperties
<1> HIDE DEF u
<1>2. \A i \in 1..Len(s) : u[i] = s[i] /\ i \in 1..Len(u)
  BY <1>1
<1>3. \A i \in 1..Len(t) : u[i + Len(s)] = t[i] /\ i + Len(s) \in 1..Len(u)
  BY <1>1
<1>4. \A i \in 1..Len(u) : \/ i \in 1..Len(s) /\ u[i] = s[i]
                           \/ i - Len(s) \in 1..Len(t) /\ u[i] = t[i - Len(s)]
  BY <1>1
<1>5. Members(u) = Members(s) \cup Members(t)
  <2>1. Members(u) \subseteq Members(s) \cup Members(t)
    BY <1>4 DEF Members
  <2>2. Members(s) \subseteq Members(u)
    BY <1>2 DEF Members
  <2>3. Members(t) \subseteq Members(u)
    BY <1>3 DEF Members
  <2> QED
    BY <2>1, <2>2, <2>3
<1>6. ASSUME NEW i \in 1..Len(u), NEW j \in 1..Len(u), u[i] = u[j] PROVE i = j
  <2>1. CASE i \in 1..Len(s) /\ u[i] = s[i] /\ j \in 1..Len(s) /\ u[j] = s[j]
    BY <1>6, <2>1 DEF Distinct
  <2>2. CASE i - Len(s) \in 1..Len(t) /\ u[i] = t[i - Len(s)]
             /\ j - Len(s) \in 1..Len(t) /\ u[j] = t[j - Len(s)]
    <3>1. i - Len(s) = j - Len(s)
      BY <1>6, <2>2 DEF Distinct
    <3> QED
      BY <1>1, <3>1
  <2>3. \A k \in 1..Len(s), l \in 1..Len(t) : s[k] # t[l]
    BY DEF Members
  <2> QED
    BY <1>4, <1>6, <2>1, <2>2, <2>3
<1> QED
  BY <1>1, <1>5, <1>6 DEF u, Distinct

LEMMA Dropping ==
    ASSUME NEW S, NEW s \in Seq(S), s # <<>>, Distinct(s)
    PROVE  /\ Head(s) \in S /\ Tail(s) \in Seq(S) /\ Distinct(Tail(s))
           /\ Members(Tail(s)) = Members(s) \ {Head(s)} /\ Head(s) \in Members(s)
<1> DEFINE t == Tail(s)
<1>1. /\ Head(s) \in S /\ t \in Seq(S) /\ Len(s) \in Nat /\ Len(s) >= 1 /\ Len(t) = Len(s) - 1
      /\ Head(s) = s[1] /\ \A i \in 1..Len(t) : t[i] = s[i + 1]
  BY HeadTailProperties, LenProperties, EmptySeq
<1> HIDE DEF t
<1>2. Distinct(t)
  BY <1>1 DEF Distinct
<1>3. Head(s) \in Members(s)
  BY <1>1 DEF Members
<1>4. Members(t) \subseteq Members(s) \ {Head(s)}
  BY <1>1 DEF Members, Distinct
<1>5. ASSUME NEW x \in Members(s), x # Head(s) PROVE x \in Members(t)
  <2>1. PICK i \in 1..Len(s) : x = s[i]
    BY DEF Members
  <2>2. i - 1 \in 1..Len(t) /\ t[i - 1] = s[(i - 1) + 1] /\ (i - 1) + 1 = i
    BY <1>1, <1>5, <2>1
  <2> QED
    BY <2>1, <2>2 DEF Members
<1> QED
  BY <1>1, <1>2, <1>3, <1>4, <1>5 DEF t

\* What `sorted` returns has the members of the set, each once.
LEMMA Sorting ==
    ASSUME NEW S \in SUBSET Id, NEW s \in Sorted(S)
    PROVE  s \in Seq(S) /\ Members(s) = S /\ Distinct(s)
<1> DEFINE n == Cardinality(S)
<1>1. IsFiniteSet(S) /\ n \in Nat /\ S \subseteq Nat
  BY IdAssumption, FS_Subset, FS_CardinalityType
<1>2. s \in [1..n -> S] /\ \A i, j \in DOMAIN s : i < j => s[i] < s[j]
  BY DEF Sorted
<1>3. s \in Seq(S) /\ Len(s) = n
  BY <1>1, <1>2, LenProperties
<1>4. ASSUME NEW i \in 1..n, NEW j \in 1..n, s[i] = s[j] PROVE i = j
  <2>1. s[i] \in Nat /\ s[j] \in Nat /\ DOMAIN s = 1..n
    BY <1>1, <1>2
  <2>2. ~(i < j) /\ ~(j < i)
    BY <1>2, <1>4, <2>1
  <2> QED
    BY <1>1, <2>2
<1>5. s \in Injection(1..n, S)
  BY <1>2, <1>4 DEF Injection, IsInjective
<1>6. Cardinality(1..n) = n
  BY <1>1, FS_Interval
<1>7. s \in Surjection(1..n, S)
  BY <1>1, <1>5, <1>6, FS_Injection
<1>8. Members(s) = S
  BY <1>3, <1>7 DEF Surjection, Members
<1> QED
  BY <1>3, <1>4, <1>8 DEF Distinct

\* A sequence without repetition has as many members as elements.
LEMMA Counting ==
    ASSUME NEW S, NEW s \in Seq(S), Distinct(s)
    PROVE  Cardinality(Members(s)) = Len(s)
<1>1. Len(s) \in Nat /\ DOMAIN s = 1..Len(s)
  BY LenProperties
<1>2. s \in [1..Len(s) -> Members(s)]
  BY <1>1, MembersOfSeq
<1>3. s \in Bijection(1..Len(s), Members(s))
  BY <1>2 DEF Bijection, Injection, IsInjective, Surjection, Distinct, Members
<1> QED
  BY <1>1, <1>3, FS_CountingElements DEF ExistsBijection

(***************************************************************************)
(* The steps of the loop.                                                  *)
(***************************************************************************)

\* Nothing is output at first: the queue holds the nodes without blockers.
LEMMA Asked ==
    ASSUME IInv, AskOrder
    PROVE  IInv'
<1>1. /\ UNCHANGED board /\ query.kind = "none" /\ query'.kind = "order" /\ nodes' = Open
      /\ inDegree' = [t \in Open |-> Degree(t)] /\ result' = <<>> /\ reply' = "running"
      /\ queue' \in Sorted({t \in Open : Degree(t) = 0})
  BY DEF AskOrder, Ask, IInv
<1>2. GraphOK'
  BY <1>1 DEF IInv, GraphOK, Board, Open, board
<1>3. Open \subseteq Id /\ \A t \in Open : blockers[t] \subseteq Id
  BY DEF IInv, GraphOK, Open
<1>4. Members(result') = {} /\ Len(result') = 0 /\ result' \in Seq(nodes') /\ Distinct(result')
  BY <1>1, EmptySeq DEF Members, Distinct
<1>5. queue' \in Seq(nodes') /\ Distinct(queue') /\ Members(queue') = {t \in Open : Degree(t) = 0}
  <2>1. /\ queue' \in Seq({t \in Open : Degree(t) = 0}) /\ Distinct(queue')
        /\ Members(queue') = {t \in Open : Degree(t) = 0}
    BY <1>1, <1>3, Sorting
  <2> QED
    BY <1>1, <2>1
<1>6. Output'
  BY <1>4, <1>5 DEF Output, Members, Distinct
<1>7. \A t \in Open : Waiting(t)' = blockers[t]
  BY <1>1, <1>4 DEF Waiting, Members, board
<1>8. Counted'
  BY <1>1, <1>7 DEF Counted, Degree
<1>9. Queued'
  <2>1. \A t \in Open : Degree(t) = 0 <=> blockers[t] = {}
    BY <1>3, IdAssumption, FS_Subset, FS_EmptySet DEF Degree
  <2> QED
    BY <1>1, <1>4, <1>5, <1>7, <2>1 DEF Queued, Members
<1>10. Respected' /\ Answered'
  BY <1>1, <1>4 DEF Respected, Answered
<1> QED
  BY <1>1, <1>2, <1>6, <1>8, <1>9, <1>10 DEF IInv

\* The head of the queue is output, and those that waited for it only follow.
LEMMA Stepped ==
    ASSUME IInv, OrderStep
    PROVE  IInv'
<1> DEFINE n == Head(queue)
<1>1. /\ UNCHANGED <<board, query, nodes, reply>> /\ query.kind = "order" /\ reply = "running"
      /\ queue # <<>> /\ result' = Append(result, n)
      /\ inDegree' = [t \in nodes |-> IF t \in Dependents(n) THEN inDegree[t] - 1 ELSE inDegree[t]]
  BY DEF OrderStep, Running
<1>2. PICK batch \in Sorted(Released(n)) : queue' = Tail(queue) \o batch
  BY DEF OrderStep
<1>3. GraphOK /\ Output /\ Respected /\ Counted /\ Queued /\ Answered
  BY <1>1 DEF IInv
<1>4. GraphOK'
  BY <1>1, <1>3 DEF GraphOK, Board, board
<1>5. /\ n \in nodes /\ n \in Members(queue) /\ n \notin Members(result)
      /\ Tail(queue) \in Seq(nodes) /\ Distinct(Tail(queue))
      /\ Members(Tail(queue)) = Members(queue) \ {n}
  BY <1>1, <1>3, Dropping DEF Output
<1>6. /\ result' \in Seq(nodes) /\ Len(result') = Len(result) + 1 /\ result'[Len(result) + 1] = n
      /\ \A i \in 1..Len(result) : result'[i] = result[i]
      /\ Members(result') = Members(result) \cup {n} /\ Distinct(result')
  BY <1>1, <1>3, <1>5, Appending DEF Output
<1> HIDE DEF n
<1>7. \A t \in nodes : /\ Waiting(t)' = Waiting(t) \ {n}
                       /\ n \in Waiting(t) <=> t \in Dependents(n)
                       /\ IsFiniteSet(Waiting(t)) /\ Cardinality(Waiting(t)) \in Nat
  <2>1. \A t \in nodes : Waiting(t) \subseteq Id
    BY <1>3 DEF GraphOK, Waiting
  <2>2. \A t \in nodes : IsFiniteSet(Waiting(t)) /\ Cardinality(Waiting(t)) \in Nat
    BY <2>1, IdAssumption, FS_Subset, FS_CardinalityType
  <2>3. \A t : Waiting(t)' = blockers[t] \ (Members(result) \cup {n})
    BY <1>1, <1>6 DEF Waiting, Members, board
  <2> QED
    BY <1>5, <2>2, <2>3 DEF Waiting, Dependents
<1>8. \A t \in nodes : Cardinality(Waiting(t)') =
            IF t \in Dependents(n) THEN Cardinality(Waiting(t)) - 1 ELSE Cardinality(Waiting(t))
  BY <1>7, FS_RemoveElement
<1>9. Counted'
  BY <1>1, <1>3, <1>8 DEF Counted
<1>10. Released(n) = {t \in nodes : Waiting(t) # {} /\ Waiting(t)' = {}}
  <2>1. ASSUME NEW t \in nodes
        PROVE  t \in Dependents(n) /\ inDegree[t] = 1 <=> Waiting(t) # {} /\ Waiting(t)' = {}
    <3>1. inDegree[t] = Cardinality(Waiting(t))
      BY <1>3 DEF Counted
    <3>2. IsFiniteSet(Waiting(t)') /\ (Cardinality(Waiting(t)') = 0 <=> Waiting(t)' = {})
      BY <1>7, FS_RemoveElement, FS_EmptySet
    <3> QED
      BY <1>7, <1>8, <3>1, <3>2
  <2> QED
    BY <2>1 DEF Released, Dependents
<1>11. /\ batch \in Seq(nodes) /\ Distinct(batch) /\ Members(batch) = Released(n)
  <2>1. Released(n) \in SUBSET nodes /\ Released(n) \in SUBSET Id
    BY <1>3, <1>10 DEF GraphOK
  <2>2. batch \in Seq(Released(n)) /\ Distinct(batch) /\ Members(batch) = Released(n)
    BY <1>2, <2>1, Sorting
  <2> QED
    BY <2>1, <2>2
<1>12. Released(n) \cap (Members(result) \cup Members(queue)) = {}
  BY <1>3, <1>10 DEF Queued
<1>13. /\ queue' \in Seq(nodes) /\ Distinct(queue')
       /\ Members(queue') = (Members(queue) \ {n}) \cup Released(n)
  <2>1. Members(Tail(queue)) \cap Members(batch) = {}
    BY <1>5, <1>11, <1>12
  <2>2. \A q, r \in Seq(nodes) :
            Distinct(q) /\ Distinct(r) /\ Members(q) \cap Members(r) = {} =>
                /\ q \o r \in Seq(nodes) /\ Distinct(q \o r)
                /\ Members(q \o r) = Members(q) \cup Members(r)
    BY Joining
  <2> QED
    BY <1>2, <1>5, <1>11, <2>1, <2>2
<1>14. Output'
  <2>1. Members(result') \cap Members(queue') = {}
    BY <1>3, <1>5, <1>6, <1>12, <1>13 DEF Output
  <2> QED
    BY <1>1, <1>6, <1>13, <2>1 DEF Output, Members, Distinct
<1>15. Queued'
  <2>1. ASSUME NEW t \in nodes
        PROVE  Waiting(t)' = {} <=> t \in Members(result') \cup Members(queue')
    <3>1. Waiting(t)' = {} <=> Waiting(t) = {} \/ t \in Released(n)
      BY <1>7, <1>10
    <3> QED
      BY <1>3, <1>5, <1>6, <1>13, <3>1 DEF Queued
  <2> QED
    BY <1>1, <2>1 DEF Queued, Members
<1>16. Respected'
  <2>1. ASSUME NEW i \in 1..Len(result'), NEW b \in blockers[result'[i]]
        PROVE  \E j \in 1..i - 1 : result'[j] = b
    <3>1. Len(result) \in Nat
      BY <1>3, LenProperties DEF Output
    <3>2. CASE i \in 1..Len(result)
      <4>1. PICK j \in 1..i - 1 : result[j] = b
        BY <1>3, <1>6, <2>1, <3>2 DEF Respected
      <4> QED
        BY <1>6, <3>1, <3>2, <4>1
    <3>3. CASE i = Len(result) + 1
      <4>1. Waiting(n) = {} /\ b \in blockers[n]
        BY <1>3, <1>5, <1>6, <2>1, <3>3 DEF Queued
      <4>2. PICK j \in 1..Len(result) : result[j] = b
        BY <4>1 DEF Waiting, Members
      <4> QED
        BY <1>6, <3>1, <3>3, <4>2
    <3> QED
      BY <1>6, <3>1, <3>2, <3>3
  <2> QED
    BY <1>1, <2>1 DEF Respected, board
<1>17. Answered'
  BY <1>1 DEF Answered
<1> QED
  BY <1>1, <1>4, <1>9, <1>14, <1>15, <1>16, <1>17 DEF IInv

LEMMA Ended ==
    ASSUME IInv, OrderDone
    PROVE  IInv'
<1>1. /\ UNCHANGED <<board, query, nodes, inDegree, queue, result>>
      /\ query.kind = "order" /\ queue = <<>>
      /\ reply' = IF Len(result) = Cardinality(nodes) THEN "done" ELSE "failed"
  BY DEF OrderDone, Running
<1>2. GraphOK' /\ Output' /\ Respected' /\ Counted' /\ Queued'
  BY <1>1 DEF IInv, GraphOK, Board, board, Output, Respected, Counted, Queued, Waiting, Members,
             Distinct
<1>3. Answered'
  BY <1>1 DEF Answered
<1> QED
  BY <1>1, <1>2, <1>3 DEF IInv

(***************************************************************************)
(* The searches.                                                           *)
(***************************************************************************)

LEMMA DependentsClosed ==
    ASSUME NEW n
    PROVE  /\ AllDependents(n) \subseteq nodes
           /\ \A v \in AllDependents(n) \cup {n} : Dependents(v) \subseteq AllDependents(n)
<1>1. AllDependents(n) \subseteq nodes
  BY DEF AllDependents
<1>2. ASSUME NEW v \in AllDependents(n) \cup {n}, NEW u \in Dependents(v)
      PROVE  u \in AllDependents(n)
  <2>1. u \in nodes /\ v \in blockers[u]
    BY <1>2 DEF Dependents
  <2>2. ASSUME NEW T \in SUBSET nodes,
               \A w \in nodes : blockers[w] \cap (T \cup {n}) # {} => w \in T
        PROVE  u \in T
    <3>1. v \in T \cup {n}
      BY <2>2 DEF AllDependents
    <3> QED
      BY <2>1, <2>2, <3>1
  <2> QED
    BY <2>1, <2>2 DEF AllDependents
<1> QED
  BY <1>1, <1>2

\* A set of nodes with what waits for n and for its members has all dependents.
LEMMA DependentsLeast ==
    ASSUME NEW n, NEW T \in SUBSET nodes, \A v \in T \cup {n} : Dependents(v) \subseteq T
    PROVE  AllDependents(n) \subseteq T
<1>1. ASSUME NEW u \in nodes, blockers[u] \cap (T \cup {n}) # {} PROVE u \in T
  <2>1. PICK v \in T \cup {n} : v \in blockers[u]
    BY <1>1
  <2> QED
    BY <2>1 DEF Dependents
<1> QED
  BY <1>1 DEF AllDependents

LEMMA SameGraph ==
    ASSUME UNCHANGED <<blockers, nodes>>
    PROVE  /\ \A n : AllDependents(n)' = AllDependents(n) /\ Dependents(n)' = Dependents(n)
           /\ \A s : Chain(s)' = Chain(s)
  BY DEF AllDependents, Dependents, Chain

LEMMA Extending ==
    ASSUME NEW p \in Seq(nodes), Len(p) >= 1, Chain(p), NEW x \in Dependents(p[Len(p)])
    PROVE  LET r == Append(p, x) IN
              /\ r \in Seq(nodes) /\ Len(r) >= 1 /\ r[1] = p[1] /\ r[Len(r)] = x /\ Chain(r)
<1> DEFINE r == Append(p, x)
<1>1. x \in nodes /\ p[Len(p)] \in blockers[x]
  BY DEF Dependents
<1>2. /\ r \in Seq(nodes) /\ Len(r) = Len(p) + 1 /\ Len(p) \in Nat
      /\ \A i \in 1..Len(p) : r[i] = p[i]
      /\ r[Len(p) + 1] = x
  BY <1>1, AppendProperties, LenProperties
<1> HIDE DEF r
<1>3. ASSUME NEW i \in 1..Len(r) - 1 PROVE r[i] \in blockers[r[i + 1]]
  <2>1. CASE i = Len(p)
    BY <1>1, <1>2, <2>1
  <2>2. CASE i # Len(p)
    BY <1>2, <2>2 DEF Chain
  <2> QED
    BY <2>1, <2>2
<1> QED
  BY <1>2, <1>3 DEF Chain, r

LEMMA CycleAsked ==
    ASSUME IInv, NEW a \in Id, NEW b \in Id, AskCycle(a, b)
    PROVE  IInv'
<1>1. /\ UNCHANGED board /\ query'.kind = "cycle" /\ query'.from = a /\ query'.to = b
      /\ nodes' = Board /\ query.kind = "none"
  BY DEF AskCycle, Ask
<1>2. GraphOK'
  BY <1>1 DEF IInv, GraphOK, Board, board
<1>3. CASE a = b
  BY <1>1, <1>2, <1>3 DEF AskCycle, IInv, CycleInv
<1>4. CASE a # b /\ ~({a, b} \subseteq Board)
  BY <1>1, <1>2, <1>4 DEF AskCycle, IInv, CycleInv
<1>5. CASE a # b /\ {a, b} \subseteq Board
  <2>1. queue' = << <<b>> >> /\ visited' = {b} /\ reply' = "running"
    BY <1>5 DEF AskCycle
  <2>2. Len(queue') = 1 /\ queue'[1] = <<b>> /\ Len(<<b>>) = 1 /\ <<b>>[1] = b
    BY <2>1
  <2>3. queue' \in Seq(Seq(nodes')) /\ <<b>> \in Seq(nodes')
    BY <1>1, <1>5, <2>1
  <2>4. \A i \in 1..Len(queue') : i = 1 /\ queue'[i] = <<b>>
    BY <2>2
  <2>5. Route(<<b>>)'
    BY <1>1, <2>1, <2>2, <2>3 DEF Route, Chain
  <2>6. \A i \in 1..Len(queue') : Route(queue[i])'
    <3>1. \A p : p = <<b>> => Route(p)'
      BY <2>5
    <3> QED
      BY <2>4, <3>1
  <2>7. b \in Frontier'
    BY <2>2 DEF Frontier
  <2>8. Searching'
    BY <1>1, <2>1, <2>3, <2>6, <2>7 DEF Searching
  <2> QED
    BY <1>1, <1>2, <1>5, <2>1, <2>8 DEF IInv, CycleInv
<1> QED
  BY <1>3, <1>4, <1>5

LEMMA CycleClosed ==
    ASSUME IInv, Running("cycle"), queue # <<>>,
           Head(queue)[Len(Head(queue))] = query.from,
           reply' = "failed", result' = <<query.from>> \o Head(queue)
    PROVE  IInv'
<1> DEFINE p == Head(queue)
           a == query.from
<1>1. /\ UNCHANGED <<board, query, nodes>> /\ query.kind = "cycle" /\ reply = "running"
      /\ CycleInv /\ GraphOK
  BY DEF Running, IInv
<1>2. a # query.to /\ {a, query.to} \subseteq nodes /\ Searching
  BY <1>1 DEF CycleInv
<1>3. Route(p)
  <2>1. p = queue[1] /\ Len(queue) >= 1 /\ Len(queue) \in Nat
    BY <1>2, HeadTailProperties, EmptySeq, LenProperties DEF Searching
  <2> QED
    BY <1>2, <2>1 DEF Searching
<1>4. a \in AllDependents(query.to)
  BY <1>2, <1>3 DEF Searching, Route
<1>5. /\ Head(result') = a /\ Tail(result') = p /\ result'[2] = p[1]
      /\ result'[Len(result')] = p[Len(p)]
  <2>1. p \in Seq(nodes) /\ Len(p) \in Nat /\ Len(p) >= 1 /\ <<a>> \in Seq(nodes)
    BY <1>2, <1>3, LenProperties DEF Route
  <2>2. /\ result' \in Seq(nodes) /\ Len(result') = Len(p) + 1
        /\ \A i \in 1..Len(p) + 1 : result'[i] = IF i <= 1 THEN a ELSE p[i - 1]
    BY <2>1, ConcatProperties
  <2>3. result' # <<>>
    BY <2>1, <2>2, EmptySeq
  <2>4. /\ Head(result') = result'[1] /\ Tail(result') \in Seq(nodes)
        /\ Len(Tail(result')) = Len(result') - 1
        /\ \A i \in 1..Len(Tail(result')) : Tail(result')[i] = result'[i + 1]
    BY <2>2, <2>3, HeadTailProperties
  <2>5. Tail(result') = p
    BY <2>1, <2>2, <2>4, SeqEqual
  <2> QED
    BY <2>1, <2>2, <2>4, <2>5
<1>6. Closing'
  <2>1. Chain(p) /\ \A m : AllDependents(m)' = AllDependents(m)
    BY <1>1, <1>3, SameGraph DEF Route, board
  <2>2. p[1] = query.to /\ p[Len(p)] = a
    BY <1>3 DEF Route
  <2>3. Chain(Tail(result))'
    <3>1. Tail(result') = p /\ blockers' = blockers
      BY <1>1, <1>5 DEF board
    <3> HIDE DEF p
    <3> QED
      BY <2>1, <3>1 DEF Chain
  <2> QED
    BY <1>1, <1>4, <1>5, <2>1, <2>2, <2>3 DEF Closing
<1>7. CycleInv'
  BY <1>1, <1>2, <1>6 DEF CycleInv
<1> QED
  BY <1>1, <1>7 DEF IInv, GraphOK, Board, board

\* The paths to the nodes that were not seen join the queue.
LEMMA CycleWidened ==
    ASSUME IInv, CycleStep, Head(queue)[Len(Head(queue))] # query.from
    PROVE  IInv'
<1> DEFINE p == Head(queue)
           n == p[Len(p)]
           unseen == Dependents(n) \ visited
<1>1. /\ UNCHANGED <<board, query, nodes, reply>> /\ query.kind = "cycle" /\ reply = "running"
      /\ CycleInv /\ GraphOK /\ queue # <<>> /\ visited' = visited \cup unseen
  BY DEF CycleStep, Running, IInv
<1>2. PICK batch \in Sorted(unseen) :
          queue' = Tail(queue) \o [i \in DOMAIN batch |-> Append(p, batch[i])]
  BY DEF CycleStep
<1> DEFINE new == [i \in DOMAIN batch |-> Append(p, batch[i])]
<1>3. /\ query.from # query.to /\ {query.from, query.to} \subseteq nodes /\ Searching
      /\ n # query.from
  BY <1>1 DEF CycleInv
<1>4. /\ p = queue[1] /\ Len(queue) >= 1 /\ Len(queue) \in Nat
      /\ Tail(queue) \in Seq(Seq(nodes)) /\ Len(Tail(queue)) = Len(queue) - 1
      /\ \A i \in 1..Len(Tail(queue)) : Tail(queue)[i] = queue[i + 1]
  BY <1>1, <1>3, HeadTailProperties, EmptySeq, LenProperties DEF Searching
<1>5. Route(p)
  BY <1>3, <1>4 DEF Searching
<1>6. unseen \subseteq nodes /\ unseen \subseteq AllDependents(query.to)
  <2>1. n \in AllDependents(query.to) \cup {query.to}
    BY <1>3, <1>5 DEF Searching, Route
  <2>2. Dependents(n) \subseteq AllDependents(query.to)
    BY <2>1, DependentsClosed
  <2> QED
    BY <2>2 DEF Dependents
<1>7. batch \in Seq(unseen) /\ Members(batch) = unseen /\ Len(batch) \in Nat /\ DOMAIN batch = 1..Len(batch)
  BY <1>1, <1>2, <1>6, Sorting, LenProperties DEF GraphOK
<1>8. ASSUME NEW i \in 1..Len(batch)
      PROVE  /\ new[i] = Append(p, batch[i]) /\ new[i] \in Seq(nodes) /\ Len(new[i]) >= 1
             /\ new[i][1] = query.to /\ new[i][Len(new[i])] = batch[i] /\ Chain(new[i])
             /\ batch[i] \in unseen
  <2>1. batch[i] \in unseen /\ batch[i] \in Dependents(n)
    BY <1>7, ElementOfSeq
  <2>2. p \in Seq(nodes) /\ Len(p) >= 1 /\ Chain(p) /\ p[1] = query.to
    BY <1>5 DEF Route
  <2>3. new[i] = Append(p, batch[i])
    BY <1>7
  <2> HIDE DEF p, new
  <2> QED
    BY <2>1, <2>2, <2>3, Extending
<1>9. new \in Seq(Seq(nodes)) /\ Len(new) = Len(batch)
  <2>1. new \in [1..Len(batch) -> Seq(nodes)]
    <3>1. \A i \in DOMAIN batch : Append(p, batch[i]) \in Seq(nodes)
      BY <1>7, <1>8
    <3> QED
      BY <1>7, <3>1
  <2> HIDE DEF new
  <2> QED
    BY <1>7, <2>1, LenProperties
<1> HIDE DEF new
<1>10. /\ queue' \in Seq(Seq(nodes)) /\ Len(queue') = Len(queue) - 1 + Len(batch)
       /\ \A i \in 1..Len(queue') :
             queue'[i] = IF i <= Len(queue) - 1 THEN queue[i + 1] ELSE new[i - (Len(queue) - 1)]
  <2>1. queue' = Tail(queue) \o new
    BY <1>2 DEF new
  <2> HIDE DEF p, n, unseen
  <2>2. /\ queue' \in Seq(Seq(nodes)) /\ Len(queue') = Len(Tail(queue)) + Len(new)
        /\ \A i \in 1..Len(Tail(queue)) + Len(new) :
              queue'[i] = IF i <= Len(Tail(queue)) THEN Tail(queue)[i] ELSE new[i - Len(Tail(queue))]
    <3> DEFINE t == Tail(queue)
    <3>1. t \in Seq(Seq(nodes)) /\ new \in Seq(Seq(nodes)) /\ queue' = t \o new
      BY <1>4, <1>9, <2>1
    <3> HIDE DEF t
    <3>2. /\ t \o new \in Seq(Seq(nodes)) /\ Len(t \o new) = Len(t) + Len(new)
          /\ \A i \in 1..Len(t) + Len(new) :
                (t \o new)[i] = IF i <= Len(t) THEN t[i] ELSE new[i - Len(t)]
      BY <3>1, ConcatProperties
    <3>3. /\ queue' \in Seq(Seq(nodes)) /\ Len(queue') = Len(t) + Len(new)
          /\ \A i \in 1..Len(t) + Len(new) :
                queue'[i] = IF i <= Len(t) THEN t[i] ELSE new[i - Len(t)]
      BY <3>1, <3>2, Zenon
    <3> QED
      BY <3>3 DEF t
  <2> QED
    BY <1>4, <1>9, <2>2
<1> HIDE DEF p, n, unseen
<1>11. /\ \A i \in 2..Len(queue) : i - 1 \in 1..Len(queue') /\ queue'[i - 1] = queue[i]
       /\ \A i \in 1..Len(batch) : /\ i + (Len(queue) - 1) \in 1..Len(queue')
                                   /\ queue'[i + (Len(queue) - 1)] = new[i]
       /\ \A i \in 1..Len(queue') :
             \/ i + 1 \in 1..Len(queue) /\ queue'[i] = queue[i + 1]
             \/ i - (Len(queue) - 1) \in 1..Len(batch) /\ queue'[i] = new[i - (Len(queue) - 1)]
  <2>1. PICK k \in Nat : k = Len(queue) - 1
    <3>1. Len(queue) - 1 \in Nat
      BY <1>4
    <3> QED
      BY <3>1
  <2>2. Len(queue) = k + 1 /\ Len(queue') = k + Len(batch) /\ Len(batch) \in Nat
    BY <1>4, <1>7, <1>10, <2>1
  <2>3. \A i \in 1..Len(queue') : queue'[i] = IF i <= k THEN queue[i + 1] ELSE new[i - k]
    BY <1>10, <2>1
  <2>4. ASSUME NEW i \in 2..Len(queue)
        PROVE  i - 1 \in 1..Len(queue') /\ queue'[i - 1] = queue[i]
    <3>1. i - 1 \in 1..Len(queue') /\ i - 1 <= k /\ (i - 1) + 1 = i
      BY <2>2
    <3> QED
      BY <2>3, <3>1
  <2>5. ASSUME NEW i \in 1..Len(batch)
        PROVE  i + k \in 1..Len(queue') /\ queue'[i + k] = new[i]
    <3>1. i + k \in 1..Len(queue') /\ ~(i + k <= k) /\ (i + k) - k = i
      BY <2>2
    <3> QED
      BY <2>3, <3>1
  <2>6. ASSUME NEW i \in 1..Len(queue')
        PROVE  \/ i + 1 \in 1..Len(queue) /\ queue'[i] = queue[i + 1]
               \/ i - k \in 1..Len(batch) /\ queue'[i] = new[i - k]
    BY <2>2, <2>3
  <2> QED
    BY <2>1, <2>4, <2>5, <2>6
<1>12. ASSUME NEW i \in 1..Len(queue') PROVE Route(queue[i])'
  <2>1. /\ queue'[i] \in Seq(nodes) /\ Len(queue'[i]) >= 1 /\ queue'[i][1] = query.to
        /\ Chain(queue'[i]) /\ queue'[i][Len(queue'[i])] \in visited'
    <3>1. CASE i + 1 \in 1..Len(queue) /\ queue'[i] = queue[i + 1]
      <4>1. Route(queue[i + 1])
        BY <1>3, <3>1 DEF Searching
      <4> QED
        BY <1>1, <3>1, <4>1 DEF Route
    <3>2. CASE i - (Len(queue) - 1) \in 1..Len(batch) /\ queue'[i] = new[i - (Len(queue) - 1)]
      BY <1>1, <1>8, <3>2
    <3> QED
      BY <1>11, <3>1, <3>2
  <2>2. Chain(queue[i])'
    BY <1>1, <2>1 DEF Chain, board
  <2> QED
    BY <1>1, <2>1, <2>2 DEF Route
<1>13. Frontier' = (Frontier' \cup unseen) /\ \A v \in Frontier : v = n \/ v \in Frontier'
  <2>1. ASSUME NEW v \in unseen PROVE v \in Frontier'
    <3>1. PICK i \in 1..Len(batch) : v = batch[i]
      BY <1>7 DEF Members
    <3>2. v = new[i][Len(new[i])]
      BY <1>8, <3>1
    <3> QED
      BY <1>11, <3>2 DEF Frontier
  <2>2. ASSUME NEW v \in Frontier, v # n PROVE v \in Frontier'
    <3>1. PICK i \in 1..Len(queue) : v = queue[i][Len(queue[i])]
      BY DEF Frontier
    <3>2. i # 1
      BY <1>4, <2>2, <3>1 DEF n
    <3> QED
      BY <1>4, <1>11, <3>1, <3>2 DEF Frontier
  <2> QED
    BY <2>1, <2>2
<1>14. ASSUME NEW v \in visited'
       PROVE  v \in Frontier' \/ (v # query.from /\ Dependents(v) \subseteq visited')
  <2>1. CASE v \in unseen
    BY <1>13, <2>1
  <2>2. CASE v \in visited /\ v # n
    BY <1>1, <1>3, <1>13, <2>2 DEF Searching
  <2>3. CASE v = n
    BY <1>1, <1>3, <2>3 DEF unseen
  <2> QED
    BY <1>1, <2>1, <2>2, <2>3
<1>15. Searching'
  <2>1. visited' \subseteq AllDependents(query.to) \cup {query.to} /\ query.to \in visited'
    BY <1>1, <1>3, <1>6 DEF Searching
  <2>2. \A m : AllDependents(m)' = AllDependents(m) /\ Dependents(m)' = Dependents(m)
    BY <1>1, SameGraph DEF board
  <2> QED
    BY <1>1, <1>10, <1>12, <1>14, <2>1, <2>2 DEF Searching
<1>16. CycleInv'
  BY <1>1, <1>3, <1>15 DEF CycleInv
<1> QED
  BY <1>1, <1>16 DEF IInv, GraphOK, Board, board

LEMMA CycleEnded ==
    ASSUME IInv, CycleNone
    PROVE  IInv'
<1>1. /\ UNCHANGED <<board, query, nodes, queue, visited, result>> /\ query.kind = "cycle"
      /\ reply = "running" /\ queue = <<>> /\ reply' = "done"
  BY DEF CycleNone, Running
<1>2. CycleInv /\ query.from # query.to /\ {query.from, query.to} \subseteq nodes /\ Searching
  BY <1>1 DEF IInv, CycleInv
<1>3. Searching'
  <2>1. \A m : AllDependents(m)' = AllDependents(m) /\ Dependents(m)' = Dependents(m)
    BY <1>1, SameGraph DEF board
  <2>2. Frontier' = Frontier
    BY <1>1 DEF Frontier
  <2>3. \A i \in 1..Len(queue') : Route(queue[i])'
    BY <1>1, EmptySeq
  <2> QED
    BY <1>1, <1>2, <2>1, <2>2, <2>3 DEF Searching
<1>4. CycleInv'
  BY <1>1, <1>2, <1>3 DEF CycleInv
<1> QED
  BY <1>1, <1>4 DEF IInv, GraphOK, Board, board

LEMMA Scored ==
    ASSUME IInv, (\E a \in Id : AskScore(a)) \/ ScoreStep \/ ScoreDone
    PROVE  IInv'
<1>1. UNCHANGED board /\ query'.kind = "score" /\ (nodes' = nodes \/ nodes' = Board)
  BY DEF AskScore, Ask, ScoreStep, ScoreDone, Running
<1>2. GraphOK'
  BY <1>1 DEF IInv, GraphOK, Board, board
<1>3. ASSUME NEW a \in Id, AskScore(a) PROVE ScoreInv'
  <2>1. /\ nodes' = Board /\ query'.from = a /\ visited' = {} /\ reply' = "running"
        /\ stack' = IF a \in Board THEN {t \in Board : a \in blockers[t]} ELSE {}
    BY <1>3 DEF AskScore, Ask, IInv
  <2>2. a \in Board => stack' = Dependents(a)'
    BY <1>1, <2>1 DEF Dependents, board
  <2>3. Dependents(a)' \subseteq AllDependents(a)'
    BY DEF AllDependents, Dependents
  <2> QED
    BY <2>1, <2>2, <2>3 DEF ScoreInv
<1>4. ASSUME ScoreStep PROVE ScoreInv'
  <2>1. PICK n \in stack : visited' = visited \cup {n} /\ stack' = (stack \cup Push(n)) \ {n}
    BY <1>4 DEF ScoreStep
  <2>2. UNCHANGED <<board, query, nodes, reply>> /\ reply = "running" /\ ScoreInv
    BY <1>4 DEF ScoreStep, Running, IInv
  <2>3. query.from \in nodes /\ n \in AllDependents(query.from)
    BY <2>2 DEF ScoreInv
  <2>4. Dependents(n) \subseteq AllDependents(query.from)
    BY <2>3, DependentsClosed
  <2>5. visited' \cup stack' = visited \cup stack \cup Dependents(n)
    BY <2>1 DEF Push
  <2>6. \A m : AllDependents(m)' = AllDependents(m) /\ Dependents(m)' = Dependents(m)
    BY <2>2, SameGraph DEF board
  <2>7. \A v \in visited' \cup {query.from} : Dependents(v) \subseteq visited' \cup stack'
    BY <2>1, <2>2, <2>3, <2>5 DEF ScoreInv
  <2> QED
    BY <2>2, <2>3, <2>4, <2>5, <2>6, <2>7 DEF ScoreInv
<1>5. ASSUME ScoreDone PROVE ScoreInv'
  <2>1. UNCHANGED <<board, query, nodes, visited, stack>> /\ stack = {} /\ ScoreInv
    BY <1>5 DEF ScoreDone, Running, IInv
  <2>2. \A m : AllDependents(m)' = AllDependents(m) /\ Dependents(m)' = Dependents(m)
    BY <2>1, SameGraph DEF board
  <2> QED
    BY <2>1, <2>2 DEF ScoreInv
<1> QED
  BY <1>1, <1>2, <1>3, <1>4, <1>5 DEF IInv

(***************************************************************************)
(* Numbers.                                                                *)
(***************************************************************************)

\* In a finite set that is not empty, f is greatest somewhere.
LEMMA Greatest ==
    ASSUME NEW S, IsFiniteSet(S), S # {}, NEW f, \A x \in S : f[x] \in Nat
    PROVE  \E x \in S : \A y \in S : f[y] <= f[x]
<1> DEFINE above == [x \in S |-> {y \in S : f[y] > f[x]}]
           T == {above[x] : x \in S}
<1>1. IsWellFoundedOn(StrictSubsetOrdering(S), SUBSET S)
  BY FS_StrictSubsetOrderingWellFounded, FS_FiniteSubsetsOfFinite
<1>2. T \subseteq SUBSET S /\ T # {}
  OBVIOUS
<1>3. \E A \in T : \A B \in T : <<B, A>> \notin StrictSubsetOrdering(S)
  <2> HIDE DEF T
  <2> QED
    BY <1>1, <1>2, WFMin
<1>4. PICK x \in S : \A y \in S : <<above[y], above[x]>> \notin StrictSubsetOrdering(S)
  BY <1>3
<1>5. ASSUME NEW y \in S, f[y] > f[x] PROVE FALSE
  <2>1. y \in above[x] /\ y \notin above[y]
    BY <1>5
  <2>2. \A z \in S : f[z] > f[y] => f[z] > f[x]
    BY <1>5
  <2>3. above[y] \subseteq above[x] /\ above[y] \in SUBSET S /\ above[x] \in SUBSET S
    BY <2>2
  <2> HIDE DEF above
  <2> QED
    BY <1>4, <2>1, <2>3 DEF StrictSubsetOrdering
<1> QED
  BY <1>5

LEMMA Least ==
    ASSUME NEW n \in Nat, NEW S \in SUBSET (0..n), S # {}
    PROVE  \E m \in S : \A k \in S : m <= k
<1> DEFINE f == [m \in S |-> n - m]
<1>1. IsFiniteSet(S) /\ \A m \in S : f[m] \in Nat
  <2>1. \A m \in S : m \in 0..n /\ f[m] \in Nat
    OBVIOUS
  <2>2. IsFiniteSet(0..n)
    BY FS_Interval
  <2>3. IsFiniteSet(S)
    BY <2>2, FS_Subset
  <2> QED
    BY <2>1, <2>3
<1>2. \E m \in S : \A k \in S : f[k] <= f[m]
  <2> HIDE DEF f
  <2> QED
    BY <1>1, Greatest
<1> QED
  BY <1>2

LEMMA MostIsGreatest ==
    ASSUME NEW S, IsFiniteSet(S), S # {}, NEW f, \A x \in S : f[x] \in Nat
    PROVE  LET m == Most({f[x] : x \in S}) IN
              m \in {f[x] : x \in S} /\ \A x \in S : f[x] <= m
<1>1. \E m \in {f[x] : x \in S} : \A n \in {f[x] : x \in S} : n <= m
  BY Greatest
<1> QED
  BY <1>1 DEF Most

(***************************************************************************)
(* The critical path.                                                      *)
(***************************************************************************)

\* What the order is when the critical path is computed from it.
Ordered ==
    /\ nodes \subseteq Nat /\ result \in Seq(nodes) /\ Members(result) = nodes
    /\ Distinct(result) /\ Respected

LEMMA BeforeIsFinite ==
    ASSUME NEW i \in Nat
    PROVE  Before(i) \subseteq 1..i - 1 /\ IsFiniteSet(Before(i))
<1>1. Before(i) \in SUBSET (1..i - 1)
  BY DEF Before
<1> QED
  BY <1>1, FS_Interval, FS_Subset

Length(L, i) == IF Before(i) = {} THEN 1 ELSE 1 + Most({L[j] : j \in Before(i)})

\* The lengths depend on those of earlier nodes only, and so they exist.
LEMMA LengthsExist ==
    ASSUME Ordered
    PROVE  dp = [i \in 1..Len(result) |-> Length(dp, i)]
<1> DEFINE N == Len(result)
           Good(n) == \E L : L = [i \in 1..n |-> Length(L, i)]
           Bad == {n \in 0..N : ~Good(n)}
<1>1. N \in Nat
  BY LenProperties DEF Ordered
<1>2. Good(0)
  <2>1. \A L : [i \in 1..0 |-> Length(L, i)] = [i \in 1..0 |-> 1]
    OBVIOUS
  <2> QED
    BY <2>1
<1>3. ASSUME NEW n \in 1..N, Good(n - 1) PROVE Good(n)
  <2>1. PICK L : L = [i \in 1..n - 1 |-> Length(L, i)]
    BY <1>3
  <2> DEFINE K == [i \in 1..n |-> Length(L, i)]
  <2>2. \A i \in 1..n - 1 : L[i] = K[i]
    BY <2>1
  <2>3. ASSUME NEW i \in 1..n PROVE Length(K, i) = Length(L, i)
    <3>1. \A j \in Before(i) : K[j] = L[j]
      <4>1. i \in Nat /\ 1..i - 1 \subseteq 1..n - 1
        BY <1>1
      <4> HIDE DEF K
      <4> QED
        BY <2>2, <4>1, BeforeIsFinite
    <3>2. {K[j] : j \in Before(i)} = {L[j] : j \in Before(i)}
      BY <3>1
    <3> HIDE DEF K
    <3> QED
      BY <3>2 DEF Length
  <2>4. K = [i \in 1..n |-> Length(K, i)]
    BY <2>3
  <2> QED
    BY <2>4
<1>4. Good(N)
  <2>1. SUFFICES ASSUME Bad # {} PROVE FALSE
    BY <1>1
  <2>2. Bad \in SUBSET (0..N)
    OBVIOUS
  <2>3. PICK n \in Bad : \A k \in Bad : n <= k
    <3> HIDE DEF Bad
    <3> QED
      BY <1>1, <2>1, <2>2, Least
  <2>4. n \in 0..N /\ ~Good(n)
    OBVIOUS
  <2> HIDE DEF Good
  <2>5. n \in 1..N /\ n - 1 \in 0..N
    BY <1>1, <1>2, <2>4
  <2>6. n - 1 \notin Bad
    BY <2>3, <2>5
  <2> QED
    BY <1>3, <2>4, <2>5, <2>6
<1> QED
  BY <1>4 DEF dp, Length

\* The length at a node: one more than the greatest before it.
LEMMA Lengths ==
    ASSUME Ordered
    PROVE  \A i \in 1..Len(result) :
              /\ dp[i] \in Nat \ {0}
              /\ \A j \in Before(i) : j \in 1..Len(result) /\ j < i /\ dp[j] + 1 <= dp[i]
              /\ dp[i] # 1 => \E j \in Before(i) : dp[j] + 1 = dp[i]
<1> DEFINE N == Len(result)
           Good(i) == dp[i] \in Nat \ {0}
           Bad == {i \in 0..N : i # 0 /\ ~Good(i)}
<1>1. N \in Nat
  BY LenProperties DEF Ordered
<1>2. \A i \in 1..N : dp[i] = Length(dp, i)
  BY LengthsExist
<1>3. ASSUME NEW i \in 1..N PROVE \A j \in Before(i) : j \in 1..N /\ j < i
  <2>1. i \in Nat /\ 1..i - 1 \subseteq 1..N /\ \A j \in 1..i - 1 : j < i
    BY <1>1
  <2> QED
    BY <2>1, BeforeIsFinite
<1>4. ASSUME NEW i \in 1..N, \A j \in Before(i) : Good(j)
      PROVE  /\ Good(i) /\ \A j \in Before(i) : dp[j] + 1 <= dp[i]
             /\ dp[i] # 1 => \E j \in Before(i) : dp[j] + 1 = dp[i]
  <2>1. CASE Before(i) = {}
    <3>1. dp[i] = 1
      BY <1>2, <2>1 DEF Length
    <3> QED
      BY <2>1, <3>1
  <2>2. CASE Before(i) # {}
    <3> DEFINE m == Most({dp[j] : j \in Before(i)})
    <3>1. dp[i] = 1 + m
      BY <1>2, <2>2 DEF Length
    <3>2. m \in {dp[j] : j \in Before(i)} /\ \A j \in Before(i) : dp[j] <= m
      <4>1. IsFiniteSet(Before(i)) /\ \A j \in Before(i) : dp[j] \in Nat
        BY <1>1, <1>4, BeforeIsFinite
      <4> QED
        BY <2>2, <4>1, MostIsGreatest
    <3> HIDE DEF m
    <3> QED
      BY <1>4, <3>1, <3>2
  <2> QED
    BY <2>1, <2>2
<1>5. \A i \in 1..N : Good(i)
  <2>1. SUFFICES ASSUME Bad # {} PROVE FALSE
    BY <1>1
  <2>2. Bad \in SUBSET (0..N)
    OBVIOUS
  <2>3. PICK i \in Bad : \A k \in Bad : i <= k
    <3> HIDE DEF Bad
    <3> QED
      BY <1>1, <2>1, <2>2, Least
  <2>4. i \in 1..N /\ ~Good(i)
    BY <1>1
  <2>5. \A j \in Before(i) : j \notin Bad /\ j \in 1..N
    <3>1. \A j \in 1..N : j < i => j \notin Bad
      BY <2>3, <2>4
    <3> QED
      BY <1>3, <2>4, <3>1
  <2> QED
    BY <1>4, <2>4, <2>5
<1> QED
  BY <1>3, <1>4, <1>5

LEMMA Parents ==
    ASSUME Ordered, NEW i \in 1..Len(result), dp[i] # 1
    PROVE  parent(i) \in Before(i) /\ dp[parent(i)] + 1 = dp[i]
<1> DEFINE S == {j \in Before(i) : dp[j] + 1 = dp[i]}
<1>1. Len(result) \in Nat
  BY LenProperties DEF Ordered
<1>2. S # {} /\ S \in SUBSET (0..Len(result))
  <2>1. Before(i) \subseteq 0..Len(result)
    BY Lengths
  <2> QED
    BY <2>1, Lengths
<1>3. PICK j \in S : \A k \in S : j <= k
  <2> HIDE DEF S
  <2> QED
    BY <1>1, <1>2, Least
<1>4. ASSUME NEW k \in Before(i), k < j PROVE dp[k] < dp[j]
  <2>1. dp[k] + 1 # dp[i]
    BY <1>2, <1>3, <1>4
  <2>2. dp[k] \in Nat /\ dp[j] \in Nat /\ dp[k] + 1 <= dp[i] /\ dp[j] + 1 = dp[i]
    BY <1>3, Lengths
  <2> QED
    BY <2>1, <2>2
<1>5. \E h \in Before(i) : dp[h] + 1 = dp[i] /\ \A k \in Before(i) : k < h => dp[k] < dp[h]
  BY <1>3, <1>4
<1> QED
  BY <1>5 DEF parent

LEMMA PathsExist ==
    ASSUME Ordered
    PROVE  path = [i \in 1..Len(result) |->
                      IF dp[i] = 1 THEN <<result[i]>> ELSE Append(path[parent(i)], result[i])]
<1> DEFINE N == Len(result)
           Longer(P, i) == IF dp[i] = 1 THEN <<result[i]>> ELSE Append(P[parent(i)], result[i])
           Good(n) == \E P : P = [i \in 1..n |-> Longer(P, i)]
           Bad == {n \in 0..N : ~Good(n)}
<1>1. N \in Nat
  BY LenProperties DEF Ordered
<1>2. Good(0)
  <2>1. \A P : [i \in 1..0 |-> Longer(P, i)] = [i \in 1..0 |-> 1]
    OBVIOUS
  <2> QED
    BY <2>1
<1>3. ASSUME NEW n \in 1..N, Good(n - 1) PROVE Good(n)
  <2>1. PICK P : P = [i \in 1..n - 1 |-> Longer(P, i)]
    BY <1>3
  <2> DEFINE Q == [i \in 1..n |-> Longer(P, i)]
  <2>2. \A i \in 1..n - 1 : P[i] = Q[i]
    <3> HIDE DEF Longer
    <3>1. \A i \in 1..n - 1 : P[i] = Longer(P, i) /\ i \in 1..n
      BY <2>1
    <3>2. \A i \in 1..n : Q[i] = Longer(P, i)
      OBVIOUS
    <3> QED
      BY <3>1, <3>2, Zenon
  <2>3. ASSUME NEW i \in 1..n, dp[i] # 1 PROVE Q[parent(i)] = P[parent(i)]
    <3>1. parent(i) \in 1..n - 1
      <4>1. i \in 1..N
        BY <1>1
      <4>2. parent(i) \in 1..N /\ parent(i) < i
        BY <2>3, <4>1, Parents, Lengths
      <4> QED
        BY <1>1, <4>2
    <3> QED
      BY <2>2, <3>1
  <2>4. Q = [i \in 1..n |-> Longer(Q, i)]
    BY <2>3
  <2> QED
    BY <2>4
<1>4. Good(N)
  <2>1. SUFFICES ASSUME Bad # {} PROVE FALSE
    BY <1>1
  <2>2. Bad \in SUBSET (0..N)
    OBVIOUS
  <2>3. PICK n \in Bad : \A k \in Bad : n <= k
    <3> HIDE DEF Bad
    <3> QED
      BY <1>1, <2>1, <2>2, Least
  <2>4. n \in 0..N /\ ~Good(n)
    OBVIOUS
  <2> HIDE DEF Good
  <2>5. n \in 1..N /\ n - 1 \in 0..N
    BY <1>1, <1>2, <2>4
  <2>6. n - 1 \notin Bad
    BY <2>3, <2>5
  <2> QED
    BY <1>3, <2>4, <2>5, <2>6
<1> QED
  BY <1>4 DEF path

\* A path is a chain of nodes that ends at its node, and has the length of it.
LEMMA PathsAreChains ==
    ASSUME Ordered
    PROVE  \A i \in 1..Len(result) :
              /\ path[i] \in Seq(nodes) /\ Len(path[i]) = dp[i] /\ Chain(path[i])
              /\ path[i][Len(path[i])] = result[i]
<1> DEFINE N == Len(result)
           Good(i) == /\ path[i] \in Seq(nodes) /\ Len(path[i]) = dp[i] /\ Chain(path[i])
                      /\ path[i][Len(path[i])] = result[i]
           Bad == {i \in 0..N : i # 0 /\ ~Good(i)}
<1>1. N \in Nat /\ \A i \in 1..N : result[i] \in nodes
  BY LenProperties, ElementOfSeq DEF Ordered
<1>2. \A i \in 1..N : path[i] = IF dp[i] = 1 THEN <<result[i]>> ELSE Append(path[parent(i)], result[i])
  BY PathsExist
<1>3. ASSUME NEW i \in 1..N, dp[i] # 1 => Good(parent(i)) PROVE Good(i)
  <2>1. CASE dp[i] = 1
    <3>1. path[i] = <<result[i]>>
      BY <1>2, <2>1
    <3>2. \A x \in nodes : /\ <<x>> \in Seq(nodes) /\ Len(<<x>>) = 1 /\ <<x>>[1] = x /\ Chain(<<x>>)
      BY DEF Chain
    <3> QED
      BY <1>1, <2>1, <3>1, <3>2
  <2>2. CASE dp[i] # 1
    <3> DEFINE p == path[parent(i)]
    <3>1. path[i] = Append(p, result[i])
      BY <1>2, <2>2
    <3>2. /\ parent(i) \in Before(i) /\ dp[parent(i)] + 1 = dp[i]
          /\ parent(i) \in 1..N /\ dp[parent(i)] \in Nat \ {0}
      BY <2>2, Parents, Lengths
    <3>3. p \in Seq(nodes) /\ Len(p) = dp[parent(i)] /\ Chain(p) /\ p[Len(p)] = result[parent(i)]
      BY <1>3, <2>2
    <3>4. result[i] \in Dependents(p[Len(p)])
      BY <1>1, <3>2, <3>3 DEF Dependents, Before
    <3>5. Len(Append(p, result[i])) = Len(p) + 1
      BY <1>1, <3>3, AppendProperties
    <3>6. Len(p) >= 1
      BY <3>2, <3>3
    <3> HIDE DEF p
    <3> QED
      BY <3>1, <3>2, <3>3, <3>4, <3>5, <3>6, Extending
  <2> QED
    BY <2>1, <2>2
<1>4. \A i \in 1..N : Good(i)
  <2>1. SUFFICES ASSUME Bad # {} PROVE FALSE
    BY <1>1
  <2>2. Bad \in SUBSET (0..N)
    OBVIOUS
  <2>3. PICK i \in Bad : \A k \in Bad : i <= k
    <3> HIDE DEF Bad
    <3> QED
      BY <1>1, <2>1, <2>2, Least
  <2>4. i \in 1..N /\ ~Good(i)
    BY <1>1
  <2>5. dp[i] # 1 => parent(i) \in 1..N /\ parent(i) < i
    BY <2>4, Parents, Lengths
  <2>6. dp[i] # 1 => Good(parent(i))
    <3>1. \A k \in 1..N : k < i => k \notin Bad
      BY <2>3, <2>4
    <3> QED
      BY <2>5, <3>1
  <2> QED
    BY <1>3, <2>4, <2>6
<1> QED
  BY <1>4

\* Along a chain of nodes the lengths grow.
LEMMA ChainsGrow ==
    ASSUME Ordered, NEW n \in Nat \ {0}, NEW s \in [1..n -> nodes], Chain(s)
    PROVE  \E i \in 1..Len(result) : n <= dp[i]
<1> DEFINE N == Len(result)
           Good(k) == \E i \in 1..N : s[k] = result[i] /\ k <= dp[i]
           Bad == {k \in 0..n : k # 0 /\ ~Good(k)}
<1>1. N \in Nat /\ nodes = {result[i] : i \in 1..N}
  BY LenProperties DEF Ordered, Members
<1>2. s \in Seq(nodes) /\ Len(s) = n
  BY LenProperties
<1>3. Good(1)
  <2>1. PICK i \in 1..N : s[1] = result[i]
    BY <1>1
  <2>2. dp[i] \in Nat \ {0}
    BY Lengths
  <2> QED
    BY <2>1, <2>2
<1>4. ASSUME NEW k \in 2..n, Good(k - 1) PROVE Good(k)
  <2>1. PICK j \in 1..N : s[k - 1] = result[j] /\ k - 1 <= dp[j]
    BY <1>4
  <2>2. PICK i \in 1..N : s[k] = result[i]
    BY <1>1
  <2>3. s[k - 1] \in blockers[s[k]]
    <3>1. k - 1 \in 1..Len(s) - 1 /\ (k - 1) + 1 = k
      BY <1>2
    <3> QED
      BY <3>1 DEF Chain
  <2>4. PICK h \in 1..i - 1 : result[h] = s[k - 1]
    BY <2>2, <2>3 DEF Ordered, Respected
  <2>5. h = j
    <3>1. h \in 1..N
      BY <1>1
    <3> QED
      BY <2>1, <2>4, <3>1 DEF Ordered, Distinct
  <2>6. j \in Before(i)
    BY <2>1, <2>2, <2>3, <2>4, <2>5 DEF Before
  <2>7. dp[j] + 1 <= dp[i] /\ dp[j] \in Nat /\ dp[i] \in Nat
    BY <2>6, Lengths
  <2> QED
    BY <2>1, <2>2, <2>7
<1>5. Good(n)
  <2>1. SUFFICES ASSUME Bad # {} PROVE FALSE
    OBVIOUS
  <2>2. Bad \in SUBSET (0..n)
    OBVIOUS
  <2>3. PICK k \in Bad : \A h \in Bad : k <= h
    <3> HIDE DEF Bad
    <3> QED
      BY <2>1, <2>2, Least
  <2>4. k \in 1..n /\ ~Good(k)
    OBVIOUS
  <2> HIDE DEF Good
  <2>5. k \in 2..n
    BY <1>3, <2>4
  <2>6. k - 1 \notin Bad /\ k - 1 \in 1..n
    BY <2>3, <2>5
  <2> QED
    BY <1>4, <2>4, <2>5, <2>6
<1> QED
  BY <1>5

LEMMA EndIsGreatest ==
    ASSUME Ordered, result # <<>>
    PROVE  end_node \in 1..Len(result) /\ \A i \in 1..Len(result) : dp[i] <= dp[end_node]
<1> DEFINE S == 1..Len(result)
<1>1. Len(result) \in Nat /\ Len(result) # 0 /\ \A i \in S : result[i] \in Nat
  BY LenProperties, EmptySeq, ElementOfSeq DEF Ordered
<1>2. S # {} /\ IsFiniteSet(S) /\ \A i \in S : dp[i] \in Nat
  <2>1. 1 \in S /\ IsFiniteSet(S)
    BY <1>1, FS_Interval
  <2>2. \A i \in S : dp[i] \in Nat
    BY Lengths
  <2> QED
    BY <2>1, <2>2
<1>3. PICK x \in S : \A y \in S : dp[y] <= dp[x]
  <2> HIDE DEF S
  <2> QED
    BY <1>2, Greatest
<1> DEFINE T == {y \in S : dp[y] = dp[x]}
<1>4. T # {} /\ IsFiniteSet(T) /\ \A y \in T : result[y] \in Nat
  <2>1. T \in SUBSET S
    OBVIOUS
  <2> QED
    BY <1>1, <1>2, <2>1, FS_Subset
<1>5. PICK e \in T : \A y \in T : result[y] <= result[e]
  <2> HIDE DEF T
  <2> QED
    BY <1>4, Greatest
<1>6. \A j \in S : dp[j] < dp[e] \/ (dp[j] = dp[e] /\ result[j] <= result[e])
  BY <1>2, <1>3, <1>5
<1>7. \E i \in S : \A j \in S : dp[j] < dp[i] \/ (dp[j] = dp[i] /\ result[j] <= result[i])
  BY <1>6
<1>8. /\ end_node \in S
      /\ \A j \in S : dp[j] < dp[end_node] \/ (dp[j] = dp[end_node] /\ result[j] <= result[end_node])
  BY <1>7 DEF end_node
<1> QED
  BY <1>2, <1>8

LEMMA Longest ==
    ASSUME IInv
    PROVE  CriticalPathLongest
<1>1. SUFFICES ASSUME query.kind = "order", reply = "done" PROVE CriticalPathLongest
  BY DEF CriticalPathLongest
<1>2. Output /\ Respected /\ GraphOK /\ Len(result) = Cardinality(nodes)
  BY <1>1 DEF IInv, Answered
<1>3. IsFiniteSet(nodes) /\ nodes \subseteq Nat
  BY <1>2, IdAssumption, FS_Subset DEF GraphOK
<1>4. Ordered
  <2>1. Members(result) \in SUBSET nodes /\ Cardinality(Members(result)) = Len(result)
    BY <1>2, MembersOfSeq, Counting DEF Output
  <2>2. Members(result) = nodes
    BY <1>2, <1>3, <2>1, FS_Subset
  <2> QED
    BY <1>2, <1>3, <2>2 DEF Ordered, Output
<1>5. ASSUME NEW n \in 2..Cardinality(nodes), NEW s \in [1..n -> nodes], Chain(s)
      PROVE  result # <<>> /\ dp[end_node] # 1 /\ n <= dp[end_node]
  <2>1. n \in Nat \ {0} /\ 1 \in 1..n
    OBVIOUS
  <2>2. PICK i \in 1..Len(result) : n <= dp[i]
    BY <1>4, <1>5, <2>1, ChainsGrow
  <2>3. result # <<>>
    BY <2>2, EmptySeq
  <2>4. end_node \in 1..Len(result) /\ dp[i] <= dp[end_node]
    BY <1>4, <2>3, EndIsGreatest
  <2>5. dp[i] \in Nat /\ dp[end_node] \in Nat
    BY <1>4, <2>4, Lengths
  <2> QED
    BY <2>2, <2>3, <2>4, <2>5
<1>6. CASE result = <<>> \/ dp[end_node] = 1
  <2>1. CriticalPath = <<>>
    BY <1>6 DEF CriticalPath
  <2>2. Chain(<<>>) /\ Members(<<>>) \subseteq nodes
    BY DEF Chain, Members
  <2> QED
    BY <1>5, <1>6, <2>1, <2>2 DEF CriticalPathLongest
<1>7. CASE ~(result = <<>> \/ dp[end_node] = 1)
  <2>1. CriticalPath = path[end_node] /\ end_node \in 1..Len(result)
    BY <1>4, <1>7, EndIsGreatest DEF CriticalPath
  <2>2. CriticalPath \in Seq(nodes) /\ Len(CriticalPath) = dp[end_node] /\ Chain(CriticalPath)
    BY <1>4, <2>1, PathsAreChains
  <2>3. Members(CriticalPath) \subseteq nodes
    BY <2>2, MembersOfSeq
  <2> QED
    BY <1>5, <2>2, <2>3 DEF CriticalPathLongest
<1> QED
  BY <1>6, <1>7

(***************************************************************************)
(* The theorem.                                                            *)
(***************************************************************************)

LEMMA Sound ==
    ASSUME IInv
    PROVE  OrderSound
<1>1. CASE query.kind = "order"
  <2>1. GraphOK /\ Output /\ Respected /\ Queued /\ Answered
    BY <1>1 DEF IInv
  <2>2. OrderRespectsBlockers
    <3>1. ASSUME NEW i \in 1..Len(result)
          PROVE  /\ result[i] \notin {result[j] : j \in 1..i - 1}
                 /\ blockers[result[i]] \subseteq {result[j] : j \in 1..i - 1}
      <4>1. \A j \in 1..i - 1 : j \in 1..Len(result) /\ j # i
        BY <2>1, LenProperties DEF Output
      <4>2. result[i] \notin {result[j] : j \in 1..i - 1}
        BY <2>1, <4>1 DEF Output, Distinct
      <4>3. blockers[result[i]] \subseteq {result[j] : j \in 1..i - 1}
        BY <2>1 DEF Respected
      <4> QED
        BY <4>2, <4>3
    <3> QED
      BY <3>1 DEF OrderRespectsBlockers
  <2>3. OrderComplete
    <3>1. Members(result) \subseteq nodes /\ Cardinality(Members(result)) = Len(result)
      BY <2>1, MembersOfSeq, Counting DEF Output
    <3>2. Len(result) = Cardinality(nodes) <=> nodes \ Members(result) = {}
      <4>1. IsFiniteSet(nodes)
        BY <2>1, IdAssumption, FS_Subset DEF GraphOK
      <4>2. Cardinality(nodes) = Cardinality(Members(result)) => nodes = Members(result)
        BY <3>1, <4>1, FS_Subset
      <4>3. nodes \ Members(result) = {} => nodes = Members(result)
        BY <3>1
      <4> QED
        BY <3>1, <4>2, <4>3
    <3>3. ASSUME reply # "running", NEW t \in nodes \ Members(result)
          PROVE  blockers[t] \cap ((nodes \ Members(result)) \cup (Id \ nodes)) # {}
      <4>1. queue = <<>> /\ Members(queue) = {}
        BY <2>1, <3>3 DEF Answered, Members
      <4>2. PICK b \in blockers[t] : b \notin Members(result)
        BY <2>1, <3>3, <4>1 DEF Queued, Waiting
      <4>3. b \in Id
        BY <2>1, <3>3 DEF GraphOK
      <4> QED
        BY <4>2, <4>3
    <3>4. ASSUME reply # "running" PROVE HeldBack(nodes \ Members(result))
      BY <3>3, <3>4 DEF HeldBack
    <3>5. ASSUME NEW T \in SUBSET nodes, T # {}, HeldBack(T), T \cap Members(result) # {}
          PROVE  FALSE
      <4> DEFINE Places == {i \in 1..Len(result) : result[i] \in T}
      <4>1. Len(result) \in Nat /\ Places \in SUBSET (0..Len(result)) /\ Places # {}
        BY <2>1, <3>5, LenProperties DEF Output, Members
      <4>2. PICK i \in Places : \A k \in Places : i <= k
        <5> HIDE DEF Places
        <5> QED
          BY <4>1, Least
      <4>3. PICK b \in blockers[result[i]] : b \in T \cup (Id \ nodes)
        BY <3>5, <4>2 DEF HeldBack
      <4>4. PICK j \in 1..i - 1 : b = result[j]
        BY <2>1, <4>1, <4>2 DEF Respected
      <4>5. j \in 1..Len(result) /\ j < i
        BY <4>1, <4>2, <4>4
      <4>6. b \in nodes
        BY <3>1, <4>4, <4>5 DEF Members
      <4> QED
        BY <4>1, <4>2, <4>3, <4>4, <4>5, <4>6
    <3>6. ASSUME reply # "running"
          PROVE  reply = "failed" <=> \E T \in SUBSET nodes : T # {} /\ HeldBack(T)
      <4>1. reply = "failed" <=> nodes \ Members(result) # {}
        BY <2>1, <3>2, <3>6 DEF Answered
      <4> QED
        BY <3>4, <3>5, <3>6, <4>1
    <3> QED
      BY <3>4, <3>6 DEF OrderComplete
  <2> QED
    BY <2>2, <2>3 DEF OrderSound
<1>2. CASE query.kind # "order"
  BY <1>2 DEF OrderSound, OrderRespectsBlockers, OrderComplete
<1> QED
  BY <1>1, <1>2

LEMMA Found ==
    ASSUME IInv
    PROVE  SearchesSound
<1>1. CycleReported
  <2>1. SUFFICES ASSUME query.kind = "cycle", reply # "running" PROVE CycleReported
    BY DEF CycleReported
  <2>2. CycleInv
    BY <2>1 DEF IInv
  <2>3. CASE query.from = query.to
    BY <2>2, <2>3 DEF CycleInv, CycleReported
  <2>4. CASE query.from # query.to /\ ~({query.from, query.to} \subseteq nodes)
    BY <2>2, <2>4 DEF CycleInv, CycleReported
  <2>5. CASE query.from # query.to /\ {query.from, query.to} \subseteq nodes /\ reply = "failed"
    BY <2>2, <2>5 DEF CycleInv, Closing, CycleReported
  <2>6. CASE query.from # query.to /\ {query.from, query.to} \subseteq nodes /\ reply = "done"
    <3>1. Searching /\ queue = <<>>
      BY <2>2, <2>6 DEF CycleInv, Searching
    <3>2. Frontier = {}
      BY <3>1 DEF Frontier
    <3>3. visited \in SUBSET nodes
      BY <2>6, <3>1, DependentsClosed DEF Searching
    <3>4. \A v \in visited \cup {query.to} : Dependents(v) \subseteq visited /\ query.from \notin visited
      BY <3>1, <3>2 DEF Searching
    <3>5. query.from \notin AllDependents(query.to)
      BY <3>3, <3>4, DependentsLeast
    <3> QED
      BY <2>6, <3>5 DEF CycleReported
  <2> QED
    BY <2>1, <2>2, <2>3, <2>4, <2>5, <2>6 DEF CycleInv
<1>2. ScoreCounts
  <2>1. SUFFICES ASSUME query.kind = "score", reply = "done", query.from \in nodes
                 PROVE  visited = AllDependents(query.from)
    BY DEF ScoreCounts, IInv, ScoreInv
  <2>2. /\ visited \subseteq AllDependents(query.from)
        /\ \A v \in visited \cup {query.from} : Dependents(v) \subseteq visited
    BY <2>1 DEF IInv, ScoreInv
  <2>3. visited \in SUBSET nodes
    BY <2>2, DependentsClosed
  <2> QED
    BY <2>2, <2>3, DependentsLeast
<1> QED
  BY <1>1, <1>2 DEF SearchesSound

LEMMA Inductive ==
    IInv /\ [Next]_vars => IInv'
<1>1. ASSUME IInv, UNCHANGED vars PROVE IInv'
  <2>1. /\ UNCHANGED <<status, blockers, query, nodes, inDegree, queue, result, reply>>
        /\ UNCHANGED query.kind
    BY <1>1 DEF vars, board
  <2>2. GraphOK => GraphOK'
    BY <2>1 DEF GraphOK, Board
  <2>3. (Output => Output') /\ (Respected => Respected') /\ (Answered => Answered')
    <3>1. Members(result)' = Members(result) /\ Members(queue)' = Members(queue)
      BY <2>1 DEF Members
    <3>2. Distinct(result)' = Distinct(result) /\ Distinct(queue)' = Distinct(queue)
      BY <2>1 DEF Distinct
    <3>3. Output => Output'
      BY <2>1, <3>1, <3>2 DEF Output
    <3>4. (Respected => Respected') /\ (Answered => Answered')
      BY <2>1 DEF Respected, Answered
    <3> QED
      BY <3>3, <3>4
  <2>4. (Counted => Counted') /\ (Queued => Queued')
    BY <2>1 DEF Counted, Queued, Waiting, Members
  <2>5. (CycleInv => CycleInv') /\ (ScoreInv => ScoreInv')
    <3>1. UNCHANGED <<visited, stack>>
      BY <1>1 DEF vars
    <3>2. \A m : AllDependents(m)' = AllDependents(m) /\ Dependents(m)' = Dependents(m)
      BY <2>1, SameGraph
    <3>3. (Closing => Closing') /\ (ScoreInv => ScoreInv')
      BY <2>1, <3>1, <3>2 DEF Closing, ScoreInv, Chain
    <3>4. Searching => Searching'
      <4>1. Frontier' = Frontier
        BY <2>1 DEF Frontier
      <4>2. \A i \in 1..Len(queue) : Route(queue[i]) => Route(queue[i])'
        BY <2>1, <3>1 DEF Route, Chain
      <4> QED
        BY <2>1, <3>1, <3>2, <4>1, <4>2 DEF Searching
    <3> QED
      BY <2>1, <3>3, <3>4 DEF CycleInv
  <2> QED
    BY <1>1, <2>1, <2>2, <2>3, <2>4, <2>5 DEF IInv, vars
<1>2. ASSUME IInv, CycleStep PROVE IInv'
  <2>1. Head(queue)[Len(Head(queue))] = query.from => IInv'
    BY <1>2, CycleClosed DEF CycleStep
  <2> QED
    BY <1>2, <2>1, CycleWidened
<1> QED
  BY <1>1, <1>2, Asked, Stepped, Ended, CycleAsked, CycleEnded, Scored DEF Next

\* OrderSound holds of every board: the order command outputs a topological order of
\* open tasks, and fails exactly if some of them wait for each other or for a blocker
\* that is not open, which may be a finished one.
THEOREM OrderIsSound == Spec => []OrderSound
<1>1. Init => IInv
  BY DEF Init, IInv, GraphOK, Board
<1> QED
  BY <1>1, Inductive, Sound, PTL DEF Spec

\* SearchesSound holds of every board: detect_cycle finds a cycle exactly if the
\* edge closes one, and the priority score counts all that wait for the task.
THEOREM SearchesAreSound == Spec => []SearchesSound
<1>1. Init => IInv
  BY DEF Init, IInv, GraphOK, Board
<1> QED
  BY <1>1, Inductive, Found, PTL DEF Spec

\* CriticalPathLongest holds of every board: get_critical_path returns a chain of
\* open tasks that each wait for the one before, and no chain is longer.
THEOREM CriticalPathIsLongest == Spec => []CriticalPathLongest
<1>1. Init => IInv
  BY DEF Init, IInv, GraphOK, Board
<1> QED
  BY <1>1, Inductive, Longest, PTL DEF Spec

(***************************************************************************)
(* The code looks for cycles twice: DependencyGraph.detect_cycle walks the *)
(* graph, and dependency_would_cycle asks the database, which WouldCycle   *)
(* stands for.  On one board they agree.                                   *)
(***************************************************************************)

\* The commands and the graph are of the same board.
SameBoard ==
    /\ Task = Id /\ exists = Board
    /\ \A t \in Task : blocked_by[t] = IF t \in Board THEN blockers[t] ELSE {}

LEMMA DependentsAreReached ==
    ASSUME GraphOK, SameBoard, nodes = Board, NEW a \in nodes, NEW b \in nodes, a # b
    PROVE  a \in AllDependents(b) <=> Reaches(a, b)
<1>1. \A u \in nodes : u \in Task /\ blocked_by[u] = blockers[u]
  BY DEF GraphOK, SameBoard
<1>2. ASSUME a \in AllDependents(b), NEW S \in SUBSET Task, a \in S, Closed(S), b \notin S
      PROVE  FALSE
  <2> DEFINE T == nodes \ S
  <2>1. ASSUME NEW u \in nodes, blockers[u] \cap (T \cup {b}) # {} PROVE u \in T
    <3>1. PICK v \in blockers[u] : v \notin S
      BY <1>2, <2>1
    <3> QED
      BY <1>1, <1>2, <3>1 DEF Closed
  <2>2. a \in T
    BY <1>2, <2>1 DEF AllDependents
  <2> QED
    BY <1>2, <2>2
<1>3. ASSUME a \notin AllDependents(b), Reaches(a, b) PROVE FALSE
  <2> DEFINE S == Task \ (AllDependents(b) \cup {b})
  <2>1. ASSUME NEW u \in S PROVE blocked_by[u] \subseteq S
    <3>1. CASE u \notin Board
      BY <3>1 DEF SameBoard
    <3>2. CASE u \in Board
      <4>1. blocked_by[u] = blockers[u] /\ blockers[u] \subseteq Task
        BY <1>1, <3>2 DEF GraphOK, SameBoard
      <4>2. ASSUME NEW v \in blockers[u], v \in AllDependents(b) \cup {b} PROVE FALSE
        <5>1. u \in Dependents(v)
          BY <3>2, <4>2 DEF Dependents
        <5> QED
          BY <4>2, <5>1, DependentsClosed
      <4> QED
        BY <4>1, <4>2
    <3> QED
      BY <3>1, <3>2
  <2>2. S \in SUBSET Task /\ Closed(S) /\ a \in S /\ b \notin S
    BY <1>1, <1>3, <2>1 DEF Closed
  <2> QED
    BY <1>3, <2>2 DEF Reaches
<1> QED
  BY <1>2, <1>3 DEF Reaches

LEMMA Agreed ==
    ASSUME IInv, SameBoard, query.kind = "cycle", reply # "running",
           {query.from, query.to} \subseteq Board
    PROVE  reply = "failed" <=> WouldCycle(query.to, query.from)
<1>1. GraphOK /\ nodes = Board
  BY DEF IInv, GraphOK
<1>2. reply = "failed" <=> query.from = query.to \/ query.from \in AllDependents(query.to)
  BY <1>1, Found DEF SearchesSound, CycleReported
<1>3. query.from # query.to =>
         (query.from \in AllDependents(query.to) <=> Reaches(query.from, query.to))
  BY <1>1, DependentsAreReached
<1> QED
  BY <1>2, <1>3 DEF WouldCycle

\* detect_cycle, which create asks, and dependency_would_cycle, which the other
\* commands ask, give the same answer for tasks of the same board.
THEOREM CycleChecksAgree ==
    Spec => [](SameBoard /\ query.kind = "cycle" /\ reply # "running"
                  /\ {query.from, query.to} \subseteq Board =>
                       (reply = "failed" <=> WouldCycle(query.to, query.from)))
<1>1. Init => IInv
  BY DEF Init, IInv, GraphOK, Board
<1>2. IInv => (SameBoard /\ query.kind = "cycle" /\ reply # "running"
                  /\ {query.from, query.to} \subseteq Board =>
                       (reply = "failed" <=> WouldCycle(query.to, query.from)))
  BY Agreed
<1> QED
  BY <1>1, <1>2, Inductive, PTL DEF Spec

(***************************************************************************)
(* Commands, one after the other.  That b does not reach t means that some *)
(* closed set contains b and not t.  The union of such sets, for all the   *)
(* blockers a command adds, is closed again and still does not contain t:  *)
(* no new edge leaves it, and t is the only task that gets new edges.      *)
(***************************************************************************)

\* Processes take turns: there is only one.
Serial == \A p, q \in Procs : p = q

\* What a command in progress knows: the list it has read is current, and no
\* blocker it has checked, or need not check, is blocked by its task.
Informed(c) ==
    /\ c.read = blocked_by[c.task]
    /\ c.unchecked \subseteq c.ids
    /\ c.kind # "remove" => \A b \in c.ids \ c.unchecked : ~Reaches(b, c.task)

CommandsInv ==
    /\ CommandsTypeOK
    /\ Acyclic
    /\ \A p \in Procs : pc[p] # "idle" => Informed(cmd[p])
    /\ \A p \in Procs : pc[p] = "saving" => cmd[p].kind = "remove" \/ cmd[p].unchecked = {}

\* The union of closed sets is closed.
LEMMA UnionClosed ==
    ASSUME blocked_by \in [Task -> SUBSET Task], NEW F \in SUBSET SUBSET Task,
           \A S \in F : Closed(S)
    PROVE  Closed(UNION F)
<1>1. SUFFICES ASSUME NEW u \in UNION F PROVE blocked_by[u] \subseteq UNION F
  BY DEF Closed
<1>2. PICK S \in F : u \in S
  BY <1>1
<1>3. blocked_by[u] \subseteq S
  BY <1>2 DEF Closed
<1> QED
  BY <1>2, <1>3

\* Blockers that do not reach t may be added to those of t, and any removed.
LEMMA EdgesAdded ==
    ASSUME blocked_by \in [Task -> SUBSET Task], Acyclic,
           NEW t \in Task, NEW ids \in SUBSET Task, NEW list \in SUBSET Task,
           \A b \in ids : ~Reaches(b, t),
           list \subseteq blocked_by[t] \cup ids,
           blocked_by' = [blocked_by EXCEPT ![t] = list]
    PROVE  Acyclic'
<1> DEFINE F == {S \in SUBSET Task : Closed(S) /\ t \notin S}
           C == UNION F
<1>1. Closed(C) /\ C \subseteq Task
  BY UnionClosed
<1>2. t \notin C
  OBVIOUS
<1>3. ids \subseteq C
  BY DEF Reaches
<1>4. SUFFICES ASSUME NEW S \in SUBSET Task, S # {}
               PROVE  \E u \in S : blocked_by'[u] \cap S = {}
  BY DEF Acyclic
<1>5. CASE S \cap C # {}
  <2>1. PICK u \in S \cap C : blocked_by[u] \cap (S \cap C) = {}
    BY <1>1, <1>5 DEF Acyclic
  <2>2. blocked_by[u] \subseteq C
    BY <1>1, <2>1 DEF Closed
  <2>3. u # t
    BY <1>2, <2>1
  <2> QED
    BY <2>1, <2>2, <2>3
<1>6. CASE S \cap C = {}
  <2>1. PICK u \in S : blocked_by[u] \cap S = {}
    BY <1>4 DEF Acyclic
  <2>2. CASE u = t
    <3>1. blocked_by'[u] \subseteq blocked_by[t] \cup ids
      BY <2>2
    <3> QED
      BY <1>3, <1>6, <2>1, <2>2, <3>1
  <2>3. CASE u # t
    BY <2>1, <2>3
  <2> QED
    BY <2>2, <2>3
<1> QED
  BY <1>5, <1>6

\* A task nothing refers to may have any blockers.
LEMMA TaskAdded ==
    ASSUME blocked_by \in [Task -> SUBSET Task], Acyclic,
           NEW t \in Task, NEW ids \in SUBSET Task, t \notin ids,
           \A u \in Task : t \notin blocked_by[u],
           blocked_by' = [blocked_by EXCEPT ![t] = ids]
    PROVE  Acyclic'
<1>1. SUFFICES ASSUME NEW S \in SUBSET Task, S # {}
               PROVE  \E u \in S : blocked_by'[u] \cap S = {}
  BY DEF Acyclic
<1>2. CASE S \subseteq {t}
  BY <1>1, <1>2
<1>3. CASE ~(S \subseteq {t})
  <2>1. PICK u \in S \ {t} : blocked_by[u] \cap (S \ {t}) = {}
    BY <1>3 DEF Acyclic
  <2> QED
    BY <2>1
<1> QED
  BY <1>2, <1>3

\* A forward reference reaches nothing but itself.
LEMMA ForwardReference ==
    ASSUME NEW b \in Task, NEW t \in Task, b # t, blocked_by[b] = {}
    PROVE  ~Reaches(b, t)
<1>1. Closed({b})
  BY DEF Closed
<1> QED
  BY <1>1 DEF Reaches

\* Where processes take turns, the board has no dependency cycle, and every
\* command in progress relies on facts that still hold.
LEMMA CommandsInductive ==
    ASSUME Serial
    PROVE  CommandsSpec => []CommandsInv
<1>1. CommandsInit => CommandsInv
  BY DEF CommandsInit, CommandsInv, CommandsTypeOK, Acyclic
<1>2. CommandsInv /\ [CommandsNext]_commandsVars => CommandsInv'
  <2> SUFFICES ASSUME CommandsInv, [CommandsNext]_commandsVars PROVE CommandsInv'
    OBVIOUS
  <2> USE DEF CommandsInv
  <2>1. CASE UNCHANGED commandsVars
    BY <2>1 DEF commandsVars, CommandsTypeOK, Acyclic, Informed, Reaches, Closed
  <2>2. ASSUME NEW p \in Procs, NEW t \in Task, NEW ids \in SUBSET Task, Create(p, t, ids)
        PROVE  CommandsInv'
    <3>1. Acyclic'
      BY <2>2, TaskAdded DEF Create, Fresh, CommandsTypeOK
    <3>2. \A q \in Procs : pc[q] = "idle"
      BY <2>2 DEF Create, Serial
    <3>3. CommandsTypeOK'
      BY <2>2 DEF Create, Fresh, CommandsTypeOK
    <3> QED
      BY <2>2, <3>1, <3>2, <3>3 DEF Create
  <2>3. ASSUME NEW p \in Procs, NEW t \in Task, NEW ids \in SUBSET Task,
               NEW kind \in {"add", "remove", "update"}, Begin(p, kind, t, ids)
        PROVE  CommandsInv'
    <3>1. CommandsTypeOK'
      BY <2>3 DEF Begin, CommandsTypeOK, Cmd
    <3>2. Acyclic'
      BY <2>3 DEF Begin, Acyclic
    <3>3. Informed(cmd[p])'
      <4> DEFINE c == cmd'[p]
      <4>1. /\ c.read = blocked_by[t] /\ c.task = t /\ c.ids = ids /\ c.kind = kind
            /\ c.unchecked = IF kind = "remove" THEN {} ELSE ids \cap exists
        BY <2>3 DEF Begin, CommandsTypeOK
      <4>2. ASSUME kind # "remove", NEW b \in ids \ exists
            PROVE  ~Reaches(b, t)
        BY <2>3, <4>2, ForwardReference DEF Begin, CommandsTypeOK
      <4>3. UNCHANGED blocked_by
        BY <2>3 DEF Begin
      <4>4. \A b \in Task : Reaches(b, t)' <=> Reaches(b, t)
        BY <4>3 DEF Reaches, Closed
      <4>5. kind # "remove" => \A b \in ids \ c.unchecked : ~Reaches(b, t)'
        BY <4>1, <4>2, <4>4
      <4> QED
        BY <4>1, <4>3, <4>5 DEF Informed
    <3>4. pc'[p] = "saving" => cmd'[p].kind = "remove"
      BY <2>3 DEF Begin, CommandsTypeOK
    <3> QED
      BY <3>1, <3>2, <3>3, <3>4 DEF Serial
  <2>4. ASSUME NEW p \in Procs, NEW b \in Task, CheckEdge(p, b)
        PROVE  CommandsInv'
    <3>1. CommandsTypeOK'
      BY <2>4 DEF CheckEdge, CommandsTypeOK, Cmd
    <3>2. Acyclic'
      BY <2>4 DEF CheckEdge, Acyclic
    <3>3. /\ cmd[p] \in Cmd
          /\ cmd'[p] = [cmd[p] EXCEPT !.unchecked = @ \ {b}]
          /\ ~Reaches(b, cmd[p].task)
          /\ Informed(cmd[p])
          /\ UNCHANGED <<pc, blocked_by>>
      BY <2>4 DEF CheckEdge, CommandsTypeOK, WouldCycle
    <3>4. Informed(cmd[p])'
      BY <3>3 DEF Informed, Cmd, Reaches, Closed
    <3> QED
      BY <2>4, <3>1, <3>2, <3>3, <3>4 DEF Serial, CheckEdge
  <2>5. ASSUME NEW p \in Procs, CheckDone(p)
        PROVE  CommandsInv'
    <3>1. CommandsTypeOK'
      BY <2>5 DEF CheckDone, CommandsTypeOK
    <3>2. UNCHANGED <<cmd, blocked_by>> /\ pc[p] = "checking" /\ cmd[p].unchecked = {}
      BY <2>5 DEF CheckDone
    <3>3. Acyclic' /\ Informed(cmd[p])'
      BY <3>2 DEF Acyclic, Informed, Reaches, Closed
    <3> QED
      BY <3>1, <3>2, <3>3 DEF Serial
  <2>6. ASSUME NEW p \in Procs, Save(p)
        PROVE  CommandsInv'
    <3> DEFINE c == cmd[p]
    <3>1. /\ c \in Cmd /\ c.task \in exists /\ Informed(c)
          /\ c.kind = "remove" \/ c.unchecked = {}
      BY <2>6 DEF Save, CommandsTypeOK
    <3>2. Saved(c) \in SUBSET Task
      BY <3>1 DEF Saved, Cmd
    <3>3. Acyclic'
      <4> DEFINE new == IF c.kind = "remove" THEN {} ELSE c.ids
      <4>1. Saved(c) \subseteq blocked_by[c.task] \cup new
        BY <3>1 DEF Saved, Cmd, Informed
      <4>2. \A b \in new : ~Reaches(b, c.task)
        BY <3>1 DEF Informed
      <4>3. new \in SUBSET Task /\ c.task \in Task
        BY <3>1 DEF Cmd
      <4>4. blocked_by' = [blocked_by EXCEPT ![c.task] = Saved(c)]
        BY <2>6 DEF Save
      <4> QED
        BY <3>2, <4>1, <4>2, <4>3, <4>4, EdgesAdded DEF CommandsTypeOK
    <3>4. CommandsTypeOK'
      BY <2>6, <3>1, <3>2 DEF Save, Return, CommandsTypeOK
    <3>5. \A q \in Procs : pc'[q] = "idle"
      BY <2>6 DEF Save, Return, Serial, CommandsTypeOK
    <3> QED
      BY <3>3, <3>4, <3>5
  <2>7. ASSUME NEW p \in Procs, (\E b \in Task : Reject(p, b)) \/ Fail(p)
        PROVE  CommandsInv'
    <3>1. Return(p) /\ UNCHANGED <<exists, blocked_by>>
      BY <2>7 DEF Reject, Fail
    <3>2. CommandsTypeOK' /\ Acyclic'
      BY <3>1 DEF Return, CommandsTypeOK, Acyclic
    <3>3. \A q \in Procs : pc'[q] = "idle"
      BY <3>1 DEF Return, Serial, CommandsTypeOK
    <3> QED
      BY <3>2, <3>3
  <2> QED
    BY <2>1, <2>2, <2>3, <2>4, <2>5, <2>6, <2>7 DEF CommandsNext, Step
<1> QED
  BY <1>1, <1>2, PTL DEF CommandsSpec

\* Where commands run one after the other, the dependencies of the board are
\* always acyclic, forward references included.
THEOREM SerialAcyclic ==
    ASSUME Serial
    PROVE  CommandsSpec => []Acyclic
<1>1. CommandsInv => Acyclic
  BY DEF CommandsInv
<1> QED
  BY <1>1, CommandsInductive, PTL
=============================================================================
