-------------------------- MODULE DependencyGraph --------------------------
(***************************************************************************)
(* kanban/graph.py: the graph built from the blocked_by lists of a board,  *)
(* and the queries on it: the execution order (Kahn's algorithm), the      *)
(* cycle that a new edge would close (breadth first), the priority score   *)
(* (depth first), the critical path, the ready and the blocked tasks.      *)
(* Loops are modelled one iteration at a time; the graph never changes     *)
(* once it is built.                                                       *)
(***************************************************************************)
EXTENDS Naturals, Sequences, FiniteSets

CONSTANTS
    Id,         \* task IDs, numbered in the order in which they sort
    NoId

ASSUME IdAssumption == Id \subseteq Nat /\ IsFiniteSet(Id) /\ NoId \notin Id

VARIABLES
    status,     \* ID of a task on the board -> its status
    blockers,   \* ID of a task on the board -> its blocked_by
    query,      \* the call: its kind and its arguments
    nodes,      \* _tasks: the tasks the graph is built from
    inDegree,   \* order: node -> blockers that are not output yet
    queue,      \* order: nodes; cycle: paths to the nodes to visit
    visited,    \* cycle, score
    stack,      \* score: nodes to visit
    result,     \* the order, or the path, found so far
    reply       \* "none", "running", "done" or "failed": an error, or a cycle

board == <<status, blockers>>
vars == <<board, query, nodes, inDegree, queue, visited, stack, result, reply>>

Board == DOMAIN status
Status == {"todo", "done", "archive"}

_RESOLVED_STATUSES == {"done", "archive"}
_ACTIONABLE_STATUSES == {"todo"}

Open == {t \in Board : status[t] \in _ACTIONABLE_STATUSES}

\* Mutant of Dependents: the edges point backwards.
DependentsBackward(n) == IF n \in nodes THEN blockers[n] \cap nodes ELSE {}

\* _forward: the tasks of the graph that name n, a task or not, as a blocker.
Dependents(n) == {t \in nodes : n \in blockers[t]}

\* What `sorted` returns for the set S.
Sorted(S) ==
    {s \in [1..Cardinality(S) -> S] : \A i, j \in DOMAIN s : i < j => s[i] < s[j]}

Members(s) == {s[i] : i \in 1..Len(s)}

TypeOK ==
    /\ Board \subseteq Id /\ DOMAIN blockers = Board
    /\ \A t \in Board : blockers[t] \subseteq Id
    /\ query.kind \in {"none", "order", "cycle", "score"}
    /\ {query.from, query.to} \subseteq Id \cup {NoId}
    /\ nodes \subseteq Board
    /\ inDegree \in [nodes -> 0..Cardinality(Id)]
    /\ visited \subseteq Id /\ stack \subseteq Id /\ Members(result) \subseteq Id
    /\ reply \in {"none", "running", "done", "failed"}

(***************************************************************************)
(* The queries that filter the tasks.                                      *)
(***************************************************************************)

\* The blockers of t that are missing or not finished.
Unmet(t) == {b \in blockers[t] : b \notin Board \/ status[b] \notin _RESOLVED_STATUSES}

Ready == {t \in Open : Unmet(t) = {}}
Blocked == {t \in Open : Unmet(t) # {}}

(***************************************************************************)
(* The loops.                                                              *)
(***************************************************************************)

Init ==
    /\ \E tasks \in SUBSET Id : status \in [tasks -> Status] /\ blockers \in [tasks -> SUBSET Id]
    /\ query = [kind |-> "none", from |-> NoId, to |-> NoId]
    /\ nodes = {} /\ inDegree = <<>> /\ queue = <<>> /\ visited = {} /\ stack = {}
    /\ result = <<>> /\ reply = "none"

\* A query builds the graph of the given tasks.
Ask(kind, a, b, tasks) ==
    /\ query.kind = "none"
    /\ query' = [kind |-> kind, from |-> a, to |-> b]
    /\ nodes' = tasks
    /\ UNCHANGED board

Running(kind) ==
    /\ query.kind = kind /\ reply = "running"
    /\ UNCHANGED <<board, query, nodes>>

\* A node counts all its blockers, those that are not in the graph, too.
Degree(t) == Cardinality(blockers[t])

\* The order command: topological_sort of the open tasks.
AskOrder ==
    /\ Ask("order", NoId, NoId, Open)
    /\ inDegree' = [t \in Open |-> Degree(t)]
    /\ queue' \in Sorted({t \in Open : Degree(t) = 0})
    /\ reply' = "running"
    /\ UNCHANGED <<visited, stack, result>>

\* Mutant of Released: a dependent waits for its first blocker only.
ReleasedByFirst(n) == Dependents(n) \ (Members(result) \cup Members(queue))

\* The nodes of which n is the last blocker.
Released(n) == {t \in Dependents(n) : inDegree[t] = 1}

OrderStep ==
    /\ Running("order") /\ queue # <<>>
    /\ LET n == Head(queue) IN
          /\ result' = Append(result, n)
          /\ inDegree' = [t \in nodes |-> IF t \in Dependents(n) THEN inDegree[t] - 1 ELSE inDegree[t]]
          /\ \E batch \in Sorted(Released(n)) : queue' = Tail(queue) \o batch
    /\ UNCHANGED <<visited, stack, reply>>

\* Not every node was output: "Dependency cycle detected".
OrderDone ==
    /\ Running("order") /\ queue = <<>>
    /\ reply' = IF Len(result) = Cardinality(nodes) THEN "done" ELSE "failed"
    /\ UNCHANGED <<inDegree, queue, visited, stack, result>>

\* detect_cycle(a, b): would b wait for itself if a blocked it?  Searches a path
\* from b to a, if both are on the board.
AskCycle(a, b) ==
    /\ Ask("cycle", a, b, Board)
    /\ \/ a = b /\ reply' = "failed" /\ result' = <<a, a>> /\ UNCHANGED <<queue, visited>>
       \/ /\ a # b /\ {a, b} \subseteq Board
          /\ queue' = << <<b>> >> /\ visited' = {b} /\ reply' = "running" /\ UNCHANGED result
       \/ /\ a # b /\ ~({a, b} \subseteq Board)
          /\ reply' = "done" /\ UNCHANGED <<queue, visited, result>>
    /\ inDegree' = [t \in Board |-> 0]
    /\ UNCHANGED stack

CycleStep ==
    /\ Running("cycle") /\ queue # <<>>
    /\ LET p == Head(queue)
           n == p[Len(p)]
           unseen == Dependents(n) \ visited
       IN \/ n = query.from /\ reply' = "failed" /\ result' = <<n>> \o p
             /\ UNCHANGED <<queue, visited>>
          \/ /\ n # query.from
             /\ visited' = visited \cup unseen
             /\ \E batch \in Sorted(unseen) :
                   queue' = Tail(queue) \o [i \in DOMAIN batch |-> Append(p, batch[i])]
             /\ UNCHANGED <<result, reply>>
    /\ UNCHANGED <<inDegree, stack>>

CycleNone ==
    /\ Running("cycle") /\ queue = <<>>
    /\ reply' = "done"
    /\ UNCHANGED <<inDegree, queue, visited, stack, result>>

\* get_priority_score(a).  The stack is filled from sets, in no certain order.
AskScore(a) ==
    /\ Ask("score", a, NoId, Board)
    /\ stack' = IF a \in Board THEN {t \in Board : a \in blockers[t]} ELSE {}
    /\ reply' = "running"
    /\ inDegree' = [t \in Board |-> 0]
    /\ UNCHANGED <<queue, visited, result>>

Push(n) == Dependents(n) \ visited

ScoreStep ==
    /\ Running("score")
    /\ \E n \in stack : visited' = visited \cup {n} /\ stack' = (stack \cup Push(n)) \ {n}
    /\ UNCHANGED <<inDegree, queue, result, reply>>

\* The score is the number of nodes visited.
ScoreDone ==
    /\ Running("score") /\ stack = {}
    /\ reply' = "done"
    /\ UNCHANGED <<inDegree, queue, visited, stack, result>>

Next ==
    \/ AskOrder \/ OrderStep \/ OrderDone
    \/ \E a, b \in Id : AskCycle(a, b)
    \/ CycleStep \/ CycleNone
    \/ \E a \in Id : AskScore(a)
    \/ ScoreStep \/ ScoreDone

Spec == Init /\ [][Next]_vars

(***************************************************************************)
(* get_critical_path, from the order found.                                *)
(***************************************************************************)

\* The places in the order of the blockers of the i-th node.
Before(i) == {k \in 1..i - 1 : result[k] \in blockers[result[i]]}

Most(S) == CHOOSE m \in S : \A n \in S : n <= m

\* Mutant of dp: the first edge into a node decides, not the longest chain.
FirstChain ==
    LET L[i \in 1..Len(result)] ==
          IF Before(i) = {} THEN 1 ELSE 1 + L[CHOOSE k \in Before(i) : \A l \in Before(i) : k <= l]
    IN L

\* dp: the length of the longest chain that ends at the i-th node of the order.
dp ==
    LET L[i \in 1..Len(result)] ==
          IF Before(i) = {} THEN 1 ELSE 1 + Most({L[j] : j \in Before(i)})
    IN L

\* The first node of the order that gives the i-th its length.
parent(i) ==
    CHOOSE j \in Before(i) : dp[j] + 1 = dp[i] /\ \A k \in Before(i) : k < j => dp[k] < dp[j]

\* Of the nodes that end the longest chains, the one whose ID sorts last.
end_node ==
    CHOOSE i \in 1..Len(result) : \A j \in 1..Len(result) :
        dp[j] < dp[i] \/ (dp[j] = dp[i] /\ result[j] <= result[i])

\* path: the longest chain that ends at the i-th node, found through its parents.
path ==
    LET P[i \in 1..Len(result)] ==
          IF dp[i] = 1 THEN <<result[i]>> ELSE Append(P[parent(i)], result[i])
    IN P

CriticalPath == IF result = <<>> \/ dp[end_node] = 1 THEN <<>> ELSE path[end_node]

(***************************************************************************)
(* Properties.                                                             *)
(***************************************************************************)

Chain(s) == \A i \in 1..Len(s) - 1 : s[i] \in blockers[s[i + 1]]

\* What waits for n, directly or through others: the tasks in every set that
\* contains what waits for n and what waits for its members.
AllDependents(n) ==
    {t \in nodes : \A T \in SUBSET nodes :
        (\A u \in nodes : blockers[u] \cap (T \cup {n}) # {} => u \in T) => t \in T}

\* Some tasks of T wait for each other.
Cyclic(T) == \E S \in SUBSET T : S # {} /\ \A t \in S : blockers[t] \cap S # {}

\* "Every task appears after all of its blockers", and appears once.
OrderRespectsBlockers ==
    query.kind = "order" =>
        \A i \in 1..Len(result) :
            LET before == {result[j] : j \in 1..i - 1} IN
                result[i] \notin before /\ blockers[result[i]] \subseteq before

\* Each task of T has a blocker in T, or one that is not a node: missing, or no
\* longer open.
HeldBack(T) == \A t \in T : blockers[t] \cap (T \cup (Id \ nodes)) # {}

\* The call fails exactly if some tasks hold each other back, or are held back by a
\* blocker that is not a node, be it finished; and only such tasks are left over.
OrderComplete ==
    query.kind = "order" /\ reply # "running" =>
        /\ reply = "failed" <=> \E T \in SUBSET nodes : T # {} /\ HeldBack(T)
        /\ HeldBack(nodes \ Members(result))

\* The order is topological, and what makes it fail is known: a cycle, or a blocker
\* outside the graph.
OrderSound == OrderRespectsBlockers /\ OrderComplete

\* "ValueError: If the graph contains a cycle", "only counting edges within the graph":
\* the call does not fail because a blocker is finished, though it may where one does
\* not exist.  (It does: a blocker that is finished is no node, and is counted.)
OrderFailsOnCycle ==
    query.kind = "order" /\ reply = "failed" =>
        Cyclic(nodes) \/ \E t \in nodes : ~(blockers[t] \subseteq Board)

\* detect_cycle reports a cycle exactly if the new edge closes one among the
\* tasks of the board, and the path it returns is one.
CycleReported ==
    query.kind = "cycle" /\ reply # "running" =>
        LET a == query.from
            b == query.to
        IN  /\ reply = "failed" <=> a = b \/ ({a, b} \subseteq nodes /\ a \in AllDependents(b))
            /\ reply = "failed" /\ a # b =>
                  Head(result) = a /\ result[2] = b /\ result[Len(result)] = a /\ Chain(Tail(result))

\* The score counts every task that waits for the given one, and each once, even
\* where tasks wait for each other.
ScoreCounts ==
    query.kind = "score" /\ reply = "done" =>
        visited = IF query.from \in nodes THEN AllDependents(query.from) ELSE {}

\* Both searches find what waits for a task, directly or through others.
SearchesSound == CycleReported /\ ScoreCounts

\* The critical path is a chain of tasks, and no chain is longer.
CriticalPathLongest ==
    query.kind = "order" /\ reply = "done" =>
        /\ Chain(CriticalPath) /\ Members(CriticalPath) \subseteq nodes
        /\ \A n \in 2..Cardinality(nodes) : \A s \in [1..n -> nodes] :
              Chain(s) => n <= Len(CriticalPath)

\* The scheduler never stands still: if tasks are blocked and none is ready,
\* open tasks wait for each other or for one that does not exist.
SomethingReady ==
    Blocked # {} /\ Ready = {} =>
        Cyclic(Open) \/ \E t \in Open : ~(blockers[t] \subseteq Board)
=============================================================================
