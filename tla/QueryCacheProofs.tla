-------------------------- MODULE QueryCacheProofs --------------------------
(***************************************************************************)
(* Three facts about the index, whatever the number of processes and tasks *)
(* and whatever happens to the board: a cursor that is accepted belongs to *)
(* the rows it was made from, the listing it continues skips and repeats   *)
(* no task, and a refresh that nothing disturbs serves the files as they   *)
(* are unless Git sees no difference, Git has dropped the file, or a       *)
(* mutation has stored an outdated record of it.                           *)
(*                                                                         *)
(* CursorStable speaks of signed cursors.  It becomes inductive when it is *)
(* also claimed of those that a query has made and that nobody has signed: *)
(* whoever changes the rows of a complete database writes a new revision,  *)
(* which makes the former stale and the latter torn.  That only such a     *)
(* cursor is signed follows from the order of the steps of a listing.      *)
(* NoneSkipped needs in addition that the key of a cursor names the first  *)
(* of the rows it was made from.  For DirtyServed the phases of a refresh  *)
(* are followed: what it has not found suspect is served right already,    *)
(* and what it copies is what is on the disk, until something changes.     *)
(***************************************************************************)
EXTENDS QueryCache, FiniteSetTheorems, WellFoundedInduction, TLAPS

(***************************************************************************)
(* The inductive invariant.                                                *)
(***************************************************************************)

IsPage(x) ==
    x = [cursor |-> x.cursor, torn |-> x.torn, key |-> x.key, of |-> x.of, filter |-> x.filter]

Given == {"live", "unsigned"}

\* A cursor, signed or not, is one of the rows that are there.
Bound(x) == x.cursor \in Given /\ x.torn = FALSE /\ db = "ok" => rows = x.of

PagesBound ==
    /\ page = [p \in Procs |-> page[p]]
    /\ \A p \in Procs : IsPage(page[p]) /\ page[p].torn \in BOOLEAN /\ Bound(page[p])

\* What can be left of a command: nothing follows the signature, and only a
\* refresh comes between the query and it.
Refreshing == {"refresh", "load", "fill"}

Scripts ==
    {<<>>, <<"query">>, <<"sign">>, <<"query", "refresh", "sign">>,
     <<"verify", "refresh", "query">>}
    \cup {<<x>> : x \in Refreshing} \cup {<<x, "sign">> : x \in Refreshing}
    \cup {<<x, "query">> : x \in Refreshing}
    \cup {<<x, "query", "refresh", "sign">> : x \in Refreshing}
    \cup {<<x, "verify", "refresh", "query">> : x \in Refreshing}

\* The query is over, and the signature is to come.
Signing(s) == s = <<"sign">> \/ \E x \in Refreshing : s = <<x, "sign">>

InOrder ==
    /\ script = [p \in Procs |-> script[p]]
    /\ \A p \in Procs :
          script[p] \in Scripts /\ (Signing(script[p]) => page[p].cursor = "unsigned")

IInv == PagesBound /\ InOrder

(***************************************************************************)
(* How scripts go on.                                                      *)
(***************************************************************************)

LEMMA Cases ==
    ASSUME NEW s \in Scripts
    PROVE  \/ s \in {<<>>, <<"query">>, <<"sign">>, <<"query", "refresh", "sign">>,
                     <<"verify", "refresh", "query">>}
           \/ \E x \in Refreshing :
                 \/ s = <<x>> \/ s = <<x, "sign">> \/ s = <<x, "query">>
                 \/ s = <<x, "query", "refresh", "sign">>
                 \/ s = <<x, "verify", "refresh", "query">>
  BY DEF Scripts

LEMMA Dropped ==
    ASSUME NEW s \in Scripts, s # <<>>
    PROVE  /\ Tail(s) \in Scripts
           /\ Signing(Tail(s)) => Signing(s) \/ Head(s) = "query"
           /\ Head(s) = "sign" => Signing(s) /\ Tail(s) = <<>>
           /\ Head(s) = "query" => Head(s) # "sign"
<1>1. CASE s \in {<<"query">>, <<"sign">>, <<"query", "refresh", "sign">>,
                  <<"verify", "refresh", "query">>}
  <2>1. CASE s = <<"query">>
    BY <2>1 DEF Scripts, Signing, Refreshing
  <2>2. CASE s = <<"sign">>
    BY <2>2 DEF Scripts, Signing, Refreshing
  <2>3. CASE s = <<"query", "refresh", "sign">>
    <3>1. Tail(s) = <<"refresh", "sign">> /\ Head(s) = "query"
      BY <2>3
    <3> QED
      BY <3>1 DEF Scripts, Signing, Refreshing
  <2>4. CASE s = <<"verify", "refresh", "query">>
    <3>1. Tail(s) = <<"refresh", "query">> /\ Head(s) = "verify"
      BY <2>4
    <3> QED
      BY <3>1 DEF Scripts, Signing, Refreshing
  <2> QED
    BY <1>1, <2>1, <2>2, <2>3, <2>4
<1>2. ASSUME NEW x \in Refreshing,
             \/ s = <<x>> \/ s = <<x, "sign">> \/ s = <<x, "query">>
             \/ s = <<x, "query", "refresh", "sign">>
             \/ s = <<x, "verify", "refresh", "query">>
      PROVE  /\ Tail(s) \in Scripts /\ Head(s) = x
             /\ Signing(Tail(s)) => Signing(s)
  <2>1. CASE s = <<x>>
    BY <2>1 DEF Scripts, Signing, Refreshing
  <2>2. CASE s = <<x, "sign">>
    BY <2>2 DEF Scripts, Signing, Refreshing
  <2>3. CASE s = <<x, "query">>
    BY <2>3 DEF Scripts, Signing, Refreshing
  <2>4. CASE s = <<x, "query", "refresh", "sign">>
    BY <2>4 DEF Scripts, Signing, Refreshing
  <2>5. CASE s = <<x, "verify", "refresh", "query">>
    BY <2>5 DEF Scripts, Signing, Refreshing
  <2> QED
    BY <1>2, <2>1, <2>2, <2>3, <2>4, <2>5
<1>3. \A x \in Refreshing : x # "sign"
  BY DEF Refreshing
<1> QED
  BY <1>1, <1>2, <1>3, Cases

LEMMA Replaced ==
    ASSUME NEW s \in Scripts, s # <<>>, Head(s) = "refresh", NEW x \in {"load", "fill"}
    PROVE  [s EXCEPT ![1] = x] \in Scripts /\ (Signing([s EXCEPT ![1] = x]) => Signing(s))
<1>1. x \in Refreshing
  BY DEF Refreshing
<1>2. CASE s = <<"refresh">>
  BY <1>1, <1>2 DEF Scripts, Signing
<1>3. CASE s = <<"refresh", "sign">>
  BY <1>1, <1>3 DEF Scripts, Signing, Refreshing
<1>4. CASE s = <<"refresh", "query">>
  BY <1>1, <1>4 DEF Scripts, Signing
<1>5. CASE s = <<"refresh", "query", "refresh", "sign">>
  BY <1>1, <1>5 DEF Scripts, Signing
<1>6. CASE s = <<"refresh", "verify", "refresh", "query">>
  BY <1>1, <1>6 DEF Scripts, Signing
<1> QED
  BY <1>2, <1>3, <1>4, <1>5, <1>6, Cases

LEMMA Begun ==
    /\ <<>> \in Scripts /\ ~Signing(<<>>)
    /\ <<"refresh", "query">> \in Scripts /\ ~Signing(<<"refresh", "query">>)
    /\ FirstPage \in Scripts /\ ~Signing(FirstPage)
    /\ NextPage \in Scripts /\ ~Signing(NextPage)
  BY DEF Scripts, Signing, Refreshing, FirstPage, NextPage

\* The script of p becomes s; nobody else's cursor is signed.
LEMMA Scripted ==
    ASSUME InOrder, NEW p \in Procs, NEW s, script' = [script EXCEPT ![p] = s],
           s \in Scripts, Signing(s) => page'[p].cursor = "unsigned",
           \A q \in Procs \ {p} : page[q].cursor = "unsigned" => page'[q].cursor = "unsigned"
    PROVE  InOrder'
<1>1. script' = [q \in Procs |-> script'[q]] /\ script'[p] = s
  BY DEF InOrder
<1>2. \A q \in Procs \ {p} : script'[q] = script[q]
  BY DEF InOrder
<1> QED
  BY <1>1, <1>2 DEF InOrder

(***************************************************************************)
(* How pages are turned.                                                   *)
(***************************************************************************)

\* After a new revision no cursor is signed and current, or unsigned and whole:
\* whatever becomes of the database, all are bound.
LEMMA Revised ==
    ASSUME PagesBound, NewRevision
    PROVE  /\ PagesBound'
           /\ \A p \in Procs : page[p].cursor = "unsigned" => page'[p].cursor = "unsigned"
<1> USE DEF PagesBound, NewRevision
<1>1. page' = [p \in Procs |-> page'[p]]
  OBVIOUS
<1>2. ASSUME NEW p \in Procs
      PROVE  /\ IsPage(page'[p]) /\ page'[p].torn \in BOOLEAN
             /\ page'[p].cursor \in Given => page'[p].torn = TRUE
             /\ page[p].cursor = "unsigned" => page'[p].cursor = "unsigned"
  <2> DEFINE x == page[p]
  <2>1. IsPage(x) /\ x.torn \in BOOLEAN
    OBVIOUS
  <2>2. page'[p] = IF x.cursor = "live" THEN [x EXCEPT !.cursor = "stale"]
                   ELSE IF x.cursor = "unsigned" THEN [x EXCEPT !.torn = TRUE] ELSE x
    OBVIOUS
  <2> HIDE DEF x
  <2>3. CASE x.cursor = "live"
    <3>1. page'[p] = [cursor |-> "stale", torn |-> x.torn, key |-> x.key, of |-> x.of,
                      filter |-> x.filter]
      BY <2>1, <2>2, <2>3 DEF IsPage
    <3> QED
      BY <2>1, <2>3, <3>1 DEF IsPage, Given, x
  <2>4. CASE x.cursor = "unsigned"
    <3>1. page'[p] = [x EXCEPT !.torn = TRUE]
      BY <2>2, <2>4
    <3>2. page'[p] = [cursor |-> x.cursor, torn |-> TRUE, key |-> x.key, of |-> x.of,
                      filter |-> x.filter]
      BY <2>1, <3>1 DEF IsPage
    <3>3. page'[p].cursor = "unsigned" /\ page'[p].torn = TRUE
      BY <2>4, <3>2
    <3>4. IsPage(page'[p])
      BY <3>2, Zenon DEF IsPage
    <3> QED
      BY <3>3, <3>4
  <2>5. CASE x.cursor \notin Given
    BY <2>1, <2>2, <2>5 DEF Given, x
  <2> QED
    BY <2>3, <2>4, <2>5 DEF Given
<1> QED
  BY <1>1, <1>2 DEF Bound

\* A step that leaves the pages alone may take the database away, or leave it
\* with its rows.
LEMMA Untouched ==
    ASSUME PagesBound, UNCHANGED page, db' = "ok" => db = "ok" /\ rows' = rows
    PROVE  PagesBound'
  BY DEF PagesBound, Bound

\* A step that gives p the page x, and leaves the database alone.
LEMMA Turned ==
    ASSUME PagesBound, NEW p \in Procs, NEW x, page' = [page EXCEPT ![p] = x],
           UNCHANGED <<db, rows>>, IsPage(x), x.torn \in BOOLEAN, Bound(x)
    PROVE  PagesBound' /\ page'[p] = x /\ \A q \in Procs \ {p} : page'[q] = page[q]
  BY DEF PagesBound, Bound

LEMMA NoPageBound ==
    IsPage(NoPage) /\ NoPage.torn \in BOOLEAN /\ Bound(NoPage)
  BY DEF NoPage, IsPage, Given, Bound

(***************************************************************************)
(* Every step keeps the invariant.                                         *)
(***************************************************************************)

LEMMA StepInductive ==
    ASSUME IInv, NEW p \in Procs, Step(p)
    PROVE  IInv'
<1> USE DEF IInv
<1> DEFINE s == script[p]
<1>0. /\ s \in Scripts /\ (Signing(s) => page[p].cursor = "unsigned")
      /\ IsPage(page[p]) /\ page[p].torn \in BOOLEAN /\ Bound(page[p])
  BY DEF InOrder, PagesBound
<1>1. CASE ReadAll(p)
  <2>1. UNCHANGED <<page, db, rows>> /\ script' = [script EXCEPT ![p] = <<"refresh", "query">>]
    BY <1>1 DEF ReadAll, cache
  <2> QED
    BY <2>1, Untouched, Scripted, Begun
<1>2. CASE Scan(p) \/ ScanAll(p)
  <2>1. PICK x \in {"load", "fill"} :
            s # <<>> /\ Head(s) = "refresh" /\ script' = [script EXCEPT ![p] = [s EXCEPT ![1] = x]]
    BY <1>2 DEF Scan, ScanAll, Lease, Becomes, Doing, InOrder
  <2>2. UNCHANGED page /\ (db' = "ok" => db = "ok" /\ rows' = rows)
    BY <1>2 DEF Scan, ScanAll, Lease, cache
  <2> QED
    BY <1>0, <2>1, <2>2, Untouched, Scripted, Replaced
<1>3. CASE LeaseTimeout(p)
  <2>1. UNCHANGED <<db, rows>> /\ script' = [script EXCEPT ![p] = <<>>]
    BY <1>3 DEF LeaseTimeout, cache
  <2>2. page' = page \/ page' = [page EXCEPT ![p] = NoPage]
    BY <1>3 DEF LeaseTimeout, PagesBound
  <2>3. PagesBound' /\ \A q \in Procs \ {p} : page'[q] = page[q]
    BY <2>1, <2>2, Untouched, Turned, NoPageBound
  <2> QED
    BY <2>1, <2>3, Scripted, Begun
<1>4. CASE Load(p) \/ Fill(p)
  <2>1. script' = [script EXCEPT ![p] = Tail(s)] /\ s # <<>> /\ Head(s) # "query"
    BY <1>4 DEF Load, Fill, Done, Doing
  <2>2. NewRevision \/ UNCHANGED <<page, db, rows>>
    BY <1>4 DEF Load, Fill
  <2>3. PagesBound' /\ \A q \in Procs : page[q].cursor = "unsigned" => page'[q].cursor = "unsigned"
    BY <2>2, Revised, Untouched
  <2> QED
    BY <1>0, <2>1, <2>3, Dropped, Scripted
<1>5. ASSUME NEW F, List(p, F) PROVE IInv'
  <2>1. /\ UNCHANGED <<db, rows>> /\ page' = [page EXCEPT ![p] = NoPage]
        /\ script' = [script EXCEPT ![p] = FirstPage]
    BY <1>5 DEF List, cache
  <2> QED
    BY Zenon, <2>1, Turned, NoPageBound, Scripted, Begun
<1>6. ASSUME NEW F, Continue(p, F) PROVE IInv'
  <2>1. UNCHANGED <<page, db, rows>> /\ script' = [script EXCEPT ![p] = NextPage]
    BY <1>6 DEF Continue, cache
  <2> QED
    BY <2>1, Untouched, Scripted, Begun
<1>7. CASE Query(p)
  <2> DEFINE new == [cursor |-> "unsigned", torn |-> FALSE, of |-> rows, filter |-> filter[p],
                     key |-> [modified |-> rows[First(Rest(p))], id |-> First(Rest(p))]]
  <2>1. IsPage(new) /\ new.torn \in BOOLEAN /\ Bound(new) /\ new.cursor = "unsigned"
    BY DEF IsPage, Bound
  <2>2. UNCHANGED <<db, rows>> /\ s # <<>>
    BY <1>7 DEF Query, cache, Doing
  <2>3. \/ page' = [page EXCEPT ![p] = new] /\ script' = [script EXCEPT ![p] = Tail(s)]
        \/ page' = [page EXCEPT ![p] = NoPage] /\ script' = [script EXCEPT ![p] = <<>>]
    BY <1>7 DEF Query, Done
  <2> HIDE DEF new, s
  <2>4. CASE page' = [page EXCEPT ![p] = new] /\ script' = [script EXCEPT ![p] = Tail(s)]
    <3>1. PagesBound' /\ page'[p] = new /\ \A q \in Procs \ {p} : page'[q] = page[q]
      BY <2>1, <2>2, <2>4, Turned
    <3>2. Tail(s) \in Scripts
      BY <1>0, <2>2, Dropped
    <3> QED
      BY <2>1, <2>4, <3>1, <3>2, Scripted
  <2>5. CASE page' = [page EXCEPT ![p] = NoPage] /\ script' = [script EXCEPT ![p] = <<>>]
    BY Zenon, <2>2, <2>5, Turned, NoPageBound, Scripted, Begun
  <2> QED
    BY <2>3, <2>4, <2>5
<1>8. CASE Sign(p)
  <2> DEFINE signed == [page[p] EXCEPT !.cursor = "live"]
  <2>1. /\ UNCHANGED <<db, rows>> /\ page' = [page EXCEPT ![p] = signed]
        /\ script' = [script EXCEPT ![p] = Tail(s)] /\ s # <<>> /\ Head(s) = "sign"
    BY <1>8 DEF Sign, Done, Doing, cache, PagesBound
  <2>2. signed = [cursor |-> "live", torn |-> page[p].torn, key |-> page[p].key,
                  of |-> page[p].of, filter |-> page[p].filter]
    BY <1>0 DEF IsPage
  <2> HIDE DEF signed, s
  <2>3. Signing(s) /\ Tail(s) = <<>>
    BY <1>0, <2>1, Dropped
  <2>4. IsPage(signed) /\ signed.torn \in BOOLEAN /\ Bound(signed)
    BY <1>0, <2>2, <2>3 DEF IsPage, Bound, Given
  <2>5. PagesBound' /\ \A q \in Procs \ {p} : page'[q] = page[q]
    BY <2>1, <2>4, Turned
  <2> QED
    BY <2>1, <2>3, <2>5, Begun, Scripted
<1>9. CASE Verify(p)
  <2>1. UNCHANGED <<db, rows>> /\ s # <<>> /\ Head(s) = "verify"
    BY <1>9 DEF Verify, cache, Doing
  <2>2. \/ UNCHANGED page /\ script' = [script EXCEPT ![p] = Tail(s)]
        \/ page' = [page EXCEPT ![p] = NoPage] /\ script' = [script EXCEPT ![p] = <<>>]
    BY <1>9 DEF Verify, Done
  <2> HIDE DEF s
  <2>3. CASE UNCHANGED page /\ script' = [script EXCEPT ![p] = Tail(s)]
    <3>1. Tail(s) \in Scripts /\ (Signing(Tail(s)) => page'[p].cursor = "unsigned")
      BY <1>0, <2>1, <2>3, Dropped
    <3>2. PagesBound'
      BY <2>1, <2>3, Untouched
    <3> QED
      BY <2>3, <3>1, <3>2, Scripted
  <2>4. CASE page' = [page EXCEPT ![p] = NoPage] /\ script' = [script EXCEPT ![p] = <<>>]
    BY Zenon, <2>1, <2>4, Turned, NoPageBound, Scripted, Begun
  <2> QED
    BY <2>2, <2>3, <2>4
<1> QED
  BY <1>1, <1>2, <1>3, <1>4, <1>5, <1>6, <1>7, <1>8, <1>9 DEF Step

LEMMA OutsideInductive ==
    ASSUME IInv, Outside
    PROVE  IInv'
<1> USE DEF IInv
<1>1. UNCHANGED script
  BY Zenon DEF Outside, Upsert, UpsertFails, Invalidate, Write, Edit, GitAdd, GitCommit,
         GitUnstage, GitReset, GitRestore, GitCheckout, Change
<1>2. PagesBound' /\ \A p \in Procs : page[p].cursor = "unsigned" => page'[p].cursor = "unsigned"
  <2>1. CASE \E f \in Path : Upsert(f)
    BY <2>1, Revised, Untouched DEF Upsert
  <2>2. CASE \E f \in Path : UpsertFails(f)
    BY <2>2, Untouched DEF UpsertFails, cache
  <2>3. CASE Invalidate
    BY <2>3, Untouched DEF Invalidate
  <2>4. CASE UNCHANGED <<page, db, rows>>
    BY <2>4, Untouched
  <2> QED
    BY Zenon, <2>1, <2>2, <2>3, <2>4
      DEF Outside, Write, Edit, GitAdd, GitCommit, GitUnstage, GitReset, GitRestore,
          GitCheckout, Change
<1> QED
  BY <1>1, <1>2 DEF InOrder

(***************************************************************************)
(* Pages without gaps.  The key of a cursor is the first of the tasks that *)
(* its page was listed from; a first page starts from no key.              *)
(***************************************************************************)

Names(key, of, F) ==
    /\ key.id \in Path /\ of[key.id] \in F /\ key.modified = of[key.id]
    /\ \A g \in Path : of[g] \in F =>
          of[g] < key.modified \/ (of[g] = key.modified /\ g <= key.id)

Keyed(x) == x.cursor \in Given => x.filter \in Filters /\ Names(x.key, x.of, x.filter)

\* The query of a first page is to come.
Opening(s) ==
    s = <<"query", "refresh", "sign">> \/ \E x \in Refreshing : s = <<x, "query", "refresh", "sign">>

KeysOK ==
    /\ filter = [p \in Procs |-> filter[p]]
    /\ \A p \in Procs :
          /\ filter[p] \in Filters \cup {{}}
          /\ Keyed(page[p])
          /\ Opening(script[p]) => page[p] = NoPage

\* A finite set of tasks that have rows has a first one: one that the fewest
\* others come before.
LEMMA FirstIsFirst ==
    ASSUME NEW S \in SUBSET Path, S # {}, \A f \in S : rows[f] \in Nat
    PROVE  /\ First(S) \in S
           /\ \A g \in S : rows[g] < rows[First(S)] \/ (rows[g] = rows[First(S)] /\ g <= First(S))
<1> DEFINE Precedes(g, f) == rows[f] < rows[g] \/ (rows[f] = rows[g] /\ f < g)
           Ahead(f) == {g \in S : Precedes(g, f)}
           T == {Ahead(f) : f \in S}
<1>1. IsFiniteSet(S) /\ \A f \in S : f \in Nat
  BY CacheAssumption, FS_Subset
<1>2. IsWellFoundedOn(StrictSubsetOrdering(S), SUBSET S)
  BY <1>1, FS_StrictSubsetOrderingWellFounded, FS_FiniteSubsetsOfFinite
<1>3. T \subseteq SUBSET S /\ T # {}
  BY Zenon
<1>4. \E A \in T : \A B \in T : <<B, A>> \notin StrictSubsetOrdering(S)
  <2> HIDE DEF T
  <2> QED
    BY <1>2, <1>3, WFMin
<1>5. PICK f \in S : \A g \in S : <<Ahead(g), Ahead(f)>> \notin StrictSubsetOrdering(S)
  BY <1>4
<1>6. ASSUME NEW g \in S PROVE ~Precedes(g, f)
  <2>1. SUFFICES ASSUME Precedes(g, f) PROVE FALSE
    OBVIOUS
  <2>2. \A h \in Ahead(g) : h \in Ahead(f)
    <3>1. SUFFICES ASSUME NEW h \in S, Precedes(h, g) PROVE Precedes(h, f)
      OBVIOUS
    <3>2. {f, g, h} \subseteq Nat /\ {rows[f], rows[g], rows[h]} \subseteq Nat
      BY <1>1
    <3> QED
      BY <2>1, <3>1, <3>2
  <2>3. g \in Ahead(f) /\ g \notin Ahead(g)
    BY <1>1, <2>1
  <2>4. Ahead(g) \in SUBSET S /\ Ahead(f) \in SUBSET S
    OBVIOUS
  <2> HIDE DEF Ahead
  <2>5. Ahead(g) \subseteq Ahead(f) /\ Ahead(g) # Ahead(f)
    BY <2>2, <2>3
  <2>6. <<Ahead(g), Ahead(f)>> \in StrictSubsetOrdering(S)
    BY <2>4, <2>5 DEF StrictSubsetOrdering
  <2> QED
    BY <1>5, <2>6
<1>7. \A g \in S : rows[g] < rows[f] \/ (rows[g] = rows[f] /\ g <= f)
  <2> SUFFICES ASSUME NEW g \in S PROVE rows[g] < rows[f] \/ (rows[g] = rows[f] /\ g <= f)
    OBVIOUS
  <2>1. {f, g} \subseteq Nat /\ {rows[f], rows[g]} \subseteq Nat
    BY <1>1
  <2> QED
    BY <1>6, <2>1
<1>8. \E x \in S : \A g \in S : rows[g] < rows[x] \/ (rows[g] = rows[x] /\ g <= x)
  BY <1>7
<1> QED
  BY <1>8, Zenon DEF First

LEMMA OpeningDropped ==
    ASSUME NEW s \in Scripts, s # <<>>
    PROVE  /\ Opening(Tail(s)) => Opening(s)
           /\ Head(s) = "query" => ~Opening(Tail(s)) /\ (Len(s) > 1 => Opening(s))
<1>1. CASE s = <<"query">>
  BY <1>1 DEF Opening, Refreshing
<1>2. CASE s = <<"sign">>
  BY <1>2 DEF Opening, Refreshing
<1>3. CASE s = <<"query", "refresh", "sign">>
  <2>1. Tail(s) = <<"refresh", "sign">>
    BY <1>3
  <2> QED
    BY <1>3, <2>1 DEF Opening, Refreshing
<1>4. CASE s = <<"verify", "refresh", "query">>
  <2>1. Tail(s) = <<"refresh", "query">> /\ Head(s) = "verify"
    BY <1>4
  <2> QED
    BY <2>1 DEF Opening, Refreshing
<1>5. ASSUME NEW x \in Refreshing, s = <<x>> PROVE Tail(s) = <<>> /\ Head(s) # "query"
  BY <1>5 DEF Refreshing
<1>6. ASSUME NEW x \in Refreshing, s = <<x, "sign">> PROVE Tail(s) = <<"sign">> /\ Head(s) # "query"
  BY <1>6 DEF Refreshing
<1>7. ASSUME NEW x \in Refreshing, s = <<x, "query">> PROVE Tail(s) = <<"query">> /\ Head(s) # "query"
  BY <1>7 DEF Refreshing
<1>8. ASSUME NEW x \in Refreshing, s = <<x, "query", "refresh", "sign">>
      PROVE  Head(s) # "query" /\ Opening(s)
  BY <1>8 DEF Opening, Refreshing
<1>9. ASSUME NEW x \in Refreshing, s = <<x, "verify", "refresh", "query">>
      PROVE  Tail(s) = <<"verify", "refresh", "query">> /\ Head(s) # "query"
  BY <1>9 DEF Refreshing
<1>10. \A t \in {<<>>, <<"sign">>, <<"query">>, <<"verify", "refresh", "query">>} : ~Opening(t)
  BY DEF Opening, Refreshing
<1> QED
  BY <1>1, <1>2, <1>3, <1>4, <1>5, <1>6, <1>7, <1>8, <1>9, <1>10, Cases

LEMMA OpeningReplaced ==
    ASSUME NEW s \in Scripts, s # <<>>, Head(s) = "refresh", NEW x \in {"load", "fill"},
           Opening([s EXCEPT ![1] = x])
    PROVE  Opening(s)
<1>1. CASE s = <<"refresh">>
  BY <1>1 DEF Opening
<1>2. CASE s = <<"refresh", "sign">>
  BY <1>2 DEF Opening
<1>3. CASE s = <<"refresh", "query">>
  BY <1>3 DEF Opening
<1>4. CASE s = <<"refresh", "query", "refresh", "sign">>
  BY <1>4 DEF Opening, Refreshing
<1>5. CASE s = <<"refresh", "verify", "refresh", "query">>
  BY <1>5 DEF Opening
<1> QED
  BY <1>1, <1>2, <1>3, <1>4, <1>5, Cases

LEMMA NothingOpens ==
    ~Opening(<<>>) /\ ~Opening(<<"refresh", "query">>) /\ ~Opening(NextPage)
  BY DEF Opening, Refreshing, NextPage

\* The script of p becomes s, its filter F and its page x.
LEMMA KeyGiven ==
    ASSUME IInv, KeysOK, NEW p \in Procs, NEW s, script' = [script EXCEPT ![p] = s],
           NEW F \in Filters \cup {{}}, filter' = [filter EXCEPT ![p] = F],
           NEW x, page' = [page EXCEPT ![p] = x], Keyed(x), Opening(s) => x = NoPage
    PROVE  KeysOK'
<1>1. /\ script'[p] = s /\ filter'[p] = F /\ page'[p] = x
      /\ filter' = [q \in Procs |-> filter'[q]]
  BY DEF KeysOK, IInv, InOrder, PagesBound
<1>2. \A q \in Procs \ {p} : script'[q] = script[q] /\ filter'[q] = filter[q] /\ page'[q] = page[q]
  BY DEF KeysOK, IInv, InOrder, PagesBound
<1> QED
  BY <1>1, <1>2 DEF KeysOK, Keyed

LEMMA KeyKept ==
    ASSUME IInv, KeysOK, NEW p \in Procs, NEW s, script' = [script EXCEPT ![p] = s],
           UNCHANGED filter, page' = page \/ NewRevision,
           Opening(s) => Opening(script[p])
    PROVE  KeysOK'
<1>1. \A q \in Procs : Opening(script'[q]) => Opening(script[q])
  BY DEF IInv, InOrder
<1>2. ASSUME NEW q \in Procs
      PROVE  /\ Keyed(page'[q])
             /\ page[q] = NoPage => page'[q] = NoPage
  <2>1. CASE page' = page
    BY <2>1 DEF KeysOK
  <2>2. CASE NewRevision
    <3> DEFINE x == page[q]
    <3>1. IsPage(x) /\ Keyed(x)
      BY DEF IInv, PagesBound, KeysOK
    <3>2. page'[q] = IF x.cursor = "live" THEN [x EXCEPT !.cursor = "stale"]
                     ELSE IF x.cursor = "unsigned" THEN [x EXCEPT !.torn = TRUE] ELSE x
      BY <2>2 DEF NewRevision
    <3>3. NoPage.cursor = "none"
      BY DEF NoPage
    <3> HIDE DEF x
    <3>4. CASE x.cursor = "live"
      <4>1. page'[q] = [cursor |-> "stale", torn |-> x.torn, key |-> x.key, of |-> x.of,
                        filter |-> x.filter]
        BY <3>1, <3>2, <3>4 DEF IsPage
      <4> QED
        BY <3>3, <3>4, <4>1 DEF Keyed, Given, x
    <3>5. CASE x.cursor = "unsigned"
      <4>1. page'[q] = [cursor |-> x.cursor, torn |-> TRUE, key |-> x.key, of |-> x.of,
                        filter |-> x.filter]
        BY <3>1, <3>2, <3>5 DEF IsPage
      <4>2. page'[q].key = x.key /\ page'[q].of = x.of /\ page'[q].filter = x.filter
        BY <4>1
      <4> QED
        BY <3>1, <3>3, <3>5, <4>2 DEF Keyed, Given, x
    <3>6. CASE x.cursor \notin Given
      BY <3>1, <3>2, <3>6 DEF Given, x
    <3> QED
      BY <3>4, <3>5, <3>6 DEF Given
  <2> QED
    BY <2>1, <2>2
<1> QED
  BY <1>1, <1>2 DEF KeysOK

LEMMA NoPageKeyed == Keyed(NoPage)
  BY DEF Keyed, NoPage, Given

\* A page that is queried without a key begins with the first task that its
\* filter lets pass.
LEMMA PageKeyed ==
    ASSUME IInv, KeysOK, NEW p \in Procs, page[p] = NoPage, Cardinality(Rest(p)) > 1
    PROVE  LET f == First(Rest(p))
           IN  filter[p] \in Filters /\ Names([modified |-> rows[f], id |-> f], rows, filter[p])
<1> DEFINE S == Matches(filter[p])
           f == First(S)
<1>1. Rest(p) = S
  BY DEF Rest, NoPage
<1>2. S # {}
  BY <1>1, FS_EmptySet
<1>3. filter[p] \in Filters
  BY <1>2 DEF KeysOK, Matches
<1>4. filter[p] \subseteq Nat
  BY <1>3, CacheAssumption
<1>5. S \in SUBSET Path /\ \A g \in S : rows[g] \in Nat
  BY <1>4 DEF Matches
<1>6. /\ f \in S
      /\ \A g \in S : rows[g] < rows[f] \/ (rows[g] = rows[f] /\ g <= f)
  <2> HIDE DEF S
  <2> QED
    BY <1>2, <1>5, FirstIsFirst
<1>7. \A g \in Path : rows[g] \in filter[p] => g \in S
  BY DEF Matches
<1>8. f \in Path /\ rows[f] \in filter[p]
  BY <1>6 DEF Matches
<1> HIDE DEF f, S
<1> QED
  BY <1>1, <1>3, <1>6, <1>7, <1>8 DEF Names, f

LEMMA KeysKept ==
    ASSUME IInv, KeysOK, [Next]_vars
    PROVE  KeysOK'
<1>1. ASSUME NEW p \in Procs, Step(p) PROVE KeysOK'
  <2> DEFINE s == script[p]
  <2>1. /\ s \in Scripts /\ IsPage(page[p]) /\ Keyed(page[p]) /\ (Opening(s) => page[p] = NoPage)
        /\ filter = [filter EXCEPT ![p] = filter[p]] /\ filter[p] \in Filters \cup {{}}
        /\ page = [page EXCEPT ![p] = page[p]]
    BY DEF IInv, InOrder, PagesBound, KeysOK
  <2>2. CASE ReadAll(p)
    BY <2>2, KeyKept, NothingOpens DEF ReadAll
  <2>3. CASE Scan(p) \/ ScanAll(p)
    <3>1. PICK x \in {"load", "fill"} :
              s # <<>> /\ Head(s) = "refresh" /\ script' = [script EXCEPT ![p] = [s EXCEPT ![1] = x]]
      BY <2>3 DEF Scan, ScanAll, Lease, Becomes, Doing, IInv, InOrder
    <3>2. UNCHANGED <<page, filter>>
      BY <2>3 DEF Scan, ScanAll, Lease
    <3> QED
      BY <2>1, <3>1, <3>2, KeyKept, OpeningReplaced
  <2>4. CASE LeaseTimeout(p)
    <3>1. script' = [script EXCEPT ![p] = <<>>] /\ filter' = filter
      BY <2>4 DEF LeaseTimeout
    <3>2. page' = page \/ page' = [page EXCEPT ![p] = NoPage]
      BY <2>4 DEF LeaseTimeout, IInv, PagesBound
    <3> QED
      BY <2>1, <3>1, <3>2, KeyKept, KeyGiven, NoPageKeyed, NothingOpens
  <2>5. CASE Load(p) \/ Fill(p)
    <3>1. script' = [script EXCEPT ![p] = Tail(s)] /\ s # <<>> /\ filter' = filter
      BY <2>5 DEF Load, Fill, Done, Doing
    <3>2. page' = page \/ NewRevision
      BY <2>5 DEF Load, Fill
    <3> QED
      BY <2>1, <3>1, <3>2, KeyKept, OpeningDropped
  <2>6. ASSUME NEW F \in Filters, List(p, F) PROVE KeysOK'
    BY <2>6, KeyGiven, NoPageKeyed DEF List
  <2>7. ASSUME NEW F \in Filters, Continue(p, F) PROVE KeysOK'
    <3>1. /\ script' = [script EXCEPT ![p] = NextPage] /\ filter' = [filter EXCEPT ![p] = F]
          /\ page' = [page EXCEPT ![p] = page[p]]
      BY <2>1, <2>7 DEF Continue
    <3> QED
      BY <2>1, <3>1, KeyGiven, NothingOpens
  <2>8. CASE Query(p)
    <3> DEFINE f == First(Rest(p))
               new == [cursor |-> "unsigned", torn |-> FALSE, of |-> rows, filter |-> filter[p],
                       key |-> [modified |-> rows[f], id |-> f]]
    <3>1. s # <<>> /\ Head(s) = "query" /\ filter' = filter
      BY <2>8 DEF Query, Doing
    <3>2. \/ /\ Len(s) > 1 /\ Cardinality(Rest(p)) > 1
             /\ page' = [page EXCEPT ![p] = new] /\ script' = [script EXCEPT ![p] = Tail(s)]
          \/ page' = [page EXCEPT ![p] = NoPage] /\ script' = [script EXCEPT ![p] = <<>>]
      BY <2>8 DEF Query, Done
    <3>3. CASE /\ Len(s) > 1 /\ Cardinality(Rest(p)) > 1
               /\ page' = [page EXCEPT ![p] = new] /\ script' = [script EXCEPT ![p] = Tail(s)]
      <4>1. page[p] = NoPage /\ ~Opening(Tail(s))
        BY <2>1, <3>1, <3>3, OpeningDropped
      <4>2. filter[p] \in Filters /\ Names(new.key, new.of, new.filter)
        BY <3>3, <4>1, PageKeyed
      <4>3. Keyed(new)
        BY <4>2 DEF Keyed
      <4> HIDE DEF new, s
      <4> QED
        BY <2>1, <3>1, <3>3, <4>1, <4>3, KeyGiven
    <3>4. CASE page' = [page EXCEPT ![p] = NoPage] /\ script' = [script EXCEPT ![p] = <<>>]
      BY <2>1, <3>1, <3>4, KeyGiven, NoPageKeyed, NothingOpens
    <3> QED
      BY <3>2, <3>3, <3>4
  <2>9. CASE Sign(p)
    <3> DEFINE signed == [page[p] EXCEPT !.cursor = "live"]
    <3>1. /\ page' = [page EXCEPT ![p] = signed] /\ filter' = filter
          /\ script' = [script EXCEPT ![p] = Tail(s)] /\ s # <<>> /\ Head(s) = "sign"
      BY <2>9 DEF Sign, Done, Doing, IInv, PagesBound
    <3>2. signed = [cursor |-> "live", torn |-> page[p].torn, key |-> page[p].key,
                    of |-> page[p].of, filter |-> page[p].filter]
      BY <2>1 DEF IsPage
    <3>3. Signing(s) /\ Tail(s) = <<>>
      BY <2>1, <3>1, Dropped
    <3>4. page[p].cursor \in Given
      BY <3>3 DEF IInv, InOrder, Given
    <3> HIDE DEF signed
    <3>5. signed.key = page[p].key /\ signed.of = page[p].of /\ signed.filter = page[p].filter
      BY <3>2
    <3>6. Keyed(signed)
      BY <2>1, <3>4, <3>5 DEF Keyed
    <3> QED
      BY <2>1, <3>1, <3>3, <3>6, KeyGiven, NothingOpens
  <2>10. CASE Verify(p)
    <3>1. s # <<>> /\ Head(s) = "verify" /\ filter' = filter
      BY <2>10 DEF Verify, Doing
    <3>2. \/ UNCHANGED page /\ script' = [script EXCEPT ![p] = Tail(s)]
          \/ page' = [page EXCEPT ![p] = NoPage] /\ script' = [script EXCEPT ![p] = <<>>]
      BY <2>10 DEF Verify, Done
    <3> QED
      BY <2>1, <3>1, <3>2, KeyKept, KeyGiven, NoPageKeyed, NothingOpens, OpeningDropped
  <2> QED
    BY <1>1, <2>2, <2>3, <2>4, <2>5, <2>6, <2>7, <2>8, <2>9, <2>10 DEF Step
<1>2. CASE Outside
  <2>1. UNCHANGED <<script, filter>> /\ (page' = page \/ NewRevision)
    BY Zenon, <1>2 DEF Outside, Upsert, UpsertFails, Invalidate, Write, Edit, GitAdd, GitCommit,
                GitUnstage, GitReset, GitRestore, GitCheckout, Change
  <2>2. CASE Procs = {}
    BY <2>1, <2>2 DEF KeysOK
  <2>3. ASSUME NEW p \in Procs PROVE KeysOK'
    <3>1. script' = [script EXCEPT ![p] = script[p]]
      BY <2>1 DEF IInv, InOrder
    <3> QED
      BY <2>1, <3>1, KeyKept
  <2> QED
    BY <2>2, <2>3
<1>3. CASE UNCHANGED vars
  BY <1>3 DEF vars, KeysOK
<1> QED
  BY <1>1, <1>2, <1>3 DEF Next

\* Behind the first of the tasks come all the others.
LEMMA RestComplete ==
    ASSUME NEW F \in Filters, NEW key, Names(key, rows, F)
    PROVE  key # NoKey /\ {f \in Matches(F) : After(f, key)} = Matches(F) \ {key.id}
<1>1. F \subseteq Version /\ F \subseteq Nat /\ Path \subseteq Nat
  BY CacheAssumption
<1>2. key.modified \in Version
  BY <1>1 DEF Names
<1>3. key # NoKey
  BY <1>2, CacheAssumption DEF NoKey
<1>4. ASSUME NEW f \in Matches(F) PROVE After(f, key) <=> f # key.id
  <2>1. f \in Nat /\ key.id \in Nat /\ rows[f] \in Nat /\ key.modified \in Nat
    BY <1>1 DEF Matches, Names
  <2>2. rows[f] < key.modified \/ (rows[f] = key.modified /\ f <= key.id)
    BY DEF Matches, Names
  <2>3. f = key.id => rows[f] = key.modified
    BY DEF Names
  <2> QED
    BY <2>1, <2>2, <2>3 DEF After
<1> QED
  BY <1>3, <1>4

(***************************************************************************)
(* Freshness.  A refresh that nothing disturbs leaves rows that are right  *)
(* for every file that Git can tell is not as committed.  The untracked    *)
(* files are the hard part: Git is not asked about each of them, so they   *)
(* all have to be recorded while no directory has changed.                 *)
(***************************************************************************)

Served(f) == rows[f] = work[f] \/ Committed(f)

\* What is claimed of a file that p is going to list.
Right(p, f) == Served(f) \/ f \in Overlooked \/ f \in late[p]

Loading(p) == Doing(p, "load") \/ Doing(p, "fill")

IsMeta(m) ==
    /\ m = [head |-> m.head, untracked |-> m.untracked, sameDirs |-> m.sameDirs,
            sameIndex |-> m.sameIndex]
    /\ m.sameDirs \in BOOLEAN

Shapes ==
    /\ index = [f \in Path |-> index[f]] /\ work = [f \in Path |-> work[f]]
    /\ rows = [f \in Path |-> rows[f]] /\ IsMeta(meta)
    /\ touched = [p \in Procs |-> touched[p]] /\ scan = [p \in Procs |-> scan[p]]
    /\ late = [p \in Procs |-> late[p]]
    /\ \A p \in Procs :
          touched[p] \in BOOLEAN /\ scan[p].read = [f \in Path |-> scan[p].read[f]]

\* One refresh at a time.
Leased == \A p \in Procs : Loading(p) => lock = p

\* A complete database lists all untracked files but those dropped by Git.
UntrackedRecorded ==
    db = "ok" /\ meta.sameDirs => Untracked \subseteq meta.untracked \cup dropped

\* What a refresh has found out, and what it has copied, while nothing changes.
Accurate(p) ==
    ~touched[p] =>
        /\ Doing(p, "load") /\ db = "ok" =>
              /\ \A f \in Path \ scan[p].changed : Right(p, f)
              /\ meta.sameDirs \/ Untracked \subseteq scan[p].changed
        /\ Doing(p, "fill") => scan[p].read = work
        /\ Doing(p, "query") =>
              /\ db = "ok" => meta.sameDirs /\ \A f \in Path : Right(p, f)
              /\ \A q \in Procs : Doing(q, "fill") => scan[q].read = work

FreshInv == Shapes /\ Leased /\ UntrackedRecorded /\ \A p \in Procs : Accurate(p)

\* After the copying there is no other, and before a query there always is.
LEMMA Following ==
    ASSUME NEW s \in Scripts, s # <<>>
    PROVE  /\ Head(s) \in {"load", "fill"} /\ Tail(s) # <<>> => Head(Tail(s)) \notin Refreshing
           /\ Head(s) \in {"query", "sign", "verify"} /\ Tail(s) # <<>> => Head(Tail(s)) = "refresh"
<1>1. CASE s = <<"query">> \/ s = <<"sign">>
  BY <1>1 DEF Refreshing
<1>2. CASE s = <<"query", "refresh", "sign">>
  BY <1>2
<1>3. CASE s = <<"verify", "refresh", "query">>
  BY <1>3
<1>4. ASSUME NEW x \in Refreshing, s = <<x>> PROVE Tail(s) = <<>>
  BY <1>4
<1>5. ASSUME NEW x \in Refreshing,
             \/ s = <<x, "sign">> \/ s = <<x, "query">> \/ s = <<x, "query", "refresh", "sign">>
             \/ s = <<x, "verify", "refresh", "query">>
      PROVE  Head(s) = x /\ Head(Tail(s)) \notin Refreshing
  <2>1. CASE s = <<x, "sign">>
    BY <2>1 DEF Refreshing
  <2>2. CASE s = <<x, "query">>
    BY <2>2 DEF Refreshing
  <2>3. CASE s = <<x, "query", "refresh", "sign">>
    BY <2>3 DEF Refreshing
  <2>4. CASE s = <<x, "verify", "refresh", "query">>
    BY <2>4 DEF Refreshing
  <2> QED
    BY <1>5, <2>1, <2>2, <2>3, <2>4
<1>6. \A x \in Refreshing : x \notin {"query", "sign", "verify"}
  BY DEF Refreshing
<1> QED
  BY <1>1, <1>2, <1>3, <1>4, <1>5, <1>6, Cases

\* A step of p to something else than copying or querying.
LEMMA QuietStep ==
    ASSUME IInv, FreshInv, NEW p \in Procs, NEW s, script' = [script EXCEPT ![p] = s],
           s # <<>> => Head(s) \notin {"load", "fill", "query"},
           UNCHANGED <<head, index, work, db, rows, meta, lock, scan, touched, late, dropped>>
    PROVE  FreshInv'
<1>1. script'[p] = s /\ \A q \in Procs \ {p} : script'[q] = script[q]
  BY DEF IInv, InOrder
<1>2. \A q \in Procs : \A x \in {"load", "fill", "query"} : Doing(q, x)' => Doing(q, x)
  BY <1>1 DEF Doing
<1>3. ASSUME NEW q \in Procs PROVE Accurate(q)'
  BY <1>2 DEF FreshInv, Accurate, Right, Served, Committed, Overlooked, Untracked
<1> QED
  BY <1>2, <1>3 DEF FreshInv, Shapes, IsMeta, Leased, Loading, UntrackedRecorded, Untracked

\* Whatever changes the files touches every process.
LEMMA ChangeStep ==
    ASSUME FreshInv, UNCHANGED <<lock, script, scan, late>>, touched' = [p \in Procs |-> TRUE],
           index' = [f \in Path |-> index'[f]], work' = [f \in Path |-> work'[f]],
           rows' = [f \in Path |-> rows'[f]], IsMeta(meta'), UntrackedRecorded'
    PROVE  FreshInv'
<1>1. \A p \in Procs : Accurate(p)'
  BY DEF Accurate
<1>2. Leased'
  BY DEF FreshInv, Leased, Loading, Doing
<1>3. Shapes'
  BY DEF FreshInv, Shapes
<1> QED
  BY <1>1, <1>2, <1>3 DEF FreshInv

\* The untracked files stay recorded if a directory changes or none is new: those
\* that were tracked are dropped.
LEMMA ChangeRecorded ==
    ASSUME FreshInv, NEW kind, NEW newHead, NEW newIndex, NEW newWork, NEW inPlace \in BOOLEAN,
           Change(kind, newHead, newIndex, newWork, inPlace),
           newIndex = [f \in Path |-> newIndex[f]], newWork = [f \in Path |-> newWork[f]],
           inPlace => \A f \in Path : newWork[f] # Absent => work[f] # Absent
    PROVE  FreshInv'
<1>1. /\ UNCHANGED <<lock, script, scan, late, db, rows>> /\ touched' = [p \in Procs |-> TRUE]
      /\ index' = newIndex /\ work' = newWork
      /\ dropped' = dropped \cup
            {f \in Path : index[f] # Absent /\ newIndex[f] = Absent /\ newWork[f] # Absent}
      /\ meta' = [meta EXCEPT !.sameDirs = @ /\ inPlace, !.sameIndex = @ /\ newIndex = index]
  BY DEF Change
<1>2. IsMeta(meta)
  BY DEF FreshInv, Shapes
<1>3. meta' = [head |-> meta.head, untracked |-> meta.untracked,
               sameDirs |-> (meta.sameDirs /\ inPlace),
               sameIndex |-> (meta.sameIndex /\ newIndex = index)]
  BY <1>1, <1>2 DEF IsMeta
<1>4. meta'.untracked = meta.untracked /\ meta'.sameDirs = (meta.sameDirs /\ inPlace)
  BY <1>3
<1>5. IsMeta(meta')
  <2>1. meta'.head = meta.head /\ meta'.sameIndex = (meta.sameIndex /\ newIndex = index)
    BY <1>3
  <2>2. (meta.sameDirs /\ inPlace) \in BOOLEAN
    BY <1>2 DEF IsMeta
  <2> QED
    BY <1>3, <1>4, <2>1, <2>2, Zenon DEF IsMeta
<1>6. UntrackedRecorded'
  <2>1. SUFFICES ASSUME db = "ok", meta'.sameDirs, NEW f \in Untracked'
                 PROVE  f \in meta'.untracked \cup dropped'
    BY <1>1 DEF UntrackedRecorded
  <2>2. meta.sameDirs /\ inPlace
    BY <1>2, <1>4, <2>1 DEF IsMeta
  <2>3. f \in Path /\ newWork[f] # Absent /\ newIndex[f] = Absent
    BY <1>1 DEF Untracked
  <2> QED
    BY <1>1, <1>4, <2>1, <2>2, <2>3 DEF FreshInv, UntrackedRecorded, Untracked
<1>7. rows' = [f \in Path |-> rows'[f]]
  BY <1>1 DEF FreshInv, Shapes
<1>8. index' = [f \in Path |-> index'[f]] /\ work' = [f \in Path |-> work'[f]]
  BY <1>1
<1> QED
  BY <1>1, <1>5, <1>6, <1>7, <1>8, ChangeStep

LEMMA BoardChanges ==
    ASSUME FreshInv,
           \/ \E f \in Path : GitAdd(f) \/ GitRestore(f) \/ GitUnstage(f)
           \/ \E S \in SUBSET Path : \E new \in [S -> Version] : Write(S, new)
           \/ \E f \in Path, v \in Content : Edit(f, v)
           \/ GitCommit
           \/ \E tree \in Tree : GitCheckout(tree) \/ GitReset(tree)
    PROVE  FreshInv'
<1>1. index = [f \in Path |-> index[f]] /\ work = [f \in Path |-> work[f]]
  BY DEF FreshInv, Shapes
<1>2. \A f, v : LET tree == [work EXCEPT ![f] = v] IN tree = [g \in Path |-> tree[g]]
  BY <1>1
<1>3. \A f, v : LET tree == [index EXCEPT ![f] = v] IN tree = [g \in Path |-> tree[g]]
  BY <1>1
<1>4. ASSUME NEW f \in Path, GitAdd(f) \/ GitUnstage(f) PROVE FreshInv'
  <2>1. PICK kind, v : Change(kind, head, [index EXCEPT ![f] = v], work, TRUE)
    BY <1>4 DEF GitAdd, GitUnstage
  <2> DEFINE tree == [index EXCEPT ![f] = v]
  <2>2. tree = [g \in Path |-> tree[g]]
    BY <1>3
  <2>3. Change(kind, head, tree, work, TRUE)
    BY <2>1
  <2> HIDE DEF tree
  <2> QED
    BY <1>1, <2>2, <2>3, ChangeRecorded
<1>5. ASSUME NEW f \in Path, GitRestore(f) PROVE FreshInv'
  BY <1>1, <1>2, <1>5, ChangeRecorded DEF GitRestore
<1>6. ASSUME NEW S, NEW new, Write(S, new) PROVE FreshInv'
  <2> DEFINE tree == [f \in Path |-> IF f \in S THEN new[f] ELSE work[f]]
  <2>1. Change("write", head, index, tree, FALSE)
    BY <1>6 DEF Write
  <2>2. tree = [g \in Path |-> tree[g]]
    OBVIOUS
  <2> HIDE DEF tree
  <2> QED
    BY <1>1, <2>1, <2>2, ChangeRecorded
<1>7. ASSUME NEW f \in Path, NEW v \in Content, Edit(f, v) PROVE FreshInv'
  <2> DEFINE tree == [work EXCEPT ![f] = v]
             inPlace == work[f] # Absent /\ v # Absent
  <2>1. tree = [g \in Path |-> IF g = f THEN v ELSE work[g]]
    BY <1>1
  <2>2. inPlace => \A g \in Path : tree[g] # Absent => work[g] # Absent
    BY <2>1
  <2>3. Change("edit", head, index, tree, inPlace) /\ tree = [g \in Path |-> tree[g]]
        /\ inPlace \in BOOLEAN
    BY <1>7, <2>1 DEF Edit
  <2> HIDE DEF tree, inPlace
  <2> QED
    BY <1>1, <2>2, <2>3, ChangeRecorded
<1>8. ASSUME NEW kind, NEW tree, tree = [g \in Path |-> tree[g]],
             Change(kind, tree, tree, work, TRUE)
      PROVE  FreshInv'
  BY <1>1, <1>8, ChangeRecorded
<1>9. CASE GitCommit
  <2>1. PICK tree \in {index, [f \in Path |-> IF index[f] = Absent THEN Absent ELSE work[f]]} :
           Change("commit", tree, tree, work, TRUE)
    BY <1>9 DEF GitCommit
  <2>2. tree = [g \in Path |-> tree[g]]
    BY <1>1, <2>1
  <2> QED
    BY <1>8, <2>1, <2>2
<1>10. ASSUME NEW tree \in Tree, GitReset(tree) PROVE FreshInv'
  <2>1. tree = [g \in Path |-> tree[g]]
    BY DEF Tree
  <2> QED
    BY <1>8, <1>10, <2>1 DEF GitReset
<1>11. ASSUME NEW tree \in Tree, GitCheckout(tree) PROVE FreshInv'
  <2> DEFINE moved == {f \in Path : tree[f] # head[f]}
             i == [f \in Path |-> IF f \in moved THEN tree[f] ELSE index[f]]
             w == [f \in Path |-> IF f \in moved THEN tree[f] ELSE work[f]]
  <2>1. Change("checkout", tree, i, w, FALSE)
    BY <1>11 DEF GitCheckout
  <2>2. i = [f \in Path |-> i[f]] /\ w = [f \in Path |-> w[f]]
    OBVIOUS
  <2> HIDE DEF i, w
  <2> QED
    BY <2>1, <2>2, ChangeRecorded
<1> QED
  BY <1>4, <1>5, <1>6, <1>7, <1>9, <1>10, <1>11

LEMMA Invalidated ==
    ASSUME FreshInv, Invalidate
    PROVE  FreshInv'
<1>1. /\ UNCHANGED <<index, work, lock, script, scan, late, meta>> /\ rows' = Empty
      /\ touched' = [p \in Procs |-> TRUE] /\ db' = "none"
  BY DEF Invalidate
<1>2. UntrackedRecorded' /\ IsMeta(meta')
  BY <1>1 DEF FreshInv, Shapes, UntrackedRecorded
<1>3. rows' = [f \in Path |-> rows'[f]]
  BY <1>1 DEF Empty
<1>4. index' = [f \in Path |-> index'[f]] /\ work' = [f \in Path |-> work'[f]]
  BY <1>1 DEF FreshInv, Shapes
<1> QED
  BY <1>1, <1>2, <1>3, <1>4, ChangeStep

\* The metadata that a mutation writes.
LEMMA UpsertRecorded ==
    ASSUME IsMeta(meta), NEW f \in Path
    PROVE  /\ IsMeta(UpsertMetadata(f)) /\ UpsertMetadata(f).sameDirs = meta.sameDirs
           /\ UpsertMetadata(f).untracked =
                 IF f \in Untracked THEN meta.untracked \cup {f} ELSE meta.untracked \ {f}
<1> DEFINE more == IF f \in Untracked THEN meta.untracked \cup {f} ELSE meta.untracked \ {f}
<1>1. UpsertMetadata(f) =
         [head |-> head, untracked |-> more, sameDirs |-> meta.sameDirs, sameIndex |-> TRUE]
  <2>1. UpsertMetadata(f) = [meta EXCEPT !.head = head, !.sameIndex = TRUE, !.untracked = more]
    BY DEF UpsertMetadata
  <2> HIDE DEF more
  <2> QED
    BY <2>1 DEF IsMeta
<1> HIDE DEF more
<1>2. IsMeta(UpsertMetadata(f)) /\ UpsertMetadata(f).untracked = more
      /\ UpsertMetadata(f).sameDirs = meta.sameDirs
  BY <1>1 DEF IsMeta
<1> QED
  BY <1>2 DEF more

\* A mutation's record is right, or late; and its file is listed if it is not tracked.
LEMMA Upserted ==
    ASSUME FreshInv, NEW f \in Path, Upsert(f)
    PROVE  FreshInv'
<1>1. /\ UNCHANGED <<head, index, work, lock, script, scan, touched, dropped>>
      /\ rows' = [rows EXCEPT ![f] = pending[f]] /\ (db' = "ok" => db = "ok")
      /\ late' = [p \in Procs |-> IF rows'[f] = work[f] THEN late[p] ELSE late[p] \cup {f}]
      /\ db' = "building" => db = "building"
  BY DEF Upsert, files
<1>2. rows' = [g \in Path |-> IF g = f THEN pending[f] ELSE rows[g]]
  BY <1>1 DEF FreshInv, Shapes
<1>3. IsMeta(meta) /\ UntrackedRecorded /\ Untracked' = Untracked
  BY <1>1 DEF FreshInv, Shapes, Untracked
<1>4. \/ meta' = meta
      \/ meta' = UpsertMetadata(f)
      \/ meta' = BegunMetadata(f) /\ db' = "partial"
  BY DEF Upsert
<1>5. IsMeta(meta')
  <2>1. IsMeta(BegunMetadata(f))
    BY DEF IsMeta, BegunMetadata
  <2> QED
    BY <1>3, <1>4, <2>1, UpsertRecorded
<1>6. db' = "ok" =>
         /\ meta'.sameDirs = meta.sameDirs
         /\ \A g \in Path \ {f} : g \in meta'.untracked <=> g \in meta.untracked
         /\ f \in Untracked /\ f \in meta.untracked => f \in meta'.untracked
  <2>1. CASE meta' = meta
    BY <2>1
  <2>2. CASE meta' = UpsertMetadata(f)
    <3>1. /\ meta'.sameDirs = meta.sameDirs
          /\ meta'.untracked =
                IF f \in Untracked THEN meta.untracked \cup {f} ELSE meta.untracked \ {f}
      BY <1>3, <2>2, UpsertRecorded
    <3> QED
      BY <3>1
  <2> QED
    BY <1>4, <2>1, <2>2
<1>7. UntrackedRecorded'
  <2> SUFFICES ASSUME db' = "ok", meta'.sameDirs, NEW g \in Untracked
               PROVE  g \in meta'.untracked \cup dropped
    BY <1>1, <1>3 DEF UntrackedRecorded
  <2>1. g \in meta.untracked \cup dropped /\ g \in Path
    BY <1>1, <1>3, <1>6 DEF UntrackedRecorded, Untracked
  <2> QED
    BY <1>6, <2>1
<1>8. ASSUME db' = "ok", NEW p \in Procs, NEW g \in Path, Right(p, g) PROVE Right(p, g)'
  <2>1. late'[p] = IF rows'[f] = work[f] THEN late[p] ELSE late[p] \cup {f}
    BY <1>1
  <2>2. CASE g = f
    BY <1>1, <2>1, <2>2 DEF Right, Served
  <2>3. CASE g # f
    <3>1. Served(g) => Served(g)'
      BY <1>1, <1>2, <2>3 DEF Served, Committed
    <3>2. g \in Overlooked => g \in Overlooked'
      BY <1>1, <1>3, <1>6, <1>8, <2>3 DEF Overlooked
    <3> QED
      BY <1>8, <2>1, <3>1, <3>2 DEF Right
  <2> QED
    BY <2>2, <2>3
<1>9. \A p \in Procs : \A x : Doing(p, x)' <=> Doing(p, x)
  BY <1>1 DEF Doing
<1>10. ASSUME NEW p \in Procs PROVE Accurate(p)'
  <2>1. Accurate(p)
    BY DEF FreshInv
  <2> QED
    BY <1>1, <1>3, <1>6, <1>8, <1>9, <2>1 DEF Accurate
<1>11. Shapes'
  <2>1. rows' = [g \in Path |-> rows'[g]] /\ late' = [p \in Procs |-> late'[p]]
    BY <1>1, <1>2
  <2> QED
    BY <1>1, <1>5, <2>1 DEF FreshInv, Shapes
<1>12. Leased'
  BY <1>1, <1>9 DEF FreshInv, Leased, Loading
<1> QED
  BY <1>7, <1>10, <1>11, <1>12 DEF FreshInv

LEMMA FreshSame ==
    ASSUME FreshInv,
           UNCHANGED <<head, index, work, db, rows, meta, lock, script, scan, touched, late, dropped>>
    PROVE  FreshInv'
<1>1. Shapes' /\ Leased' /\ UntrackedRecorded'
  BY DEF FreshInv, Shapes, IsMeta, Leased, Loading, Doing, UntrackedRecorded, Untracked
<1>2. ASSUME NEW q \in Procs PROVE Accurate(q)'
  BY DEF FreshInv, Accurate, Doing, Right, Served, Committed, Overlooked, Untracked
<1> QED
  BY <1>1, <1>2 DEF FreshInv

LEMMA Changed ==
    ASSUME NEW s \in Scripts, s # <<>>, Head(s) = "refresh", NEW x \in {"load", "fill"}
    PROVE  [s EXCEPT ![1] = x] # <<>> /\ Head([s EXCEPT ![1] = x]) = x
<1>1. CASE s = <<"refresh">>
  BY <1>1
<1>2. CASE s = <<"refresh", "sign">>
  BY <1>2
<1>3. CASE s = <<"refresh", "query">>
  BY <1>3
<1>4. CASE s = <<"refresh", "query", "refresh", "sign">>
  BY <1>4
<1>5. CASE s = <<"refresh", "verify", "refresh", "query">>
  BY <1>5
<1> QED
  BY <1>1, <1>2, <1>3, <1>4, <1>5, Cases

\* A refresh begins: nobody else is copying, and every file that is not suspect
\* is served right already.
LEMMA Unsuspected ==
    ASSUME FreshInv, db = "ok", NEW f \in Path \ Suspects
    PROVE  Served(f) \/ f \in Overlooked
<1>1. /\ index[f] = head[f] /\ (index[f] # Absent => work[f] = index[f])
      /\ f \in meta.untracked => rows[f] = work[f]
      /\ f \in Untracked => meta.sameDirs
  BY DEF Suspects
<1>2. f \in Untracked => rows[f] = work[f] \/ f \in Overlooked
  BY <1>1 DEF FreshInv, UntrackedRecorded, Overlooked
<1> QED
  BY <1>1, <1>2 DEF Served, Committed, Untracked

LEMMA ScanStep ==
    ASSUME IInv, FreshInv, NEW p \in Procs, Scan(p) \/ ScanAll(p)
    PROVE  FreshInv'
<1>1. /\ UNCHANGED <<head, index, work, meta>> /\ lock = NoProc /\ lock' = p
      /\ touched' = [touched EXCEPT ![p] = FALSE] /\ Doing(p, "refresh")
      /\ late' = [late EXCEPT ![p] = {}] /\ dropped' = dropped
  BY DEF Scan, ScanAll, Lease, files, cache
<1>2. \A q \in Procs : ~Loading(q)
  BY <1>1, CacheAssumption DEF FreshInv, Leased
<1>3. /\ touched'[p] = FALSE /\ \A q \in Procs \ {p} : touched'[q] = touched[q]
      /\ touched' = [q \in Procs |-> touched'[q]] /\ \A q \in Procs : touched'[q] \in BOOLEAN
      /\ late' = [q \in Procs |-> late'[q]] /\ \A q \in Procs \ {p} : late'[q] = late[q]
  BY <1>1 DEF FreshInv, Shapes
<1>4. ASSUME NEW x \in {"load", "fill"}, Becomes(p, x)
      PROVE  /\ \A y : Doing(p, y)' <=> y = x
             /\ \A q \in Procs \ {p} : \A y : Doing(q, y)' <=> Doing(q, y)
  <2>1. /\ script'[p] = [script[p] EXCEPT ![1] = x] /\ script[p] # <<>> /\ script[p] \in Scripts
        /\ \A q \in Procs \ {p} : script'[q] = script[q]
    BY <1>1, <1>4 DEF Becomes, Doing, IInv, InOrder
  <2>2. script'[p] # <<>> /\ Head(script'[p]) = x
    BY <1>1, <2>1, Changed DEF Doing
  <2> QED
    BY <2>1, <2>2 DEF Doing
<1>5. UntrackedRecorded' /\ IsMeta(meta')
  <2>1. db' = "ok" => db = "ok"
    BY DEF Scan, ScanAll, cache
  <2> QED
    BY <1>1, <2>1 DEF FreshInv, UntrackedRecorded, Untracked, Shapes
<1>6. CASE Scan(p)
  <2> DEFINE c == [kind |-> "changed", changed |-> Suspects, read |-> Empty]
  <2>1. Becomes(p, "load") /\ scan' = [scan EXCEPT ![p] = c] /\ UNCHANGED <<db, rows>>
    BY <1>6 DEF Scan, cache
  <2>2. /\ scan'[p].changed = Suspects /\ \A q \in Procs \ {p} : scan'[q] = scan[q]
        /\ scan' = [q \in Procs |-> scan'[q]]
    BY <2>1 DEF FreshInv, Shapes
  <2>3. /\ \A f \in Path : Served(f)' <=> Served(f)
        /\ Overlooked' = Overlooked /\ Untracked' = Untracked
    BY <1>1, <2>1 DEF Served, Committed, Overlooked, Untracked
  <2>4. /\ \A y : Doing(p, y)' <=> y = "load"
        /\ \A q \in Procs \ {p} : \A y : Doing(q, y)' <=> Doing(q, y)
    BY <1>4, <2>1
  <2>5. \A q \in Procs : ~Doing(q, "fill")'
    BY <1>2, <2>4 DEF Loading
  <2>6. Accurate(p)'
    <3>1. meta.sameDirs \/ Untracked \subseteq Suspects
      BY DEF Suspects, Untracked
    <3>2. db = "ok" => \A f \in Path \ Suspects : Right(p, f)'
      BY <2>3, Unsuspected DEF Right
    <3> QED
      BY <1>1, <2>1, <2>2, <2>3, <2>4, <3>1, <3>2 DEF Accurate
  <2>7. ASSUME NEW q \in Procs, q # p PROVE Accurate(q)'
    <3>1. Accurate(q) /\ ~Doing(q, "load")
      BY <1>2 DEF FreshInv, Loading
    <3>2. \A f \in Path : Right(q, f) => Right(q, f)'
      BY <1>3, <2>3, <2>7 DEF Right
    <3> QED
      BY <1>1, <1>3, <2>1, <2>3, <2>4, <2>5, <2>7, <3>1, <3>2 DEF Accurate
  <2>8. Leased'
    BY <1>1, <1>2, <2>4 DEF Leased, Loading
  <2>9. Shapes'
    <3>1. scan'[p].read = Empty
      BY <2>1 DEF FreshInv, Shapes
    <3>2. \A q \in Procs : scan'[q].read = [f \in Path |-> scan'[q].read[f]]
      BY <2>2, <3>1 DEF FreshInv, Shapes, Empty
    <3> QED
      BY <1>1, <1>3, <1>5, <2>1, <2>2, <3>2 DEF FreshInv, Shapes
  <2> QED
    BY <1>5, <2>6, <2>7, <2>8, <2>9 DEF FreshInv
<1>7. CASE ScanAll(p)
  <2> DEFINE c == [kind |-> "rebuild", changed |-> {}, read |-> work]
  <2>1. /\ Becomes(p, "fill") /\ scan' = [scan EXCEPT ![p] = c] /\ rows' = Empty
        /\ db' = "building"
    BY <1>7 DEF ScanAll
  <2>2. /\ scan'[p].read = work /\ \A q \in Procs \ {p} : scan'[q] = scan[q]
        /\ scan' = [q \in Procs |-> scan'[q]]
    BY <2>1 DEF FreshInv, Shapes
  <2>3. /\ \A y : Doing(p, y)' <=> y = "fill"
        /\ \A q \in Procs \ {p} : \A y : Doing(q, y)' <=> Doing(q, y)
    BY <1>4, <2>1
  <2>4. \A q \in Procs : Doing(q, "fill")' => q = p
    BY <1>2, <2>3 DEF Loading
  <2>5. Accurate(p)'
    BY <1>1, <2>2, <2>3 DEF Accurate
  <2>6. ASSUME NEW q \in Procs, q # p PROVE Accurate(q)'
    <3>1. ~Doing(q, "load")'
      BY <1>2, <2>3, <2>6 DEF Loading
    <3> QED
      BY <1>1, <2>1, <2>2, <2>4, <2>6, <3>1 DEF Accurate
  <2>7. Leased'
    BY <1>1, <1>2, <2>3 DEF Leased, Loading
  <2>8. rows' = [f \in Path |-> rows'[f]]
    BY <2>1 DEF Empty
  <2>9. Shapes'
    <3>1. \A q \in Procs : scan'[q].read = [f \in Path |-> scan'[q].read[f]]
      BY <2>2 DEF FreshInv, Shapes
    <3> QED
      BY <1>1, <1>3, <1>5, <2>2, <2>8, <3>1 DEF FreshInv, Shapes
  <2> QED
    BY <1>5, <2>5, <2>6, <2>7, <2>9 DEF FreshInv
<1> QED
  BY <1>6, <1>7

\* What was not suspect when the refresh began is served right, and the rest is
\* copied now.
LEMMA CopyStep ==
    ASSUME IInv, FreshInv, NEW p \in Procs, Load(p) \/ Fill(p)
    PROVE  FreshInv'
<1>1. /\ UNCHANGED <<head, index, work, touched, late, dropped>> /\ lock' = NoProc /\ Loading(p)
      /\ script' = [script EXCEPT ![p] = Tail(script[p])] /\ scan' = [scan EXCEPT ![p] = NoScan]
  BY DEF Load, Fill, Done, Loading, files
<1>2. lock = p /\ \A q \in Procs \ {p} : ~Loading(q)
  BY <1>1 DEF FreshInv, Leased
<1>3. \A q \in Procs \ {p} : \A y : Doing(q, y)' <=> Doing(q, y)
  BY <1>1 DEF Doing, IInv, InOrder
<1>4. ~Loading(p)'
  <2>1. /\ script[p] \in Scripts /\ script[p] # <<>> /\ Head(script[p]) \in {"load", "fill"}
        /\ script'[p] = Tail(script[p])
    BY <1>1 DEF Loading, Doing, IInv, InOrder
  <2>2. script'[p] # <<>> => Head(script'[p]) \notin Refreshing
    BY <2>1, Following
  <2> QED
    BY <2>2 DEF Loading, Doing, Refreshing
<1>5. Leased' /\ \A q \in Procs : ~Loading(q)'
  BY <1>2, <1>3, <1>4 DEF Leased, Loading
<1>6. scan' = [q \in Procs |-> scan'[q]]
  BY <1>1 DEF FreshInv, Shapes
<1>7. rows' = [f \in Path |-> rows'[f]] /\ IsMeta(meta') /\ UntrackedRecorded'
  <2>1. Untracked' = Untracked /\ IsMeta(meta) /\ UntrackedRecorded
    BY <1>1 DEF Untracked, FreshInv, Shapes
  <2>2. ASSUME NEW u, db' = "ok" => Untracked \subseteq u \cup dropped, meta' = Metadata(u)
        PROVE  IsMeta(meta') /\ UntrackedRecorded'
    BY <1>1, <2>1, <2>2 DEF Metadata, IsMeta, UntrackedRecorded
  <2>3. CASE Load(p)
    <3>1. db' = "ok" => Untracked \subseteq Recorded \cup dropped
      BY <2>1, <2>3 DEF Load, Recorded, UntrackedRecorded
    <3>2. rows' = Copied(scan[p].changed) /\ (meta' = meta \/ meta' = Metadata(Recorded))
      BY <2>3 DEF Load
    <3>3. rows' = [f \in Path |-> rows'[f]]
      BY <3>2 DEF Copied
    <3>4. ASSUME meta' = meta PROVE IsMeta(meta') /\ UntrackedRecorded'
      BY <1>1, <2>1, <2>3, <3>4 DEF Load, UntrackedRecorded, IsMeta
    <3> QED
      BY <2>2, <3>1, <3>2, <3>3, <3>4
  <2>4. CASE Fill(p)
    <3>1. meta' = Metadata(Untracked)
      BY <2>4 DEF Fill
    <3>2. rows' = scan[p].read
      BY <2>4 DEF Fill
    <3>3. rows' = [f \in Path |-> rows'[f]]
      BY <3>2 DEF FreshInv, Shapes
    <3> QED
      BY <2>2, <3>1, <3>3
  <2> QED
    BY <2>3, <2>4
<1>8. Shapes'
  <2>1. \A q \in Procs : scan'[q].read = [f \in Path |-> scan'[q].read[f]]
    BY <1>1 DEF FreshInv, Shapes, NoScan, Empty
  <2> QED
    BY <1>1, <1>6, <1>7, <2>1 DEF FreshInv, Shapes
<1>9. ASSUME NEW q \in Procs, ~touched[q], Doing(q, "query")', db' = "ok"
      PROVE  meta'.sameDirs /\ \A f \in Path : Right(q, f)'
  <2>1. CASE Load(p)
    <3>1. rows' = Copied(scan[p].changed) /\ db' = db /\ Doing(p, "load")
      BY <2>1 DEF Load
    <3>2. \A f \in Path : rows'[f] = IF f \in scan[p].changed THEN work[f] ELSE rows[f]
      BY <3>1 DEF Copied
    <3>3. /\ \A f \in Path \ scan[p].changed : Right(q, f)
          /\ meta.sameDirs \/ Untracked \subseteq scan[p].changed
      <4>1. CASE q = p
        BY <1>9, <3>1, <4>1 DEF FreshInv, Accurate
      <4>2. CASE q # p
        BY <1>3, <1>9, <3>1, <4>2 DEF FreshInv, Accurate
      <4> QED
        BY <4>1, <4>2
    <3>4. \/ meta' = meta /\ meta.sameDirs
          \/ meta' = Metadata(Recorded)
      BY <2>1 DEF Load
    <3>5. meta'.sameDirs /\ (meta.sameDirs => meta'.untracked = meta.untracked)
      BY <3>4 DEF Metadata, Recorded
    <3>6. \A f \in Path \ scan[p].changed : f \in Overlooked => f \in Overlooked'
      BY <1>1, <3>3, <3>5 DEF Overlooked, Untracked
    <3>7. ASSUME NEW f \in Path PROVE Right(q, f)'
      <4>1. CASE f \in scan[p].changed
        BY <1>1, <3>2, <4>1 DEF Right, Served
      <4>2. CASE f \notin scan[p].changed
        <5>1. Right(q, f) /\ rows'[f] = rows[f] /\ (f \in Overlooked => f \in Overlooked')
          BY <3>2, <3>3, <3>6, <4>2
        <5>2. Served(f) => Served(f)'
          BY <1>1, <5>1 DEF Served, Committed
        <5> QED
          BY <1>1, <5>1, <5>2 DEF Right
      <4> QED
        BY <4>1, <4>2
    <3> QED
      BY <3>5, <3>7
  <2>2. CASE Fill(p)
    <3>1. rows' = scan[p].read /\ Doing(p, "fill") /\ meta' = Metadata(Untracked)
      BY <2>2 DEF Fill
    <3>2. scan[p].read = work
      <4>1. CASE q = p
        BY <1>9, <3>1, <4>1 DEF FreshInv, Accurate
      <4>2. CASE q # p
        BY <1>3, <1>9, <3>1, <4>2 DEF FreshInv, Accurate
      <4> QED
        BY <4>1, <4>2
    <3> QED
      BY <1>1, <3>1, <3>2 DEF Right, Served, Metadata
  <2> QED
    BY <2>1, <2>2
<1>10. \A q \in Procs : Accurate(q)'
  BY <1>1, <1>5, <1>9 DEF Accurate, Loading
<1> QED
  BY <1>5, <1>7, <1>8, <1>10 DEF FreshInv

LEMMA FreshKept ==
    ASSUME IInv, FreshInv, [Next]_vars
    PROVE  FreshInv'
<1>1. ASSUME NEW p \in Procs, Step(p) PROVE FreshInv'
  <2> DEFINE s == script[p]
  <2>1. s \in Scripts
    BY DEF IInv, InOrder
  <2>2. CASE ReadAll(p)
    <3>1. /\ script' = [script EXCEPT ![p] = <<"refresh", "query">>]
          /\ UNCHANGED <<head, index, work, db, rows, meta, lock, scan, touched, late, dropped>>
      BY <2>2 DEF ReadAll, files, cache
    <3>2. Head(<<"refresh", "query">>) = "refresh"
      OBVIOUS
    <3> QED
      BY <3>1, <3>2, QuietStep
  <2>3. CASE Scan(p) \/ ScanAll(p)
    BY <2>3, ScanStep
  <2>4. CASE Load(p) \/ Fill(p)
    BY <2>4, CopyStep
  <2>5. CASE LeaseTimeout(p)
    <3>1. /\ script' = [script EXCEPT ![p] = <<>>]
          /\ UNCHANGED <<head, index, work, db, rows, meta, lock, scan, touched, late, dropped>>
      BY <2>5 DEF LeaseTimeout, files, cache
    <3> QED
      BY <3>1, QuietStep
  <2>6. ASSUME NEW F \in Filters, List(p, F) \/ Continue(p, F) PROVE FreshInv'
    <3>1. PICK t \in {FirstPage, NextPage} :
          /\ script' = [script EXCEPT ![p] = t]
          /\ UNCHANGED <<head, index, work, db, rows, meta, lock, scan, touched, late, dropped>>
      BY <2>6 DEF List, Continue, files, cache
    <3>2. Head(t) = "refresh"
      BY <3>1 DEF FirstPage, NextPage
    <3> QED
      BY <3>1, <3>2, QuietStep
  <2>7. CASE Query(p) \/ Sign(p) \/ Verify(p)
    <3>1. PICK t \in {<<>>, Tail(s)} :
          /\ script' = [script EXCEPT ![p] = t]
          /\ UNCHANGED <<head, index, work, db, rows, meta, lock, scan, touched, late, dropped>>
          /\ s # <<>> /\ Head(s) \in {"query", "sign", "verify"}
      BY <2>7 DEF Query, Sign, Verify, Done, Doing, files, cache
    <3>2. t # <<>> => Head(t) = "refresh"
      BY <2>1, <3>1, Following
    <3> QED
      BY <3>1, <3>2, QuietStep
  <2> QED
    BY <1>1, <2>2, <2>3, <2>4, <2>5, <2>6, <2>7 DEF Step
<1>2. CASE Outside
  <2>1. ASSUME NEW f \in Path, UpsertFails(f) PROVE FreshInv'
    BY <2>1, FreshSame DEF UpsertFails, files, cache
  <2> QED
    BY <1>2, <2>1, BoardChanges, Invalidated, Upserted DEF Outside
<1>3. CASE UNCHANGED vars
  BY <1>3, FreshSame DEF vars, files, cache
<1> QED
  BY <1>1, <1>2, <1>3 DEF Next

(***************************************************************************)
(* Theorems.                                                               *)
(***************************************************************************)

LEMMA CursorsInvariant == Spec => []IInv
<1>1. Init => IInv
  <2> SUFFICES ASSUME Init PROVE IInv
    OBVIOUS
  <2>1. PagesBound
    BY NoPageBound DEF Init, PagesBound
  <2>2. InOrder
    BY Begun DEF Init, InOrder
  <2> QED
    BY <2>1, <2>2 DEF IInv
<1>2. IInv /\ [Next]_vars => IInv'
  <2>1. ASSUME IInv, UNCHANGED vars PROVE IInv'
    BY <2>1 DEF vars, cache, IInv, PagesBound, Bound, InOrder
  <2> QED
    BY <2>1, StepInductive, OutsideInductive DEF Next
<1> QED
  BY <1>1, <1>2, PTL DEF Spec

\* CursorStable holds in every reachable state: a listing that continues never
\* mixes the rows of two revisions.
THEOREM CursorsStable == Spec => []CursorStable
<1>1. IInv => CursorStable
  BY DEF IInv, PagesBound, Bound, CursorStable, Given
<1> QED
  BY <1>1, CursorsInvariant, PTL

\* A listing that continues with a current cursor comes to every task behind the
\* first page once, whatever the tasks' dates and IDs.
THEOREM ListingsComplete == Spec => []NoneSkipped
<1>1. Init => KeysOK
  <2> SUFFICES ASSUME Init PROVE KeysOK
    OBVIOUS
  <2>1. \A p \in Procs : script[p] = <<>> /\ page[p] = NoPage /\ filter[p] = {}
    BY DEF Init
  <2> QED
    BY <2>1, NoPageKeyed DEF Init, KeysOK
<1>2. IInv /\ KeysOK /\ [Next]_vars => KeysOK'
  BY KeysKept
<1>3. IInv /\ KeysOK => NoneSkipped
  <2> SUFFICES ASSUME IInv, KeysOK, NEW p \in Procs,
                      page[p].cursor = "live", ~page[p].torn, db = "ok",
                      filter[p] = page[p].filter
               PROVE  Rest(p) = Matches(filter[p]) \ {page[p].key.id}
    BY DEF NoneSkipped
  <2>1. rows = page[p].of
    BY DEF IInv, PagesBound, Bound, Given
  <2>2. filter[p] \in Filters /\ Names(page[p].key, rows, filter[p])
    BY <2>1 DEF KeysOK, Keyed, Given
  <2> QED
    BY <2>2, RestComplete DEF Rest
<1> QED
  BY <1>1, <1>2, <1>3, CursorsInvariant, PTL DEF Spec

\* A refresh that nothing disturbs serves every file right that is not exactly as
\* committed, unless Git has dropped it or a mutation stored an outdated record of it:
\* DirtyServed, for any files, processes and changes of the board.
THEOREM DirtyFilesServed == Spec => []DirtyServed
<1>1. Init => FreshInv
  <2> SUFFICES ASSUME Init PROVE FreshInv
    OBVIOUS
  <2>1. \A p \in Procs : \A x : ~Doing(p, x)
    BY DEF Init, Doing
  <2>2. index \in Tree /\ work \in Tree /\ rows = Empty
    BY DEF Init
  <2>3. IsMeta(meta) /\ meta.sameDirs = FALSE
    BY DEF Init, IsMeta
  <2>4. \A p \in Procs : scan[p].read = [f \in Path |-> scan[p].read[f]]
    BY DEF Init, NoScan, Empty
  <2>5. Shapes
    BY <2>2, <2>3, <2>4 DEF Shapes, Tree, Empty, Init
  <2> QED
    BY <2>1, <2>3, <2>5 DEF FreshInv, Leased, Loading, UntrackedRecorded, Accurate
<1>2. IInv /\ FreshInv /\ [Next]_vars => FreshInv'
  BY FreshKept
<1>3. FreshInv => DirtyServed
  BY DEF FreshInv, Accurate, DirtyServed, Settled, Right, Served
<1> QED
  BY <1>1, <1>2, <1>3, CursorsInvariant, PTL DEF Spec
=============================================================================
