----------------------------- MODULE TaskLedger -----------------------------
(***************************************************************************)
(* kanban/ledger.py: the history of one task, as the operators that the    *)
(* board's commands use.  A ledger is the sequence of its entries: an      *)
(* event, and the segment that holds it, one of the files 000001.ndjson,   *)
(* 000002.ndjson, ...  An event names the event that it follows by its     *)
(* hash; here, by its place and by the state that it left.                 *)
(***************************************************************************)
EXTENDS Naturals, Sequences, SequencesExt

CONSTANTS
    Gone,       \* the state of a task that has no file
    MaxSegment  \* the bytes that a segment may hold

ASSUME SegmentAssumption == MaxSegment \in Nat \ {0}

\* An event that creates a task holds all of it, the others what changed.
Bytes(op) == IF op = "create" THEN 2 ELSE 1

Read(ledger) == [i \in DOMAIN ledger |-> ledger[i].event]

\* The head of the chain: what the next event must follow.
Latest(ledger) ==
    [n |-> Len(ledger), after |-> IF ledger = <<>> THEN Gone ELSE Last(ledger).event.after]

Prepare(ledger, op, before, after) ==
    [op |-> op, before |-> before, after |-> after, prev |-> Latest(ledger), size |-> Bytes(op)]

Fits(event) == event.size <= MaxSegment

\* The size of the last segment.
Used(ledger) ==
    LET Size(entry) == IF entry.segment = Last(ledger).segment THEN entry.event.size ELSE 0
    IN  FoldLeft(LAMBDA sum, entry : sum + Size(entry), 0, ledger)

\* The segment that an event goes to: the last one, unless it would outgrow it.
SegmentOf(ledger, event) ==
    IF ledger = <<>> THEN 1
    ELSE IF Used(ledger) + event.size > MaxSegment THEN Last(ledger).segment + 1
    ELSE Last(ledger).segment

StaleTip(ledger, event) == event.prev # Latest(ledger)

\* append_prepared, for an event that is not stale.
Appended(ledger, event) ==
    Append(ledger, [segment |-> SegmentOf(ledger, event), event |-> event])

\* What read verifies of a chain.
Chained(ledger) ==
    \A i \in DOMAIN ledger :
        ledger[i].event.prev =
            [n |-> i - 1, after |-> IF i = 1 THEN Gone ELSE ledger[i - 1].event.after]
=============================================================================
