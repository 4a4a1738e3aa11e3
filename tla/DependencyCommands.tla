------------------------- MODULE DependencyCommands -------------------------
(***************************************************************************)
(* The commands of kanban/cli.py that change which tasks block which:      *)
(* create, update --blocked-by, deps add and deps remove.                  *)
(*                                                                         *)
(* A command looks for cycles in the indexed dependencies, one blocker at  *)
(* a time, and then saves the whole list of blockers with update_task.     *)
(* Only the save holds the board lock.  A list may name tasks that do not  *)
(* exist (forward references).                                             *)
(***************************************************************************)
EXTENDS FiniteSets

CONSTANTS
    Procs,      \* CLI processes
    Task,       \* task IDs
    NoTask

ASSUME TaskAssumption == NoTask \notin Task

VARIABLES
    exists,     \* IDs of the tasks on the board
    blocked_by, \* ID -> blocked_by of the task, as saved
    pc,         \* process -> "idle", "checking" or "saving"
    cmd         \* process -> its command

commandsVars == <<exists, blocked_by, pc, cmd>>

\* A command: what it does, to which task, with which IDs, the list it read,
\* and the existing IDs whose edge it has not checked yet.
NoCmd == [kind |-> "none", task |-> NoTask, ids |-> {}, read |-> {}, unchecked |-> {}]

Cmd == [kind : {"add", "remove", "update"}, task : Task, ids : SUBSET Task,
        read : SUBSET Task, unchecked : SUBSET Task]

CommandsTypeOK ==
    /\ exists \subseteq Task
    /\ blocked_by \in [Task -> SUBSET Task]
    /\ \A t \in Task \ exists : blocked_by[t] = {}
    /\ pc \in [Procs -> {"idle", "checking", "saving"}]
    /\ cmd \in [Procs -> Cmd \cup {NoCmd}]
    /\ \A p \in Procs : pc[p] # "idle" => cmd[p] \in Cmd /\ cmd[p].task \in exists

(***************************************************************************)
(* Cycles.                                                                 *)
(***************************************************************************)

\* S contains the blockers of its members.
Closed(S) == \A t \in S : blocked_by[t] \subseteq S

\* b is blocked by t, directly or not: every closed set around b contains t.
Reaches(b, t) == \A S \in SUBSET Task : b \in S /\ Closed(S) => t \in S

\* Mutant of WouldCycle: only direct blockers are looked at.
WouldCycleDirectly(t, b) == t = b \/ t \in blocked_by[b]

\* Making b a blocker of t closes a cycle.
WouldCycle(t, b) == t = b \/ Reaches(b, t)

(***************************************************************************)
(* Actions.                                                                *)
(***************************************************************************)

CommandsInit ==
    /\ exists = {}
    /\ blocked_by = [t \in Task |-> {}]
    /\ pc = [p \in Procs |-> "idle"]
    /\ cmd = [p \in Procs |-> NoCmd]

Return(p) ==
    /\ pc' = [pc EXCEPT ![p] = "idle"]
    /\ cmd' = [cmd EXCEPT ![p] = NoCmd]

\* The ID of a new task is drawn at random: neither the board nor a running
\* command knows it.
Fresh(t) ==
    /\ t \notin exists
    /\ \A u \in Task : t \notin blocked_by[u]
    /\ \A q \in Procs : t \notin cmd[q].ids \cup cmd[q].read

\* The command searches for a path from the new task to its blockers first:
\* there is none, as nothing refers to a fresh ID.
Create(p, t, ids) ==
    /\ pc[p] = "idle"
    /\ Fresh(t)
    /\ t \notin ids
    /\ exists' = exists \cup {t}
    /\ blocked_by' = [blocked_by EXCEPT ![t] = ids]
    /\ UNCHANGED <<pc, cmd>>

\* The command finds its task and reads its blockers, and finds out which of
\* the IDs it is given exist.  No task may block itself.
Begin(p, kind, t, ids) ==
    /\ pc[p] = "idle"
    /\ t \in exists
    /\ kind \in {"add", "remove"} => ids # {}
    /\ kind \in {"add", "update"} => t \notin ids
    /\ pc' = [pc EXCEPT ![p] = IF kind = "remove" THEN "saving" ELSE "checking"]
    /\ cmd' = [cmd EXCEPT ![p] = [kind |-> kind, task |-> t, ids |-> ids, read |-> blocked_by[t],
                                  unchecked |-> IF kind = "remove" THEN {} ELSE ids \cap exists]]
    /\ UNCHANGED <<exists, blocked_by>>

CheckEdge(p, b) ==
    /\ pc[p] = "checking"
    /\ b \in cmd[p].unchecked
    /\ ~WouldCycle(cmd[p].task, b)
    /\ cmd' = [cmd EXCEPT ![p].unchecked = @ \ {b}]
    /\ UNCHANGED <<exists, blocked_by, pc>>

Reject(p, b) ==
    /\ pc[p] = "checking"
    /\ b \in cmd[p].unchecked
    /\ WouldCycle(cmd[p].task, b)
    /\ Return(p)
    /\ UNCHANGED <<exists, blocked_by>>

CheckDone(p) ==
    /\ pc[p] = "checking"
    /\ cmd[p].unchecked = {}
    /\ pc' = [pc EXCEPT ![p] = "saving"]
    /\ UNCHANGED <<exists, blocked_by, cmd>>

\* The list the command saves, made from the one it has read.
Saved(c) == CASE c.kind = "add"    -> c.read \cup c.ids
              [] c.kind = "remove" -> c.read \ c.ids
              [] OTHER             -> c.ids

\* update_task, without an expected revision.
Save(p) ==
    /\ pc[p] = "saving"
    /\ blocked_by' = [blocked_by EXCEPT ![cmd[p].task] = Saved(cmd[p])]
    /\ Return(p)
    /\ UNCHANGED exists

\* update_task refuses, or the process dies.
Fail(p) ==
    /\ pc[p] # "idle"
    /\ Return(p)
    /\ UNCHANGED <<exists, blocked_by>>

Step(p) ==
    \/ \E t \in Task, ids \in SUBSET Task :
          \/ Create(p, t, ids)
          \/ \E kind \in {"add", "remove", "update"} : Begin(p, kind, t, ids)
    \/ \E b \in Task : CheckEdge(p, b) \/ Reject(p, b)
    \/ CheckDone(p) \/ Save(p) \/ Fail(p)

CommandsNext == \E p \in Procs : Step(p)

CommandsSpec == CommandsInit /\ [][CommandsNext]_commandsVars

(***************************************************************************)
(* Properties.                                                             *)
(***************************************************************************)

\* "Cycle detection prevents circular dependencies": every nonempty set of
\* tasks has a member that none of the others blocks, nor itself.
Acyclic ==
    \A S \in SUBSET Task : S # {} => \E t \in S : blocked_by[t] \cap S = {}

\* deps add merges its IDs with the existing list: it takes no blocker away.
AddKeeps ==
    [][\A p \in Procs : cmd[p].kind = "add" /\ blocked_by' # blocked_by /\ pc'[p] # pc[p] =>
          blocked_by[cmd[p].task] \subseteq blocked_by'[cmd[p].task]]_commandsVars
=============================================================================
