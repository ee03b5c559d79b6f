---------------------------- MODULE TaskCompletion ----------------------------
(***************************************************************************)
(* Completing a repeating task.  A person's edit in the pane, one in the   *)
(* list and a rule's action each read the task, write it, and when they    *)
(* find that their write completed it, have the next occurrence made.      *)
(* `completedAt` follows the status that is written and the copy that was  *)
(* read, which another edit may have outdated; the list reads twice.       *)
(*                                                                         *)
(* A task has its status in two columns, `status` and the definition its   *)
(* workspace made, and shows the definition where it has one.  The pane    *)
(* writes the first; the list and a rule write either; a column of the     *)
(* board may set the second, and leaves `completedAt` alone.               *)
(*                                                                         *)
(* Tasks are numbered in the order they are made; a status is done or not. *)
(* What an occurrence copies, dates included, is left out, as are tasks    *)
(* that do not repeat.                                                     *)
(***************************************************************************)
EXTENDS Naturals, FiniteSets, Sequences

CONSTANTS
    Edits,      \* edits on their way
    MaxEdits,   \* bound: edits made
    MaxSpawnFaults  \* bound: occurrences that fail to be made

ASSUME CompletionAssumption == {MaxEdits, MaxSpawnFaults} \subseteq Nat

VARIABLES
    repeats,    \* Task rows: [status, definition, stamped: completedAt is set, gone: archivedAt, next, of]
    editing,    \* the edits between their steps
    made, spawnFaults,  \* counted against the bounds
    slipped     \* observation: tasks whose next one the list, an archiving or a failure kept from being made

completionVars == <<repeats, editing, made, spawnFaults, slipped>>

NoEdit == [pc |-> "idle", via |-> "pane", task |-> 0, wants |-> "other",
           was |-> "unread", before |-> FALSE, copy |-> FALSE]
fresh(of, definition) == [status |-> "open", definition |-> definition, stamped |-> FALSE,
                          gone |-> FALSE, next |-> 0, of |-> of]
shown(row) == IF row.definition = "none" THEN row.status ELSE row.definition

CompletionInit ==
    /\ \E definition \in {"none", "open"} : repeats = <<fresh(0, definition)>>
    /\ editing = [e \in Edits |-> NoEdit]
    /\ made = 0 /\ spawnFaults = 0 /\ slipped = {}

\* TasksService.update, ProjectWorkItemService.update, a rule's run: the task is
\* read, and the edit says what its status becomes, if it says anything of it.
Read(e, t, via, wants) ==
    /\ made < MaxEdits /\ made' = made + 1
    /\ editing[e].pc = "idle" /\ t \in DOMAIN repeats
    /\ wants = "back" => via = "pane"
    /\ editing' = [editing EXCEPT ![e] =
            [pc |-> IF via = "list" /\ wants # "other" THEN "again" ELSE "write",
             via |-> via, task |-> t, wants |-> wants,
             was |-> IF via = "list" THEN shown(repeats[t]) ELSE "unread",
             before |-> repeats[t].stamped, copy |-> repeats[t].stamped]]
    /\ UNCHANGED <<repeats, spawnFaults, slipped>>

\* The list's repository reads again before it writes a status.
ReadAgain(e) ==
    /\ editing[e].pc = "again"
    /\ editing' = [editing EXCEPT ![e].pc = "write", ![e].copy = repeats[editing[e].task].stamped]
    /\ UNCHANGED <<repeats, made, spawnFaults, slipped>>

\* SET_COMPLETION finds the task as it wants it and leaves it; UPDATE_STATUS writes.
Skip(e) ==
    /\ editing[e].pc = "write" /\ editing[e].via = "rule"
    /\ editing[e].wants = IF editing[e].copy THEN "done" ELSE "open"
    /\ editing' = [editing EXCEPT ![e] = NoEdit]
    /\ UNCHANGED <<repeats, made, spawnFaults, slipped>>

\* completedAt, from the status that is written and the copy that was read.  An approval
\* sent back is reopened whatever its copy says.
stampedAfter(me, now) == CASE me.wants = "done" /\ ~ me.copy -> TRUE
                           [] me.wants = "back" \/ (me.wants = "open" /\ me.copy) -> FALSE
                           [] OTHER -> now

columns(via) == IF via = "pane" THEN {"status"} ELSE {"status", "definition"}
rewritten(me, row, column) ==
    LET stamped == [row EXCEPT !.stamped = stampedAfter(me, row.stamped)]
        status == IF me.wants = "done" THEN "done" ELSE "open" IN
    IF me.wants = "other" THEN stamped
    ELSE IF column = "status" THEN [stamped EXCEPT !.status = status]
                              ELSE [stamped EXCEPT !.definition = status]

\* An edit that finds nothing of what it compares changed stops there.  The list
\* compares the status that is shown, a rule the columns it wrote; `also` stands for
\* all else they compare.
seesChange(me, after, also) ==
    \/ me.via = "pane" \/ also
    \/ me.via = "list" /\ shown(after) # me.was
    \/ me.via = "rule" /\ me.wants = "done" /\ ~ me.copy

Write(e) == \E column \in columns(editing[e].via), also \in BOOLEAN :
    LET me == editing[e]  row == repeats[me.task]
        after == rewritten(me, row, column)
        spawns == seesChange(me, after, also) /\ ~ me.before /\ after.stamped IN
    /\ me.pc = "write"
    /\ repeats' = [repeats EXCEPT ![me.task] = after]
    /\ editing' = [editing EXCEPT ![e] = IF spawns THEN [me EXCEPT !.pc = "spawn"] ELSE NoEdit]
    \* The list had first read it complete, or sees nothing new.
    /\ slipped' = IF me.via = "list" /\ after.stamped /\ ~ row.stamped /\ ~ spawns
                  THEN slipped \cup {me.task} ELSE slipped
    /\ UNCHANGED <<made, spawnFaults>>

\* A drag to a column of the board that has a default status.
Move(t, definition) ==
    /\ made < MaxEdits /\ made' = made + 1
    /\ repeats' = [repeats EXCEPT ![t].definition = definition]
    /\ UNCHANGED <<editing, spawnFaults, slipped>>

-----------------------------------------------------------------------------
(* spawnNextOccurrence.                                                    *)

SpawnReads(e) == LET row == repeats[editing[e].task] IN
    /\ editing[e].pc = "spawn"
    /\ editing' = [editing EXCEPT ![e] =
            IF row.stamped /\ row.next = 0 /\ ~ row.gone THEN [@ EXCEPT !.pc = "create"] ELSE NoEdit]
    /\ slipped' = IF row.gone THEN slipped \cup {editing[e].task} ELSE slipped
    /\ UNCHANGED <<repeats, made, spawnFaults>>

\* The next task and the claim in one transaction: without the claim, neither.
\* The copied row is not looked at again.  openStatus: a project may have no status open.
claimsAny(t) == TRUE    \* mutant: claims what is claimed
claims(t) == repeats[t].next = 0
opensOn(t) == IF repeats[t].definition = "none" THEN {"none"} ELSE {"none", "open"}
SpawnCreates(e) == LET t == editing[e].task IN
    /\ editing[e].pc = "create"
    /\ IF claims(t)
       THEN \E definition \in opensOn(t) :
            repeats' = Append([repeats EXCEPT ![t].next = Len(repeats) + 1], fresh(t, definition))
       ELSE UNCHANGED repeats
    /\ editing' = [editing EXCEPT ![e] = NoEdit]
    /\ UNCHANGED <<made, spawnFaults, slipped>>

\* An error while it is made is logged and the edit stands; a process that stops
\* here loses it as well.
SpawnFails(e) ==
    /\ spawnFaults < MaxSpawnFaults /\ spawnFaults' = spawnFaults + 1
    /\ editing[e].pc \in {"spawn", "create"}
    /\ editing' = [editing EXCEPT ![e] = NoEdit]
    /\ slipped' = slipped \cup {editing[e].task}
    /\ UNCHANGED <<repeats, made>>

\* Archived, or brought back.
Archive(t) ==
    /\ made < MaxEdits /\ made' = made + 1
    /\ repeats' = [repeats EXCEPT ![t].gone = ~ @]
    /\ UNCHANGED <<editing, spawnFaults, slipped>>

CompletionNext ==
    \/ \E e \in Edits :
        \/ \E t \in DOMAIN repeats, via \in {"pane", "list", "rule"}, wants \in {"done", "open", "back", "other"} :
                Read(e, t, via, wants)
        \/ ReadAgain(e) \/ Skip(e) \/ Write(e)
        \/ SpawnReads(e) \/ SpawnCreates(e) \/ SpawnFails(e)
    \/ \E t \in DOMAIN repeats : Archive(t) \/ \E definition \in {"open", "done"} : Move(t, definition)

CompletionSpec == CompletionInit /\ [][CompletionNext]_completionVars

-----------------------------------------------------------------------------
(* Properties.                                                             *)

\* A task that is complete has one next occurrence, never two, whoever completed
\* it and however often; or the edit that completed it is about to make it.
\* None comes where making it failed, where the task was archived by then, or
\* where the list, which reads twice, had first read it complete, or set a status
\* that is not shown.
OneNext == \A t \in DOMAIN repeats :
    LET nexts == {n \in DOMAIN repeats : repeats[n].of = t} IN
    /\ Cardinality(nexts) <= 1
    /\ repeats[t].stamped /\ nexts = {} =>
        \/ t \in slipped
        \/ \E e \in Edits : editing[e].task = t /\ editing[e].pc \in {"spawn", "create"}
=============================================================================
