--------------------------- MODULE TaskDependencies ---------------------------
(***************************************************************************)
(* Which task waits on which.  A link is added after a walk of the graph,  *)
(* one query for each hop, has found that it closes no loop; a link is     *)
(* removed with an eye to whether that frees the task, and completing a    *)
(* blocker has the automation worker look for the tasks it frees.  Each of *)
(* these reads and writes in steps, side by side with the others, and what *)
(* it is to tell the queue may be lost on the way.                         *)
(*                                                                         *)
(* A task stays in the project it is in, or in none.                       *)
(***************************************************************************)
EXTENDS Integers, FiniteSets

CONSTANTS
    LinkTasks,
    LinkRequests,
    MaxLinks,       \* MAX_DEPENDENCIES_PER_TASK
    MaxDepth,       \* MAX_AUTOMATION_DEPTH: rule after rule, before the engine stops a chain
    MaxTurns,       \* bound: requests to add or remove a link, and tasks that are
                    \* completed, reopened, archived, restored
    MaxUnsaid,      \* bound: words that are lost
    NoTask

ASSUME LinkAssumption ==
    /\ IsFiniteSet(LinkTasks)
    /\ {MaxLinks, MaxDepth, MaxTurns, MaxUnsaid} \subseteq Nat
    /\ NoTask \notin LinkTasks

VARIABLES
    links,      \* TaskDependency rows: <<blocked, blocking>>
    completed, archived,    \* the tasks whose completedAt, archivedAt is set
    placed,     \* the tasks that have a projectId
    linkers,    \* requests between their steps
    publishing, \* <<task, depth>>: completed by a write whose event is still to be queued
    completions,    \* queued events: the same
    turns, unsaid,   \* counted against the bounds
    held,       \* observation: tasks blocked at some time since they were last told they are not
    lapsed,     \* observation: tasks that are free by what nothing announces
    crossing    \* observation: a link was written while another was being checked

tasks == <<completed, archived, placed>>
events == <<publishing, completions>>
linkVars == <<links, tasks, linkers, events, turns, unsaid, held, lapsed, crossing>>

Unasked == [pc |-> "idle", blocked |-> NoTask, blocking |-> NoTask,
            seen |-> {}, frontier |-> {}, quiet |-> FALSE]

LinksInit ==
    /\ links = {} /\ completed = {} /\ archived = {}
    /\ linkers = [q \in LinkRequests |-> Unasked]
    /\ placed \in SUBSET LinkTasks
    /\ publishing = {} /\ completions = {}
    /\ turns = 0 /\ unsaid = 0
    /\ held = {} /\ lapsed = {} /\ crossing = FALSE

waitsOn(ts, es) == {e[2] : e \in {e \in es : e[1] \in ts}}
blockers(t, es) == waitsOn({t}, es) \ (completed \cup archived)
Blocked(t) == blockers(t, links) # {}
dependents(b) == {e[1] : e \in {e \in links : e[2] = b}}
freed(b) == {t \in dependents(b) \ (completed \cup archived) : ~ Blocked(t)}

\* What a step tells, and what it leaves without a word.  Whatever is blocked after
\* it stays or comes to be held, and its word is still to come.
Tell(told, missed) ==
    LET stuck == {t \in LinkTasks : waitsOn({t}, links') \ (completed' \cup archived') # {}} IN
    /\ held' = stuck \cup (held \ told)
    /\ lapsed' = ((lapsed \ told) \cup missed) \ stuck
Turn == turns < MaxTurns /\ turns' = turns + 1
Lost == unsaid < MaxUnsaid /\ unsaid' = unsaid + 1

-----------------------------------------------------------------------------
(* Adding a link.                                                          *)

AddDependency(q, blocked, blocking) ==
    /\ Turn /\ linkers[q].pc = "idle" /\ blocked # blocking
    \* The cap is counted at the task the request is about, at either end.
    /\ \E task \in {blocked, blocking} :
        Cardinality({e \in links : task \in {e[1], e[2]}}) < MaxLinks
    /\ linkers' = [linkers EXCEPT ![q] =
            [Unasked EXCEPT !.pc = "walk", !.blocked = blocked, !.blocking = blocking,
                            !.seen = {blocking}, !.frontier = {blocking}]]
    /\ UNCHANGED <<links, tasks, events, unsaid, held, lapsed, crossing>>

\* wouldCloseLoop: one hop out from `blocking`.
onlyDirect(q, found) == {}    \* mutant: looks one hop far
onward(q, found) == found \ linkers[q].seen
Walk(q) == LET me == linkers[q]
               found == waitsOn(me.frontier, links) IN
    /\ me.pc = "walk"
    /\ linkers' = [linkers EXCEPT ![q] =
            IF me.blocked \in found THEN Unasked
            ELSE [me EXCEPT !.seen = @ \cup found, !.frontier = onward(q, found),
                            !.pc = IF onward(q, found) = {} THEN "create" ELSE "walk"]]
    /\ UNCHANGED <<links, tasks, events, turns, unsaid, held, lapsed, crossing>>

\* A link that is there already is left alone.
CreateLink(q) == LET me == linkers[q] IN
    /\ me.pc = "create"
    /\ links' = links \cup {<<me.blocked, me.blocking>>}
    /\ linkers' = [linkers EXCEPT ![q] = Unasked]
    /\ crossing' = (crossing \/ \E p \in LinkRequests \ {q} : linkers[p].pc \in {"walk", "create"})
    /\ UNCHANGED <<tasks, events, turns, unsaid>>
    /\ Tell({}, {})

-----------------------------------------------------------------------------
(* Removing one.                                                           *)

\* The link is read with both its tasks.  Whether the task may have to be told is
\* settled by what is read here.
RemoveDependency(q) == \E e \in links :
    /\ Turn /\ linkers[q].pc = "idle"
    /\ linkers' = [linkers EXCEPT ![q] =
            [Unasked EXCEPT !.pc = "delete", !.blocked = e[1], !.blocking = e[2],
                            !.quiet = e[2] \in completed \/ e[1] \in completed \cup archived \/ e[1] \notin placed]]
    /\ UNCHANGED <<links, tasks, events, unsaid, held, lapsed, crossing>>

\* Somebody else's delete makes this one fail.
DeleteLink(q) == LET me == linkers[q]
                     e == <<me.blocked, me.blocking>> IN
    /\ me.pc = "delete"
    /\ links' = links \ {e}
    /\ linkers' = [linkers EXCEPT ![q] = IF e \in links /\ ~ me.quiet THEN [me EXCEPT !.pc = "count"]
                                                                     ELSE Unasked]
    /\ UNCHANGED <<tasks, events, turns, unsaid, crossing>>
    /\ Tell({}, IF me.quiet /\ e \in links THEN {me.blocked} ELSE {})

\* announceIfUnblocked: nothing unfinished blocks it still.
stillBlockingAny(t) == waitsOn({t}, links)    \* mutant: finished ones count
stillBlocking(t) == blockers(t, links)
AnnounceIfUnblocked(q) == LET me == linkers[q]
                              told == {t \in {me.blocked} : stillBlocking(t) = {}} IN
    /\ me.pc = "count"
    /\ linkers' = [linkers EXCEPT ![q] = Unasked]
    /\ UNCHANGED <<links, tasks, events, turns, crossing>>
    /\ \/ Tell(told, {}) /\ UNCHANGED unsaid
       \/ Lost /\ Tell({}, told)      \* a stop, or the add fails

-----------------------------------------------------------------------------
(* Tasks come and go, and the worker looks at what was completed.          *)

\* update, in the pane or the list, or a rule's write, at the depth of its chain: the
\* event is for after the write.  A person's edit of a task in no project raises none.
announces(t, depth) == t \in placed \/ depth > 0
CompleteTask(t, depth) ==
    /\ Turn /\ t \notin completed
    /\ completed' = completed \cup {t}
    /\ publishing' = IF announces(t, depth) THEN publishing \cup {<<t, depth>>} ELSE publishing
    /\ UNCHANGED <<links, archived, placed, linkers, completions, unsaid, crossing>>
    /\ Tell({}, IF announces(t, depth) THEN {} ELSE dependents(t))

\* An import from Asana announces nothing it writes; nor does the list, which reads
\* twice, a completion it finds undone only the second time.
CompleteUnsaid(t) ==
    /\ Turn /\ t \notin completed
    /\ completed' = completed \cup {t}
    /\ UNCHANGED <<links, archived, placed, linkers, events, unsaid, crossing>>
    /\ Tell({}, dependents(t))

\* publish: never throws.  An add that fails, or a stop before it, loses the event.
Publish(c) ==
    /\ c \in publishing /\ publishing' = publishing \ {c}
    /\ UNCHANGED <<links, tasks, linkers, turns, crossing>>
    /\ \/ completions' = completions \cup {c} /\ Tell({}, {}) /\ UNCHANGED unsaid
       \/ Lost /\ UNCHANGED completions /\ Tell({}, freed(c[1]))

\* Who looked for the freed passed over a task that was finished or put away; coming
\* back free, it is told nothing.
ReopenTask(t) ==
    /\ Turn /\ t \in completed
    /\ completed' = completed \ {t}
    /\ UNCHANGED <<links, archived, placed, linkers, events, unsaid, crossing>>
    /\ Tell({}, {t})

\* Archiving a blocker frees its dependents as well; nothing says so.
ArchiveTask(t) ==
    /\ Turn /\ t \notin archived
    /\ archived' = archived \cup {t}
    /\ UNCHANGED <<links, completed, placed, linkers, events, unsaid, crossing>>
    /\ Tell({}, dependents(t))

RestoreTask(t) ==
    /\ Turn /\ t \in archived
    /\ archived' = archived \ {t}
    /\ UNCHANGED <<links, completed, placed, linkers, events, unsaid, crossing>>
    /\ Tell({}, {t})

\* unblockedDependents, from the completion's job: of a blocker still complete, those
\* in a project.  A job at the depth limit stops before it.
unblockedDependents(b) == IF b \in completed THEN freed(b) \cap placed ELSE {}
HearCompletion(c) ==
    /\ c \in completions /\ completions' = completions \ {c}
    /\ UNCHANGED <<links, tasks, linkers, publishing, turns, crossing>>
    /\ \/ c[2] < MaxDepth /\ Tell(unblockedDependents(c[1]), {}) /\ UNCHANGED unsaid
       \/ c[2] >= MaxDepth /\ Tell({}, freed(c[1])) /\ UNCHANGED unsaid
       \/ Lost /\ Tell({}, freed(c[1]))      \* every attempt fails, or the add does

LinksNext ==
    \/ \E q \in LinkRequests :
        \/ \E s, t \in LinkTasks : AddDependency(q, s, t)
        \/ Walk(q) \/ CreateLink(q) \/ RemoveDependency(q) \/ DeleteLink(q) \/ AnnounceIfUnblocked(q)
    \/ \E t \in LinkTasks :
        \/ \E depth \in 0 .. MaxDepth : CompleteTask(t, depth)
        \/ CompleteUnsaid(t) \/ ReopenTask(t) \/ ArchiveTask(t) \/ RestoreTask(t)
    \/ (\E c \in publishing : Publish(c)) \/ \E c \in completions : HearCompletion(c)

LinksSpec == LinksInit /\ [][LinksNext]_linkVars

-----------------------------------------------------------------------------
(* Properties.                                                             *)

\* No ring of tasks waits on itself, however long, unless two links were checked
\* side by side, each against a graph without the other.
NoLoop ==
    ~ crossing => \E place \in [LinkTasks -> 1 .. Cardinality(LinkTasks)] :
                    \A e \in links : place[e[2]] < place[e[1]]

\* An open task in a project that was blocked and is free has been told, or is about
\* to be: by the job of a blocker that was completed, by the request that completed it,
\* or by the one that took a link away.  It was told nothing, and is in `lapsed` until
\* it is blocked again, where
\*  - the blocker was in no project, was archived, or was completed unsaid;
\*  - a chain of rules completed it and is stopped at the depth limit;
\*  - the event, or the job's work on it, was lost;
\*  - somebody took the link away who found the blocker finished, its job to come;
\*  - the task itself came back when nothing blocked it any more.
FreedIsTold == \A t \in (held \cap placed) \ (completed \cup archived) :
    \/ Blocked(t) \/ t \in lapsed
    \/ \E c \in publishing \cup completions : c[1] \in completed /\ <<t, c[1]>> \in links
    \/ \E q \in LinkRequests : linkers[q].pc = "count" /\ linkers[q].blocked = t
=============================================================================
