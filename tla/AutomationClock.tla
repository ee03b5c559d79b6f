--------------------------- MODULE AutomationClock ---------------------------
(***************************************************************************)
(* Rules that time starts, and the people who edit them: a rule's draft,   *)
(* its published versions, and the minute's tick that fires schedules and  *)
(* date triggers.                                                          *)
(*                                                                         *)
(* Ticks may overlap, stop half-way or lose the event they add; managers   *)
(* save, publish, restore, pause and archive a rule between any two of a   *)
(* tick's steps, and between each other's.  The third thing a tick does,   *)
(* resuming waiting runs, is in AutomationEngine.                          *)
(*                                                                         *)
(* A configuration stands for a canvas or for a setting of the trigger     *)
(* columns; a canvas sets the columns to the configuration of its trigger  *)
(* node, and a canvas without one is None.  Calendars are left to a        *)
(* constant: when a schedule occurs.                                       *)
(***************************************************************************)
EXTENDS Integers, FiniteSets

CONSTANTS
    Rules, Tasks, Configs,
    Kind,           \* configuration -> "schedule" or "date"
    Occurs,         \* schedule -> the moments it occurs at
    WholeProject,   \* schedules with ExecutionScope.NONE: one event, about the project
    Lead, Passes,   \* date trigger -> how early its window opens; whether it stays open
    Grace,          \* SCHEDULE_GRACE_MS
    FirstDate,      \* task -> the date it is watched for
    Bodies,         \* <<canvas, trigger columns named>> of requests that create or save
    Managers, Ticks,
    MaxTime,        \* bound: the last moment
    MaxRequests,    \* bound: how many requests managers make
    MaxMoves,       \* bound: how often a task is closed or its date moved
    MaxFaults,      \* bound: how many ticks, requests and adds fail
    None

Moments == 0 .. MaxTime

ASSUME ClockAssumption ==
    /\ {MaxTime, Grace, MaxRequests, MaxMoves, MaxFaults} \subseteq Nat
    /\ Kind \in [Configs -> {"schedule", "date"}]
    /\ Occurs \in [Configs -> SUBSET Moments] /\ Lead \in [Configs -> Nat]
    /\ WholeProject \subseteq Configs /\ Passes \subseteq Configs
    /\ FirstDate \in [Tasks -> Moments]
    /\ Bodies \subseteq (Configs \cup {None}) \X (Configs \cup {None})
    /\ None \notin Rules \cup Tasks \cup Configs \cup Int

VARIABLES
    now,
    rules,      \* AutomationRule: draft, status, published version, cursor
    versions,   \* AutomationRuleVersion rows of each rule
    tasks,      \* open or not, and the watched date
    firings,    \* AutomationClockFiring rows
    managers,   \* requests on rules between their steps
    ticks,      \* ticks between their steps
    requests, moves, faults,    \* counted against the bounds
    fired, again,   \* observation: what was published, and what once more
    claimed, lost,  \* observation: what a tick took on itself, and never said
    alive, strays,  \* observation: which moments met their rule live; runs of others
    meant,          \* observation: what some one request set out to leave of a rule
    torn, raced,    \* observation: drafts two requests mixed; rules two published at once
    overtaken       \* observation: rules published while they were being deleted

vars == <<now, rules, versions, tasks, firings, managers, ticks, requests, moves, faults,
          fired, again, claimed, lost, alive, strays, meant, torn, raced, overtaken>>
clock == <<now, alive>>
counts == <<requests, moves, faults>>
seen == <<fired, again, claimed, lost, strays>>
edits == <<versions, managers, meant, torn, raced, overtaken>>

Moment == Moments \cup {None}
Version == [number : Nat, steps : Configs, trigger : Configs]
Rule == [status : {"DRAFT", "ACTIVE", "PAUSED", "ARCHIVED", "GONE"},
         steps : Configs \cup {None}, trigger : Configs,
         published : Version \cup {None}, publishedAt : Moment, cursor : Moment]
\* What is published is told apart by rule, moment and task (None: the project).
Firing == [kind : {"schedule", "date"}, rule : Rules, moment : Int, task : Tasks \cup {None}]

NoRequest == [pc |-> "idle", rule |-> None, read |-> None, steps |-> None, trigger |-> None,
              number |-> 0, publish |-> FALSE]
NoTick == [pc |-> "idle", at |-> 0, todo |-> {}, next |-> None, left |-> {}]

\* Columns named in the request win; else they follow the canvas's trigger
\* node, and a canvas without one leaves them alone.
columnsOf(canvas, named) == IF named # None THEN named ELSE canvas

Init ==
    /\ now = 0
    /\ \E b \in Bodies : LET steps == b[1]  trigger == columnsOf(b[1], b[2]) IN
        /\ trigger # None
        /\ meant = [r \in Rules |-> IF steps = None THEN {} ELSE {<<steps, trigger>>}]
        \* Drawn and not yet published, or just published.
        /\ \/ /\ rules = [r \in Rules |-> [status |-> "DRAFT", steps |-> steps, trigger |-> trigger,
                            published |-> None, publishedAt |-> None, cursor |-> None]]
              /\ versions = [r \in Rules |-> {}]
           \/ LET v == [number |-> 1, steps |-> steps, trigger |-> trigger] IN
              /\ steps # None
              /\ rules = [r \in Rules |-> [status |-> "ACTIVE", steps |-> steps, trigger |-> trigger,
                            published |-> v, publishedAt |-> 0, cursor |-> None]]
              /\ versions = [r \in Rules |-> {v}]
    /\ tasks = [t \in Tasks |-> [open |-> TRUE, date |-> FirstDate[t]]]
    /\ firings = {}
    /\ managers = [m \in Managers |-> NoRequest]
    /\ ticks = [k \in Ticks |-> NoTick]
    /\ requests = 0 /\ moves = 0 /\ faults = 0
    /\ fired = {} /\ again = {} /\ claimed = {} /\ lost = {}
    /\ alive = {} /\ strays = {} /\ torn = {} /\ raced = {} /\ overtaken = {}

-----------------------------------------------------------------------------
(* The calendar.                                                           *)

\* The most recent moment of a schedule at or before `at`.
latestOccurrence(c, at) ==
    LET past == {x \in Occurs[c] : x <= at} IN
    IF past = {} THEN None ELSE CHOOSE x \in past : \A y \in past : y <= x

\* dateTriggerWindow: when the trigger holds for a task with that date.
opensAt(c, date) == date - Lead[c]
stillOpen(c, date, at) == c \in Passes \/ at < date

dateTriggerIsDue(c, date, at, since) ==
    /\ opensAt(c, date) <= at
    /\ opensAt(c, date) > since
    /\ stillOpen(c, date, at)

-----------------------------------------------------------------------------
(* People: a rule is saved, published, restored, paused, archived.         *)

Exists(r) == rules[r].status # "GONE"

\* Another request is between its two writes of rule r.
HalfWritten(m, r) == \E n \in Managers \ {m} : managers[n].pc = "columns" /\ managers[n].rule = r
HalfPublished(m, r) == \E n \in Managers \ {m} :
    managers[n].pc \in {"read", "number"} /\ managers[n].rule = r

Removing(m, r) == \E n \in Managers \ {m} : managers[n].pc = "delete" /\ managers[n].rule = r

\* A request sets out to leave rule r with steps s and trigger t.
Intending(r, s, t) == IF s = None THEN meant ELSE [meant EXCEPT ![r] = @ \cup {<<s, t>>}]

Ask(m, r) ==
    /\ requests < MaxRequests /\ managers[m].pc = "idle" /\ Exists(r)
    /\ requests' = requests + 1

\* replaceNodes: the steps are written, in a transaction of their own.  The
\* trigger columns follow in another write; trig = None leaves them alone.
WriteSteps(m, r, s, trig, publish) ==
    /\ Ask(m, r)
    /\ rules' = [rules EXCEPT ![r].steps = s]
    /\ managers' = [managers EXCEPT ![m] =
            [NoRequest EXCEPT !.pc = "columns", !.rule = r, !.trigger = trig, !.publish = publish]]
    /\ meant' = Intending(r, s, trig)
    /\ torn' = IF HalfWritten(m, r) THEN torn \cup {r} ELSE torn \ {r}
    /\ UNCHANGED <<clock, versions, tasks, firings, ticks, moves, faults, raced, overtaken, seen>>

Save(m, r) == \E b \in Bodies : WriteSteps(m, r, b[1], columnsOf(b[1], b[2]), FALSE)

\* A save that sends no canvas writes the columns it names, once.
SaveColumns(m, r) == \E named \in {b[2] : b \in Bodies} \ {None} :
    /\ Ask(m, r)
    /\ rules' = [rules EXCEPT ![r].trigger = named]
    /\ meant' = Intending(r, rules[r].steps, named)
    /\ torn' = IF HalfWritten(m, r) THEN torn \cup {r} ELSE torn
    /\ UNCHANGED <<clock, versions, tasks, firings, managers, ticks, moves, faults, raced,
                   overtaken, seen>>

Revert(m, r) == \E v \in versions[r], publish \in BOOLEAN :
    WriteSteps(m, r, v.steps, v.trigger, publish)

\* The second write of a save or a restore; one that publishes goes on to it.
followingColumnsKept(m) == rules[managers[m].rule].trigger    \* mutant: a save that forgets the trigger
followingColumnsUnset(m) == None    \* mutant: a save that blanks the trigger
followingColumns(m) == LET q == managers[m] IN
    IF q.trigger # None THEN q.trigger ELSE rules[q.rule].trigger
WriteColumns(m) == LET q == managers[m] IN
    /\ q.pc = "columns" /\ Exists(q.rule)
    /\ rules' = [rules EXCEPT ![q.rule].trigger = followingColumns(m)]
    /\ managers' = [managers EXCEPT ![m] =
            IF q.publish THEN [NoRequest EXCEPT !.pc = "publish", !.rule = q.rule] ELSE NoRequest]
    /\ UNCHANGED <<clock, versions, tasks, firings, ticks, counts, seen, meant, torn, raced, overtaken>>

\* publish reads the rule, whole, before its transaction, and refuses a canvas
\* that nothing starts.  What it reads of a mixed draft is excused.
ReadRule(m, r) ==
    /\ managers' = [managers EXCEPT ![m] =
            IF rules[r].steps = None THEN NoRequest
            ELSE [NoRequest EXCEPT !.pc = "read", !.rule = r, !.read = rules[r].published,
                                   !.steps = rules[r].steps, !.trigger = rules[r].trigger]]
    /\ meant' = IF r \in torn \/ HalfWritten(m, r)
                THEN Intending(r, rules[r].steps, rules[r].trigger) ELSE meant
    /\ raced' = IF HalfPublished(m, r) THEN raced \cup {r} ELSE raced
    /\ UNCHANGED <<clock, rules, versions, tasks, firings, ticks, moves, faults, torn, overtaken, seen>>

Publish(m, r) == Ask(m, r) /\ ReadRule(m, r)
PublishRestored(m) == LET r == managers[m].rule IN
    /\ managers[m].pc = "publish" /\ Exists(r)
    /\ ReadRule(m, r) /\ UNCHANGED requests

\* The draft is what is running, as far as publish read.
unchanged(m) == LET q == managers[m] IN
    q.read # None /\ q.read.steps = q.steps /\ q.read.trigger = q.trigger
latestVersion(r) ==
    IF versions[r] = {} THEN 0
    ELSE (CHOOSE v \in versions[r] : \A w \in versions[r] : w.number <= v.number).number

\* In the transaction: the next number, or none when the draft is running.
NextNumber(m) == LET q == managers[m] IN
    /\ q.pc = "read"
    /\ managers' = [managers EXCEPT ![m].pc = "number",
            ![m].number = IF unchanged(m) THEN q.read.number ELSE latestVersion(q.rule) + 1]
    /\ UNCHANGED <<clock, rules, versions, tasks, firings, ticks, counts, seen, meant, torn, raced,
                   overtaken>>

\* UNIQUE (ruleId, version): the insert fails, and with it the publish.
numberTakenNever(r, n) == FALSE    \* mutant: no unique key
numberTaken(r, n) == \E v \in versions[r] : v.number = n

CommitQuietly(m) ==    \* mutant: what is running already is not published again, only resumed
    LET q == managers[m]
        r == q.rule
        new == [number |-> q.number, steps |-> q.steps, trigger |-> q.trigger]
    IN
    /\ q.pc = "number" /\ Exists(r)
    /\ managers' = [managers EXCEPT ![m] = NoRequest]
    /\ versions' = [versions EXCEPT ![r] = IF unchanged(m) THEN @ ELSE @ \cup {new}]
    /\ rules' = [rules EXCEPT ![r].status = "ACTIVE",
                              ![r].publishedAt = IF unchanged(m) THEN @ ELSE now,
                              ![r].published = IF unchanged(m) THEN q.read ELSE new]
    /\ UNCHANGED <<clock, tasks, firings, ticks, counts, seen, meant, torn, raced, overtaken>>
\* The version's row and the rule's, or neither.
Commit(m) ==
    LET q == managers[m]
        r == q.rule
        new == [number |-> q.number, steps |-> q.steps, trigger |-> q.trigger]
    IN
    /\ q.pc = "number"
    /\ managers' = [managers EXCEPT ![m] = NoRequest]
    /\ IF ~Exists(r) \/ (~unchanged(m) /\ numberTaken(r, q.number))
       THEN UNCHANGED <<rules, versions, overtaken>>
       ELSE /\ versions' = [versions EXCEPT ![r] = IF unchanged(m) THEN @ ELSE @ \cup {new}]
            /\ rules' = [rules EXCEPT ![r].status = "ACTIVE", ![r].publishedAt = now,
                                      ![r].published = IF unchanged(m) THEN q.read ELSE new]
            /\ overtaken' = IF Removing(m, r) THEN overtaken \cup {r} ELSE overtaken
    /\ UNCHANGED <<clock, tasks, firings, ticks, counts, seen, meant, torn, raced>>

\* setStatus: an overwrite, whatever the status was.
Pause(m, r) ==
    /\ Ask(m, r)
    /\ rules' = [rules EXCEPT ![r].status = "PAUSED"]
    /\ UNCHANGED <<clock, versions, tasks, firings, managers, ticks, moves, faults, seen,
                   meant, torn, raced, overtaken>>

\* remove reads the rule: one that was published is to be archived, a draft deleted.
hasHistoryIfLive(r) == rules[r].status = "ACTIVE"    \* mutant: a paused rule passes for a draft
hasHistory(r) == rules[r].publishedAt # None
Remove(m, r) ==
    /\ Ask(m, r)
    /\ managers' = [managers EXCEPT ![m] = [NoRequest EXCEPT
            !.pc = IF hasHistory(r) THEN "archive" ELSE "delete", !.rule = r]]
    /\ UNCHANGED <<clock, rules, versions, tasks, firings, ticks, moves, faults, seen,
                   meant, torn, raced, overtaken>>

Archive(m) == LET r == managers[m].rule IN
    /\ managers[m].pc = "archive" /\ Exists(r)
    /\ rules' = [rules EXCEPT ![r].status = "ARCHIVED"]
    /\ managers' = [managers EXCEPT ![m] = NoRequest]
    /\ UNCHANGED <<clock, versions, tasks, firings, ticks, counts, seen, meant, torn, raced, overtaken>>

\* The row goes, and with it its versions and firings (onDelete: Cascade).
Delete(m) == LET r == managers[m].rule IN
    /\ managers[m].pc = "delete" /\ Exists(r)
    /\ rules' = [rules EXCEPT ![r].status = "GONE"]
    /\ versions' = [versions EXCEPT ![r] = {}]
    /\ firings' = {f \in firings : f.rule # r}
    /\ managers' = [managers EXCEPT ![m] = NoRequest]
    /\ UNCHANGED <<clock, tasks, ticks, counts, seen, meant, torn, raced, overtaken>>

\* A request whose process stops, or whose rule has gone, leaves what it wrote.
RequestEnds(m) == LET q == managers[m] IN
    /\ q.pc # "idle"
    /\ \/ /\ q.pc \in {"columns", "publish", "archive", "delete"} /\ ~Exists(q.rule) /\ UNCHANGED faults
       \/ faults < MaxFaults /\ faults' = faults + 1
    /\ managers' = [managers EXCEPT ![m] = NoRequest]
    /\ torn' = IF q.pc = "columns" THEN torn \cup {q.rule} ELSE torn
    /\ UNCHANGED <<clock, rules, versions, tasks, firings, ticks, requests, moves, seen, meant, raced,
                   overtaken>>

-----------------------------------------------------------------------------
(* Time passes; tasks are closed and moved.                                *)

Running(r, kind) == rules[r].status = "ACTIVE" /\ rules[r].published # None
                    /\ Kind[rules[r].published.trigger] = kind

Advance ==
    /\ now < MaxTime
    /\ now' = now + 1
    /\ alive' = alive \cup {<<r, rules[r].published.trigger, now'>> : r \in
            {r \in Rules : Running(r, "schedule") /\ now' \in Occurs[rules[r].published.trigger]}}
    /\ UNCHANGED <<rules, tasks, firings, ticks, counts, seen, edits>>

Close(t) ==
    /\ moves < MaxMoves /\ tasks[t].open
    /\ moves' = moves + 1
    /\ tasks' = [tasks EXCEPT ![t].open = FALSE]
    /\ UNCHANGED <<clock, rules, firings, ticks, requests, faults, seen, edits>>

MoveDate(t) == \E d \in Moments :
    /\ moves < MaxMoves /\ d # tasks[t].date
    /\ moves' = moves + 1
    /\ tasks' = [tasks EXCEPT ![t].date = d]
    /\ UNCHANGED <<clock, rules, firings, ticks, requests, faults, seen, edits>>

-----------------------------------------------------------------------------
(* The tick.                                                               *)

\* The moment a rule's schedule last ran, or the moment the rule went live.
since(r) == IF rules[r].cursor # None THEN rules[r].cursor ELSE rules[r].publishedAt
due(r, at) == latestOccurrence(rules[r].published.trigger, at)

\* The rules the tick's first query returns that owe a run, as read then.
owed(at) == {[rule |-> r, config |-> rules[r].published.trigger, moment |-> due(r, at),
              live |-> rules[r].publishedAt, cursor |-> rules[r].cursor]
             : r \in {r \in Rules : /\ Running(r, "schedule")
                                    /\ due(r, at) # None /\ since(r) # None
                                    /\ due(r, at) > since(r)}}

StartTick(k) ==
    /\ ticks[k].pc = "idle"
    /\ ticks' = [ticks EXCEPT ![k] =
            [NoTick EXCEPT !.pc = "schedules", !.at = now, !.todo = owed(now)]]
    /\ UNCHANGED <<clock, rules, tasks, firings, counts, seen, edits>>

\* updateMany where the cursor is null or behind: the rule is there still, and
\* nobody else has moved it this far.
mayClaimAgain(o) == rules[o.rule].cursor = None \/ rules[o.rule].cursor <= o.moment    \* mutant: lte for lt
mayClaimBehind(o) == rules[o.rule].cursor # None /\ rules[o.rule].cursor < o.moment    \* mutant: null is not less
mayClaim(o) == /\ Exists(o.rule)
               /\ rules[o.rule].cursor = None \/ rules[o.rule].cursor < o.moment

inTime(k, o) == ticks[k].at - o.moment <= Grace

\* The cursor moves first; what was missed by more than the grace period is passed over.
ClaimSchedule(k) == \E o \in ticks[k].todo :
    /\ ticks[k].pc = "schedules"
    /\ IF ~mayClaim(o)
       THEN /\ ticks' = [ticks EXCEPT ![k].todo = @ \ {o}]
            /\ UNCHANGED <<rules, strays>>
       ELSE /\ rules' = [rules EXCEPT ![o.rule].cursor = o.moment]
            /\ ticks' = IF inTime(k, o)
                        THEN [ticks EXCEPT ![k].pc = "scope", ![k].next = o,
                                           ![k].todo = @ \ {o}]
                        ELSE [ticks EXCEPT ![k].todo = @ \ {o}]
            /\ strays' = IF inTime(k, o) /\ <<o.rule, o.config, o.moment>> \notin alive
                         THEN strays \cup {o} ELSE strays
    /\ UNCHANGED <<clock, tasks, firings, counts, fired, again, claimed, lost, edits>>

\* Which tasks the run is about: one event each, or one about the project.
inScope(c) == IF c \in WholeProject THEN {None} ELSE {t \in Tasks : tasks[t].open}
scopeOf(o) == {[kind |-> "schedule", rule |-> o.rule, moment |-> o.moment, task |-> t]
               : t \in inScope(o.config)}
ReadScope(k) == LET all == scopeOf(ticks[k].next) IN
    /\ ticks[k].pc = "scope"
    /\ ticks' = [ticks EXCEPT ![k].left = all, ![k].next = None,
                              ![k].pc = IF all = {} THEN "schedules" ELSE "run"]
    /\ claimed' = claimed \cup all
    /\ UNCHANGED <<clock, rules, tasks, firings, counts, fired, again, lost, strays, edits>>

\* publish, one event after another.  An add that fails is logged and forgotten.
Say(k, f) ==
    \/ /\ fired' = fired \cup {f}
       /\ again' = IF f \in fired THEN again \cup {f} ELSE again
       /\ UNCHANGED <<faults, lost>>
    \/ /\ faults < MaxFaults /\ faults' = faults + 1
       /\ lost' = lost \cup {f}
       /\ UNCHANGED <<fired, again>>

RunScheduled(k) == \E f \in ticks[k].left :
    /\ ticks[k].pc = "run"
    /\ Say(k, f)
    /\ ticks' = [ticks EXCEPT ![k].left = @ \ {f},
                              ![k].pc = IF ticks[k].left = {f} THEN "schedules" ELSE "run"]
    /\ UNCHANGED <<clock, rules, tasks, firings, requests, moves, claimed, strays, edits>>

\* Schedules are through: the tick reads the rules with a date trigger.
StartDates(k) ==
    /\ ticks[k].pc = "schedules" /\ ticks[k].todo = {}
    /\ ticks' = [ticks EXCEPT ![k].pc = "dates",
            ![k].todo = {[rule |-> r, config |-> rules[r].published.trigger, moment |-> 0,
                          live |-> rules[r].publishedAt, cursor |-> rules[r].cursor]
                         : r \in {r \in Rules : Running(r, "date")}}]
    /\ UNCHANGED <<clock, rules, tasks, firings, counts, seen, edits>>

\* The open tasks whose window is open, less those announced already.
dueDates(k, o) ==
    {[kind |-> "date", rule |-> o.rule, moment |-> opensAt(o.config, tasks[t].date), task |-> t]
     : t \in {t \in Tasks : tasks[t].open
                            /\ dateTriggerIsDue(o.config, tasks[t].date, ticks[k].at, o.live)}}

LookAtDates(k) == \E o \in ticks[k].todo :
    /\ ticks[k].pc = "dates"
    /\ ticks' = [ticks EXCEPT ![k].todo = @ \ {o}, ![k].left = dueDates(k, o) \ firings,
                              ![k].pc = IF dueDates(k, o) \ firings = {} THEN "dates" ELSE "firing"]
    /\ UNCHANGED <<clock, rules, tasks, firings, counts, seen, edits>>

\* The row is created first; its unique key turns away the tick that comes
\* second.  Without its rule the row cannot be, and the tick is over.
alreadyFired(f) == f \in firings
CreateFiring(k) == \E f \in ticks[k].left :
    /\ ticks[k].pc = "firing"
    /\ \/ /\ Exists(f.rule) /\ ~alreadyFired(f)
          /\ firings' = firings \cup {f} /\ claimed' = claimed \cup {f}
          /\ ticks' = [ticks EXCEPT ![k].pc = "announce", ![k].next = f, ![k].left = @ \ {f}]
       \/ /\ Exists(f.rule) /\ alreadyFired(f)
          /\ ticks' = [ticks EXCEPT ![k].left = @ \ {f},
                                    ![k].pc = IF ticks[k].left = {f} THEN "dates" ELSE "firing"]
          /\ UNCHANGED <<firings, claimed>>
       \/ /\ ~Exists(f.rule)
          /\ ticks' = [ticks EXCEPT ![k] = NoTick]
          /\ UNCHANGED <<firings, claimed>>
    /\ UNCHANGED <<clock, rules, tasks, counts, fired, again, lost, strays, edits>>

AnnounceIfOpen(k) ==    \* mutant: the task is looked at again, after the row was made
    /\ ticks[k].pc = "announce"
    /\ IF tasks[ticks[k].next.task].open THEN Say(k, ticks[k].next)
       ELSE UNCHANGED <<fired, again, faults, lost>>
    /\ ticks' = [ticks EXCEPT ![k].next = None,
                              ![k].pc = IF ticks[k].left = {} THEN "dates" ELSE "firing"]
    /\ UNCHANGED <<clock, rules, tasks, firings, requests, moves, claimed, strays, edits>>
Announce(k) ==
    /\ ticks[k].pc = "announce"
    /\ Say(k, ticks[k].next)
    /\ ticks' = [ticks EXCEPT ![k].next = None,
                              ![k].pc = IF ticks[k].left = {} THEN "dates" ELSE "firing"]
    /\ UNCHANGED <<clock, rules, tasks, firings, requests, moves, claimed, strays, edits>>

EndTick(k) ==
    /\ ticks[k].pc = "dates" /\ ticks[k].todo = {}
    /\ ticks' = [ticks EXCEPT ![k] = NoTick]
    /\ UNCHANGED <<clock, rules, tasks, firings, counts, seen, edits>>

\* The process stops: what the tick had claimed and not yet said is not said.
owing(k) ==
    CASE ticks[k].pc = "run" -> ticks[k].left
      [] ticks[k].pc = "announce" -> {ticks[k].next}
      [] OTHER -> {}
TickDies(k) ==
    /\ faults < MaxFaults /\ faults' = faults + 1
    /\ ticks[k].pc # "idle"
    /\ ticks' = [ticks EXCEPT ![k] = NoTick]
    /\ lost' = lost \cup owing(k)
    /\ UNCHANGED <<clock, rules, tasks, firings, requests, moves, fired, again, claimed, strays, edits>>

-----------------------------------------------------------------------------
Tick(k) ==
    \/ StartTick(k) \/ ClaimSchedule(k) \/ ReadScope(k) \/ RunScheduled(k)
    \/ StartDates(k) \/ LookAtDates(k) \/ CreateFiring(k) \/ Announce(k) \/ EndTick(k)
Manage(m) ==
    \/ \E r \in Rules : Save(m, r) \/ SaveColumns(m, r) \/ Revert(m, r) \/ Publish(m, r)
                        \/ Pause(m, r) \/ Remove(m, r)
    \/ WriteColumns(m) \/ PublishRestored(m) \/ NextNumber(m) \/ Commit(m)
    \/ Archive(m) \/ Delete(m) \/ RequestEnds(m)

Next ==
    \/ Advance
    \/ \E t \in Tasks : Close(t) \/ MoveDate(t)
    \/ \E m \in Managers : Manage(m)
    \/ \E k \in Ticks : Tick(k) \/ TickDies(k)

Spec == Init /\ [][Next]_vars

\* The maintenance queue repeats the tick every minute, and one that has begun
\* goes on.  Time and people get no fairness.
FairSpec == Spec /\ \A k \in Ticks : WF_vars(Tick(k))

-----------------------------------------------------------------------------
(* What is checked.                                                        *)

Claim == [rule : Rules, config : Configs, moment : Moments, live : Moment, cursor : Moment]
TypeOK ==
    /\ now \in Moments /\ rules \in [Rules -> Rule]
    /\ versions \in [Rules -> SUBSET Version]
    /\ tasks \in [Tasks -> [open : BOOLEAN, date : Moments]]
    /\ firings \subseteq Firing
    /\ managers \in [Managers ->
          [pc : {"idle", "columns", "publish", "read", "number", "archive", "delete"},
           rule : Rules \cup {None},
           read : Version \cup {None}, steps : Configs \cup {None},
           trigger : Configs \cup {None}, number : Nat, publish : BOOLEAN]]
    /\ ticks \in [Ticks ->
          [pc : {"idle", "schedules", "scope", "run", "dates", "firing", "announce"},
           at : Moments, todo : SUBSET Claim, next : Claim \cup Firing \cup {None},
           left : SUBSET Firing]]
    /\ {requests, moves, faults} \subseteq Nat
    /\ fired \cup again \cup claimed \cup lost \subseteq Firing
    /\ alive \subseteq Rules \X Configs \X Moments /\ strays \subseteq Claim
    /\ meant \in [Rules -> SUBSET (Configs \X Configs)]
    /\ torn \cup raced \cup overtaken \subseteq Rules

\* However ticks overlap, stop or lag, and whatever is published meanwhile, no
\* schedule's moment and no task's date is announced twice for a rule.
FiresOnce == again = {}

\* What a tick has claimed is said, unless its process stopped or the add
\* failed: nothing else comes between the claim and the event.
ClaimedIsSaid == \A f \in claimed :
    f \in fired \cup lost \/ \E k \in Ticks : f \in owing(k)

\* A version's steps and trigger are what some one request set out to leave: the
\* canvas with its own trigger node's columns, with the columns it named, or as it
\* stood, or an older version whole.  (What publish reads of a draft is excused if
\* two requests were mixed in it, or one was between its two writes or died there;
\* the next save of a canvas puts that right.)
VersionsWhole == \A r \in Rules : \A v \in versions[r] : <<v.steps, v.trigger>> \in meant[r]

\* Two publishes never make two versions of one number, and what runs is the
\* newest version, unless two publishes of the rule overlapped.
NewestRuns == \A r \in Rules :
    /\ \A v, w \in versions[r] : v.number = w.number => v = w
    /\ r \notin raced /\ rules[r].published # None =>
           \A v \in versions[r] : v.number <= rules[r].published.number

\* The record of what ran only grows, and starts at one with no number left out:
\* removing a rule deletes only what was never published, unless a publish came
\* after the removal had read it for a draft.
HistoryKept == [][\A r \in Rules :
    /\ \/ versions[r] \subseteq versions'[r]
       \/ r \in overtaken /\ rules'[r].status = "GONE"
    /\ \A v \in versions'[r] : \A n \in 1 .. v.number :
           \E w \in versions'[r] : w.number = n]_vars

\* A moment that comes while its rule is live is run or passed over in the end,
\* as long as the rule stays live with that schedule.
Due(r) == Running(r, "schedule") /\ due(r, now) # None /\ due(r, now) > rules[r].publishedAt
SchedulesHeard == \A r \in Rules :
    Due(r) ~> (~Due(r) \/ (rules[r].cursor # None /\ rules[r].cursor >= due(r, now)))

\* What a tick runs in time was a moment of a rule live on that schedule when it
\* came, however late the tick is and whatever was paused and published since it
\* looked.  The one exception is where the cursor stands in for publishedAt: a rule
\* that has run before, published again since the moment.
RunWasLive == \A o \in strays : o.cursor # None /\ o.live >= o.moment
=============================================================================
