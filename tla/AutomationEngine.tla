-------------------------- MODULE AutomationEngine --------------------------
(***************************************************************************)
(* The automation engine: domain events on a queue, workers that run the   *)
(* rules listening for them, the runs recorded in the database, and the    *)
(* clock that resumes a run which waited at a Wait step.                   *)
(*                                                                         *)
(* A worker takes a queue job, reads the rules for its event, and for each *)
(* rule either makes a run (begin, plan, perform, scheduleDelays, finish)  *)
(* or replays the one an earlier attempt made.  What the runs raised is    *)
(* published when the rules are through.  A worker may stop between any    *)
(* two of its writes; the queue then hands the job out again.              *)
(*                                                                         *)
(* External: BullMQ's job keeping (held ids, attempts, stalls), modelled   *)
(* from how the publisher and the processor use it.  Left out: what a step *)
(* writes besides completing a task, the tree shape of a plan, tickets,    *)
(* webhooks and e-mails (they leave by the same door as events).           *)
(***************************************************************************)
EXTENDS Integers, Sequences, FiniteSets

CONSTANTS
    Workers,        \* concurrent job slots of the automation processors
    Rules, Age,     \* the project's rules, and their order by creation
    Versions,       \* published versions: RuleOf, Listens, Steps of each
    RuleOf, Listens, Steps,
    Conditional,    \* the versions with a condition, which may not hold
    First,          \* the version each rule is live with at the start
    NoChaining,     \* the rules with allowChaining off
    Nodes, Kind,    \* steps of rules, and what each does
    Fallible,       \* the nodes whose action may fail
    Tasks, Parent,  \* tasks, and the parent of a subtask (or None)
    Blocks,         \* pairs <<blocking task, blocked task>>
    Completable,    \* the tasks people complete
    Changeable,     \* the tasks people change otherwise
    Switchable,     \* the versions people publish, and whose rules they pause
    MaxEdits,       \* bound: how many times people edit tasks
    MaxSwitches,    \* bound: how many times people publish or pause rules
    MaxDepth,       \* MAX_AUTOMATION_DEPTH
    PerRun,         \* MAX_ACTIONS_PER_EXECUTION
    PerChain,       \* MAX_ACTIONS_PER_CHAIN
    Attempts,       \* attempts of a queue job
    MaxStalls,      \* how often the queue gives a stalled job another worker
    Faults,         \* the kinds of fault that may happen
    MaxFaults,      \* bound: how many of them
    None

\* "changed" stands for the change of one watched field (TASK_PRIORITY_CHANGED and
\* its like).  The TASK_UPDATED that a write raises beside it would be one more job
\* with a key of its own, for rules that listen to that.
Triggers == {"changed", "completed", "unblocked"}
Kinds == {"complete", "change", "note", "wait"}
FaultKinds == {"throw", "kill", "stall", "lost add", "expire", "tick dies"}

ASSUME EngineAssumption ==
    /\ IsFiniteSet(Workers) /\ Workers # {}
    /\ Age \in [Rules -> Nat]
    /\ \A r, q \in Rules : Age[r] = Age[q] => r = q
    /\ RuleOf \in [Versions -> Rules]
    /\ Listens \in [Versions -> Triggers]
    /\ Steps \in [Versions -> Seq(Nodes)]
    /\ Kind \in [Nodes -> Kinds]
    /\ First \in [Rules -> Versions]
    /\ \A r \in Rules : RuleOf[First[r]] = r
    /\ Parent \in [Tasks -> Tasks \cup {None}]
    /\ Blocks \in SUBSET (Tasks \X Tasks)
    /\ Conditional \subseteq Versions /\ Switchable \subseteq Versions
    /\ NoChaining \subseteq Rules /\ Fallible \subseteq Nodes
    /\ Completable \subseteq Tasks /\ Changeable \subseteq Tasks
    /\ {MaxEdits, MaxSwitches, MaxDepth, PerRun, PerChain, Attempts, MaxStalls, MaxFaults} \subseteq Nat
    /\ Faults \subseteq FaultKinds
    /\ None \notin Rules \cup Versions \cup Nodes \cup Tasks

\* A node is one row under its own id, so a Wait step stands once in a version.
ASSUME WaitStandsOnce ==
    \A v \in Versions : \A i, j \in DOMAIN Steps[v] :
        Steps[v][i] = Steps[v][j] /\ Kind[Steps[v][i]] = "wait" => i = j

----------------------------------------------------------------------------
(* Events and their names.  A random id is a fresh number; an id derived   *)
(* from another extends it, so deriving it twice gives the same id.        *)

Ids == Seq(({"fresh", "resume"} \X Nat) \cup ({"rollup", "unblocked"} \X Tasks))
Random(n) == << <<"fresh", n>> >>
Derived(id, purpose) == Append(id, purpose)

Events ==
    [id      : Ids,
     trigger : Triggers,
     task    : Tasks,
     rule    : Rules \cup {None},       \* for this rule only
     from    : Nodes \cup {None},       \* the Wait step a resumption picks up after
     version : Versions \cup {None},    \* the version a resumption finishes on
     depth   : Nat,
     cause   : Rules \cup {None},       \* the rule whose write this announces
     chain   : Ids]

Keys == Ids \X (Nodes \cup {None})
runKey(e) == <<e.id, e.from>>

\* An event nothing came before: it starts its own chain at depth 0.
RootEvent(n, trigger, t) ==
    [id |-> Random(n), trigger |-> trigger, task |-> t, rule |-> None, from |-> None,
     version |-> None, depth |-> 0, cause |-> None, chain |-> Random(n)]

\* Mutant: the hop takes a level off instead of adding one.
followShallower(r, e, n, trigger) ==
    [id |-> Random(n), trigger |-> trigger, task |-> e.task, rule |-> None, from |-> None,
     version |-> None, depth |-> e.depth - 1, cause |-> r, chain |-> e.chain]

\* A change one of rule r's steps made while answering e.
follow(r, e, n, trigger) ==
    [id |-> Random(n), trigger |-> trigger, task |-> e.task, rule |-> None, from |-> None,
     version |-> None, depth |-> e.depth + 1, cause |-> r, chain |-> e.chain]

----------------------------------------------------------------------------
VARIABLES
    completed,      \* the tasks with a completedAt
    active,         \* the rules that are ACTIVE
    published,      \* the version each rule runs
    jobs,           \* the queue: job id -> job, while the queue holds it
    runs,           \* AutomationExecution: <<rule, key>> -> run
    waits,          \* AutomationDelayedRun rows
    workers,        \* what each worker holds in memory
    nextId,         \* the next random id
    edits, switches, faults,    \* counted against the bounds
    acted, again,   \* observation: the steps performed, and those performed again
    sent            \* observation: the keys of events handed to the publisher

db == <<completed, active, published, runs, waits>>
bounds == <<edits, switches, faults>>
seen == <<acted, again, sent>>
vars == <<db, jobs, workers, nextId, bounds, seen>>

Job == [event : Events, state : {"waiting", "active", "done", "failed"},
        fails : Nat, stalls : Nat]
Line == [step : Nat, ok : BOOLEAN, events : SUBSET Events]
Run == [event : Events, ver : Versions \cup {None}, actions : Nat, logs : SUBSET Line,
        status : {"RUNNING", "COMPLETED", "PARTIALLY_FAILED", "FAILED", "SKIPPED"}]
WaitRow == [id : Nat, rule : Rules, node : Nodes, ver : Versions, event : Events,
            status : {"PENDING", "CLAIMED", "DONE", "CANCELLED"}]
PCs == {"idle", "rules", "close", "collect", "plan", "act", "log", "count",
        "refuse", "wait", "finish", "publish"}
Worker == [pc : PCs, event : Events \cup {None}, owns : BOOLEAN,
           left : SUBSET (Rules \X Versions), rule : Rules \cup {None},
           ver : Versions \cup {None}, found : BOOLEAN, todo : SUBSET Nat,
           cut : BOOLEAN, did : Nat, bad : Nat, line : Line \cup {None},
           out : SUBSET Events]
Idle == [pc |-> "idle", event |-> None, owns |-> FALSE, left |-> {}, rule |-> None,
         ver |-> None, found |-> FALSE, todo |-> {}, cut |-> FALSE, did |-> 0,
         bad |-> 0, line |-> None, out |-> {}]

TypeOK ==
    /\ completed \in SUBSET Tasks
    /\ active \in SUBSET Rules
    /\ published \in [Rules -> Versions]
    /\ DOMAIN jobs \subseteq Keys /\ jobs \in [DOMAIN jobs -> Job]
    /\ DOMAIN runs \subseteq Rules \X Keys /\ runs \in [DOMAIN runs -> Run]
    /\ waits \in SUBSET WaitRow
    /\ workers \in [Workers -> Worker]
    /\ nextId \in Nat /\ edits \in Nat /\ switches \in Nat /\ faults \in Nat
    /\ acted \in SUBSET (Rules \X Keys \X Nat)
    /\ again \in SUBSET (Rules \X Keys \X Nat)
    /\ sent \in SUBSET Keys

Init ==
    /\ completed = {}
    /\ active = Rules
    /\ published = First
    /\ jobs = << >>
    /\ runs = << >>
    /\ waits = {}
    /\ workers = [w \in Workers |-> Idle]
    /\ nextId = 0 /\ edits = 0 /\ switches = 0 /\ faults = 0
    /\ acted = {} /\ again = {} /\ sent = {}

Put(f, x, y) == [z \in DOMAIN f \cup {x} |-> IF z = x THEN y ELSE f[z]]

\* queue.add with a job id: dropped while the queue still holds that id.
Enqueue(e) ==
    /\ jobs' = IF runKey(e) \in DOMAIN jobs THEN jobs
               ELSE Put(jobs, runKey(e),
                        [event |-> e, state |-> "waiting", fails |-> 0, stalls |-> 0])
    /\ sent' = sent \cup {runKey(e)}

----------------------------------------------------------------------------
(* People.                                                                 *)

\* Someone completes a task; the request announces it once the write landed.
Complete(t) ==
    /\ edits < MaxEdits
    /\ t \in Completable \ completed
    /\ completed' = completed \cup {t}
    /\ Enqueue(RootEvent(nextId, "completed", t))
    /\ nextId' = nextId + 1
    /\ edits' = edits + 1
    /\ UNCHANGED <<active, published, runs, waits, workers, switches, faults, acted, again>>

\* Someone changes something else about a task.
Change(t) ==
    /\ edits < MaxEdits
    /\ t \in Changeable
    /\ Enqueue(RootEvent(nextId, "changed", t))
    /\ nextId' = nextId + 1
    /\ edits' = edits + 1
    /\ UNCHANGED <<db, workers, switches, faults, acted, again>>

\* A manager publishes a version of a rule, which makes the rule live.
Publish(v) ==
    /\ switches < MaxSwitches
    /\ v \in Switchable
    /\ \/ published[RuleOf[v]] # v
       \/ RuleOf[v] \notin active
    /\ published' = [published EXCEPT ![RuleOf[v]] = v]
    /\ active' = active \cup {RuleOf[v]}
    /\ switches' = switches + 1
    /\ UNCHANGED <<completed, jobs, runs, waits, workers, nextId, edits, faults, seen>>

Pause(r) ==
    /\ switches < MaxSwitches
    /\ r \in active /\ r \in {RuleOf[v] : v \in Switchable}
    /\ active' = active \ {r}
    /\ switches' = switches + 1
    /\ UNCHANGED <<completed, published, jobs, runs, waits, workers, nextId, edits, faults, seen>>

----------------------------------------------------------------------------
(* A worker takes a job: AutomationRunnerService.handle, its reads.        *)

Resuming(e) == e.from # None /\ e.rule # None

\* Mutant: a resumed run takes whatever is published by now.
versionForNow(e, r) == published[r]

\* The version rule r answers e with: a resumed run keeps the one it started on.
versionFor(e, r) == IF Resuming(e) /\ e.version # None THEN e.version ELSE published[r]

runnableRules(e) ==
    {r \in active :
        /\ e.rule \in {None, r}
        /\ Resuming(e) \/ Listens[published[r]] = e.trigger
        /\ RuleOf[versionFor(e, r)] = r}

\* The rules that go on to answer e, past BLOCK_SELF_RETRIGGER and allowChaining.
answering(e) ==
    {r \in runnableRules(e) : r # e.cause /\ ~(r \in NoChaining /\ e.depth > 0)}

Load(w, k) ==
    LET e == jobs[k].event IN
    /\ workers[w].pc = "idle"
    /\ jobs[k].state = "waiting"
    /\ e.depth < MaxDepth
    /\ jobs' = [jobs EXCEPT ![k].state = "active"]
    /\ workers' = [workers EXCEPT ![w] =
           [Idle EXCEPT !.pc = "rules", !.event = e, !.owns = TRUE,
                        !.left = {<<r, versionFor(e, r)>> : r \in answering(e)},
                        !.found = e.task \in completed]]
    /\ UNCHANGED <<db, nextId, bounds, seen>>

\* handle's early return: past the depth limit the stop is recorded, once,
\* against some live rule listening for the trigger, and nothing is raised.
StopAtDepth(k) ==
    LET e == jobs[k].event
        listening == {r \in active : Listens[published[r]] = e.trigger} IN
    /\ jobs[k].state = "waiting"
    /\ e.depth >= MaxDepth
    /\ jobs' = [jobs EXCEPT ![k].state = "done"]
    /\ \/ listening = {} /\ runs' = runs
       \/ \E r \in listening :
            runs' = IF <<r, k>> \in DOMAIN runs THEN runs
                    ELSE Put(runs, <<r, k>>, [event |-> e, ver |-> None, actions |-> 0,
                                              logs |-> {}, status |-> "SKIPPED"])
    /\ UNCHANGED <<completed, active, published, waits, workers, nextId, bounds, seen>>

----------------------------------------------------------------------------
(* One rule's run on the event, or the replay of an earlier one.           *)

runOf(w) == <<workers[w].rule, runKey(workers[w].event)>>

\* Mutant: a run found part-way is run again.
madeAndEnded(x) == x \in DOMAIN runs /\ runs[x].status # "RUNNING"

\* The rule has a run for this key already (the unique idempotency key).
made(x) == x \in DOMAIN runs

\* begin: the oldest rule left makes its run, unless (rule, key) has one.
\* The read, the insert and the unique violation that sends a rival back to
\* the row come to this one test of the row.
Begin(w) ==
    /\ workers[w].pc = "rules"
    /\ \E p \in workers[w].left :
        LET e == workers[w].event
            x == <<p[1], runKey(e)>> IN
        /\ \A q \in workers[w].left : Age[p[1]] <= Age[q[1]]
        /\ workers' = [workers EXCEPT
               ![w].left = @ \ {p}, ![w].rule = p[1], ![w].ver = p[2],
               ![w].pc = IF ~made(x) THEN "plan"
                         ELSE IF runs[x].status = "RUNNING" THEN "close" ELSE "collect"]
        /\ runs' = IF made(x) THEN runs
                   ELSE Put(runs, x, [event |-> e, ver |-> p[2], actions |-> 0,
                                      logs |-> {}, status |-> "RUNNING"])
    /\ UNCHANGED <<completed, active, published, jobs, waits, nextId, bounds, seen>>

\* replay, first half: a run read as RUNNING is closed as FAILED.
CloseStopped(w) ==
    /\ workers[w].pc = "close"
    /\ runs' = [runs EXCEPT ![runOf(w)].status = "FAILED"]
    /\ workers' = [workers EXCEPT ![w].pc = "collect"]
    /\ UNCHANGED <<completed, active, published, jobs, waits, nextId, bounds, seen>>

\* Mutant: only a run that completed hands anything back.
followUpsIfComplete(x) ==
    IF runs[x].status = "COMPLETED" THEN UNION {l.events : l \in runs[x].logs} ELSE {}

\* What the finished steps of a run asked to have sent.
followUps(x) == UNION {l.events : l \in runs[x].logs}

\* replay, second half: what its finished steps raised goes out again.
Collect(w) ==
    /\ workers[w].pc = "collect"
    /\ workers' = [workers EXCEPT ![w].pc = "rules",
                                  ![w].out = @ \cup followUps(runOf(w))]
    /\ UNCHANGED <<db, jobs, nextId, bounds, seen>>

----------------------------------------------------------------------------
(* plan, for a rule whose steps are a list: the action steps up to the     *)
(* next Wait step, from the start or from after the Wait resumed at.       *)

pastResume(v, e, i) == e.from = None \/ \E j \in 1..(i - 1) : Steps[v][j] = e.from

segment(v, e) ==
    {i \in DOMAIN Steps[v] :
        /\ pastResume(v, e, i)
        /\ \A j \in 1..i : pastResume(v, e, j) => Kind[Steps[v][j]] # "wait"}

delays(v, e) ==
    {i \in DOMAIN Steps[v] :
        /\ pastResume(v, e, i) /\ Kind[Steps[v][i]] = "wait"
        /\ \A j \in 1..(i - 1) : pastResume(v, e, j) => Kind[Steps[v][j]] # "wait"}

\* The Wait step resumed at is one of the version's steps.
stillThere(v, e) == e.from = None \/ \E i \in DOMAIN Steps[v] : Steps[v][i] = e.from

\* A condition does not hold, or the Wait step is gone: SKIPPED.  A condition that is
\* put to the AI and cannot be asked: FAILED.
Skip(w) ==
    /\ workers[w].pc = "plan"
    /\ \E status \in {"SKIPPED", "FAILED"} :
        /\ \/ workers[w].ver \in Conditional
           \/ status = "SKIPPED" /\ ~stillThere(workers[w].ver, workers[w].event)
        /\ runs' = [runs EXCEPT ![runOf(w)].status = status]
    /\ workers' = [workers EXCEPT ![w].pc = "rules"]
    /\ UNCHANGED <<completed, active, published, jobs, waits, nextId, bounds, seen>>

\* The action steps that runs have recorded, each by its run and number there.
recorded(ys) == UNION {{y} \X (1..runs[y].actions) : y \in ys}

\* Mutant: only the other runs of the same event are counted.
spentOnEvent(x) == Cardinality(recorded({y \in DOMAIN runs : y[2] = x[2] /\ y # x}))

\* The action steps the chain's other runs have recorded, over all of them.
spent(x) ==
    Cardinality(recorded({y \in DOMAIN runs :
        runs[y].event.chain = runs[x].event.chain /\ y # x}))

\* allowance: how many steps this run may perform.
allowance(x) ==
    LET left == IF spent(x) >= PerChain THEN 0 ELSE PerChain - spent(x) IN
    IF left < PerRun THEN left ELSE PerRun

\* A plan with no action step goes straight to its Wait, or ends.
afterSteps(v, e) == IF delays(v, e) = {} THEN "finish" ELSE "wait"

\* The plan is worked out and perform starts: the allowance is read once, and
\* the steps past it are cut.
Plan(w) ==
    LET v == workers[w].ver  e == workers[w].event
        seg == segment(v, e)
        do == {i \in seg : Cardinality({j \in seg : j < i}) < allowance(runOf(w))} IN
    /\ workers[w].pc = "plan"
    /\ stillThere(v, e)
    /\ workers' = [workers EXCEPT
           ![w].todo = do, ![w].cut = (do # seg), ![w].did = 0, ![w].bad = 0,
           ![w].pc = IF seg = {} THEN afterSteps(v, e)
                     ELSE IF do = {} THEN "count" ELSE "act"]
    /\ UNCHANGED <<db, jobs, nextId, bounds, seen>>

\* Mutant: the steps run from the last to the first.
isLastStep(todo, i) == \A j \in todo : j <= i

isNextStep(todo, i) == \A j \in todo : i <= j

\* The events a step's write amounts to.  A completion is new to this run if the
\* task was open in the copy the job holds; a "change" always differs from what
\* was there; a step that throws raises nothing.
raisedBy(me, n, ok, completes) ==
    CASE ok /\ completes /\ ~me.found -> {follow(me.rule, me.event, nextId, "completed")}
      [] ok /\ Kind[n] = "change" -> {follow(me.rule, me.event, nextId, "changed")}
      [] OTHER -> {}

\* runAction: one step writes, and the write says which events it amounts to.  A
\* step that throws counts as failed, even after its write.
ActWith(w, i, ok, wrote) ==
    LET me == workers[w]
        n == Steps[me.ver][i]
        x == <<me.rule, runKey(me.event), i>>
        completes == wrote /\ Kind[n] = "complete"
        raised == raisedBy(me, n, ok, completes) IN
    /\ isNextStep(me.todo, i)
    /\ ok => wrote
    /\ n \notin Fallible => ok
    /\ completed' = IF completes THEN completed \cup {me.event.task} ELSE completed
    /\ workers' = [workers EXCEPT
           ![w].pc = "log", ![w].todo = @ \ {i}, ![w].found = @ \/ completes,
           ![w].line = [step |-> i, ok |-> ok, events |-> raised]]
    /\ nextId' = IF raised = {} THEN nextId ELSE nextId + 1
    /\ acted' = acted \cup {x}
    /\ again' = again \cup ({x} \cap acted)

Act(w) ==
    /\ workers[w].pc = "act"
    /\ \E i \in workers[w].todo, ok, wrote \in BOOLEAN : ActWith(w, i, ok, wrote)
    /\ UNCHANGED <<active, published, jobs, runs, waits, bounds, sent>>

\* The step's log row, with what it asked to have sent.
Log(w) ==
    LET me == workers[w] IN
    /\ me.pc = "log"
    /\ runs' = [runs EXCEPT ![runOf(w)].logs = @ \cup {me.line}]
    /\ workers' = [workers EXCEPT
           ![w].pc = IF me.todo = {} THEN "count" ELSE "act",
           ![w].did = @ + 1, ![w].bad = IF me.line.ok THEN @ ELSE @ + 1,
           ![w].out = @ \cup me.line.events, ![w].line = None]
    /\ UNCHANGED <<completed, active, published, jobs, waits, nextId, bounds, seen>>

\* perform ends by recording how many steps it performed.
Count(w) ==
    LET me == workers[w] IN
    /\ me.pc = "count"
    /\ runs' = [runs EXCEPT ![runOf(w)].actions = me.did]
    /\ workers' = [workers EXCEPT ![w].pc =
           IF me.did = 0 /\ me.cut THEN "refuse" ELSE afterSteps(me.ver, me.event)]
    /\ UNCHANGED <<completed, active, published, jobs, waits, nextId, bounds, seen>>

\* stoppedByChain: a run whose every step was cut is closed as SKIPPED.
Refuse(w) ==
    /\ workers[w].pc = "refuse"
    /\ runs' = [runs EXCEPT ![runOf(w)].status = "SKIPPED"]
    /\ workers' = [workers EXCEPT ![w].pc = "rules"]
    /\ UNCHANGED <<completed, active, published, jobs, waits, nextId, bounds, seen>>

\* scheduleDelays: a row for the Wait step reached, holding the event without
\* what made this run a resumption.
ScheduleDelays(w) ==
    LET me == workers[w]  ds == delays(me.ver, me.event) IN
    /\ me.pc = "wait"
    /\ waits' = waits \cup
           {[id |-> nextId, rule |-> me.rule, node |-> Steps[me.ver][i], ver |-> me.ver,
             event |-> [me.event EXCEPT !.from = None], status |-> "PENDING"] : i \in ds}
    /\ nextId' = nextId + 1
    /\ workers' = [workers EXCEPT ![w].pc = "finish"]
    /\ UNCHANGED <<completed, active, published, jobs, runs, bounds, seen>>

\* Mutant: the steps a cap cut off are forgotten.
runStatusOfSteps(did, bad, cut) ==
    IF did > 0 /\ bad = did THEN "FAILED"
    ELSE IF bad > 0 THEN "PARTIALLY_FAILED" ELSE "COMPLETED"

runStatus(did, bad, cut) ==
    IF did > 0 /\ bad = did THEN "FAILED"
    ELSE IF bad > 0 \/ cut THEN "PARTIALLY_FAILED" ELSE "COMPLETED"

Finish(w) ==
    LET me == workers[w] IN
    /\ me.pc = "finish"
    /\ runs' = [runs EXCEPT ![runOf(w)].status = runStatus(me.did, me.bad, me.cut)]
    /\ workers' = [workers EXCEPT ![w].pc = "rules"]
    /\ UNCHANGED <<completed, active, published, jobs, waits, nextId, bounds, seen>>

----------------------------------------------------------------------------
(* The rules are through: what a completion means to other tasks, and then *)
(* the publishing.                                                         *)

Subtasks(p) == {t \in Tasks : Parent[t] = p}

\* Mutant: the parent's event keeps the subtask's id.
subtaskRollupSameId(e) ==
    {[e EXCEPT !.task = p] :
        p \in {q \in Tasks \ completed : Parent[e.task] = q /\ Subtasks(q) \subseteq completed}}

\* The parent's event, when its last open subtask is complete and it is not.
subtaskRollup(e) ==
    {[e EXCEPT !.id = Derived(e.id, <<"rollup", p>>), !.task = p] :
        p \in {q \in Tasks \ completed : Parent[e.task] = q /\ Subtasks(q) \subseteq completed}}

\* "No longer blocked", for each open task whose blockers are all complete.
unblockedDependents(e) ==
    {[e EXCEPT !.id = Derived(e.id, <<"unblocked", t>>), !.task = t,
               !.trigger = "unblocked", !.rule = None] :
        t \in {u \in Tasks \ completed :
                 /\ e.task \in completed
                 /\ <<e.task, u>> \in Blocks
                 /\ \A b \in Tasks : <<b, u>> \in Blocks => b \in completed}}

RulesThrough(w) ==
    LET e == workers[w].event IN
    /\ workers[w].pc = "rules" /\ workers[w].left = {}
    /\ workers' = [workers EXCEPT
           ![w].pc = "publish",
           ![w].out = @ \cup IF e.trigger = "completed"
                             THEN subtaskRollup(e) \cup unblockedDependents(e) ELSE {}]
    /\ UNCHANGED <<db, jobs, nextId, bounds, seen>>

PublishNext(w) ==
    /\ workers[w].pc = "publish"
    /\ \E e \in workers[w].out :
        /\ Enqueue(e)
        /\ workers' = [workers EXCEPT ![w].out = @ \ {e}]
    /\ UNCHANGED <<db, nextId, bounds, acted, again>>

\* The job is done, if it is still this worker's.
Settle(w) ==
    /\ workers[w].pc = "publish" /\ workers[w].out = {}
    /\ jobs' = IF workers[w].owns
               THEN [jobs EXCEPT ![runKey(workers[w].event)].state = "done"] ELSE jobs
    /\ workers' = [workers EXCEPT ![w] = Idle]
    /\ UNCHANGED <<db, nextId, bounds, seen>>

----------------------------------------------------------------------------
(* The clock's part: AutomationClockService.runDelays.                     *)

\* Mutant: the two outcomes of a claim are swapped.
claimedAsSwapped(d) == IF d.rule \in active THEN "CANCELLED" ELSE "CLAIMED"

claimedAs(d) == IF d.rule \in active THEN "CLAIMED" ELSE "CANCELLED"

\* A row that came due is claimed with a compare-and-set: done if the rule is
\* live, cancelled if it is not.  The table says DONE from here on; "CLAIMED" is
\* such a row whose event is still to be published.  The tick's reading of the
\* rule's status is taken together with the claim.
ClaimWait(d) ==
    /\ d.status = "PENDING"
    /\ waits' = (waits \ {d}) \cup
           {[d EXCEPT !.status = claimedAs(d)]}
    /\ UNCHANGED <<completed, active, published, jobs, runs, workers, nextId, bounds, seen>>

resumption(d) ==
    [d.event EXCEPT !.id = Derived(Random(d.id), <<"resume", 0>>), !.rule = d.rule,
                    !.from = d.node, !.version = d.ver]

\* The tick that claimed the row publishes the event again, past the Wait.
ResumeWait(d) ==
    /\ d.status = "CLAIMED"
    /\ Enqueue(resumption(d))
    /\ waits' = (waits \ {d}) \cup {[d EXCEPT !.status = "DONE"]}
    /\ UNCHANGED <<completed, active, published, runs, workers, nextId, bounds, acted, again>>

----------------------------------------------------------------------------
(* What can go wrong.                                                      *)

Fault(kind) ==
    /\ kind \in Faults /\ faults < MaxFaults
    /\ faults' = faults + 1

\* A job that threw uses up an attempt; a stalled one is handed out again, or
\* given up.
retried(job) ==
    [job EXCEPT !.fails = @ + 1, !.state = IF job.fails + 1 >= Attempts THEN "failed" ELSE "waiting"]
redelivered(job) ==
    [job EXCEPT !.stalls = @ + 1, !.state = IF job.stalls >= MaxStalls THEN "failed" ELSE "waiting"]
Retry(k) == jobs' = [jobs EXCEPT ![k] = retried(@)]
Redeliver(k) == jobs' = [jobs EXCEPT ![k] = redelivered(@)]

\* A database or queue call throws: an attempt is used up.
Throw(w) ==
    LET me == workers[w] IN
    /\ Fault("throw")
    /\ me.pc # "idle"
    /\ IF me.owns THEN Retry(runKey(me.event)) ELSE jobs' = jobs
    /\ workers' = [workers EXCEPT ![w] = Idle]
    /\ UNCHANGED <<db, nextId, edits, switches, seen>>

\* The worker dies: the queue finds its job stalled.
Kill(w) ==
    LET me == workers[w] IN
    /\ Fault("kill")
    /\ me.pc # "idle"
    /\ IF me.owns THEN Redeliver(runKey(me.event)) ELSE jobs' = jobs
    /\ workers' = [workers EXCEPT ![w] = Idle]
    /\ UNCHANGED <<db, nextId, edits, switches, seen>>

\* The worker loses its lock on the job and goes on working on it.
Stall(w) ==
    LET me == workers[w] IN
    /\ Fault("stall")
    /\ me.pc # "idle" /\ me.owns
    /\ Redeliver(runKey(me.event))
    /\ workers' = [workers EXCEPT ![w].owns = FALSE]
    /\ UNCHANGED <<db, nextId, edits, switches, seen>>

\* An event could not be enqueued; the publisher logs it and goes on.
LoseAdd(w) ==
    /\ Fault("lost add")
    /\ workers[w].pc = "publish"
    /\ \E e \in workers[w].out :
        /\ workers' = [workers EXCEPT ![w].out = @ \ {e}]
        /\ sent' = sent \cup {runKey(e)}
    /\ UNCHANGED <<db, jobs, nextId, edits, switches, acted, again>>

\* The queue lets go of a settled job, and with it of the job's id.
Expire(k) ==
    /\ Fault("expire")
    /\ jobs[k].state \in {"done", "failed"}
    /\ jobs' = [x \in DOMAIN jobs \ {k} |-> jobs[x]]
    /\ UNCHANGED <<db, workers, nextId, edits, switches, seen>>

\* The tick stops between claiming a row and publishing its event.
TickDies(d) ==
    /\ Fault("tick dies")
    /\ d.status = "CLAIMED"
    /\ waits' = (waits \ {d}) \cup {[d EXCEPT !.status = "DONE"]}
    /\ UNCHANGED <<completed, active, published, jobs, runs, workers, nextId, edits, switches, seen>>

----------------------------------------------------------------------------
Step(w) ==
    \/ Begin(w) \/ CloseStopped(w) \/ Collect(w) \/ Skip(w) \/ Plan(w)
    \/ Act(w) \/ Log(w) \/ Count(w) \/ Refuse(w) \/ ScheduleDelays(w)
    \/ Finish(w) \/ RulesThrough(w) \/ PublishNext(w) \/ Settle(w)

Take == \E k \in DOMAIN jobs : StopAtDepth(k) \/ \E w \in Workers : Load(w, k)

Clock == \E d \in waits : ClaimWait(d) \/ ResumeWait(d)

People ==
    \/ \E t \in Tasks : Complete(t) \/ Change(t)
    \/ \E v \in Versions : Publish(v)
    \/ \E r \in Rules : Pause(r)

Misfortune ==
    \/ \E w \in Workers : Throw(w) \/ Kill(w) \/ Stall(w) \/ LoseAdd(w)
    \/ \E k \in DOMAIN jobs : Expire(k)
    \/ \E d \in waits : TickDies(d)

Next == (\E w \in Workers : Step(w)) \/ Take \/ Clock \/ People \/ Misfortune

Spec == Init /\ [][Next]_vars

\* A worker goes on with its job, the queue hands out what waits, and the
\* clock ticks every minute.  Nothing is assumed of people or of faults.
Fairness == (\A w \in Workers : WF_vars(Step(w))) /\ WF_vars(Take) /\ WF_vars(Clock)

FairSpec == Spec /\ Fairness

----------------------------------------------------------------------------
(* Properties.                                                             *)

\* No step of a rule acts twice on one event, whatever is retried, stalled,
\* published again or forgotten by the queue (begin's idempotency key).
NoStepTwice == again = {}

\* A run reported COMPLETED performed every step of its plan, successfully: a
\* run that a cap cut or a worker left part-way is never called complete.
CompletedDidAll ==
    \A x \in DOMAIN runs : runs[x].status = "COMPLETED" =>
        {l.step : l \in {k \in runs[x].logs : k.ok}} = segment(runs[x].ver, runs[x].event)

\* A run resumed after a Wait finishes on the version the waiting run was made
\* on, and does only what came after: republishing meanwhile changes nothing.
ResumesItsRun ==
    \A d \in waits, x \in DOMAIN runs : x = <<d.rule, runKey(resumption(d))>> =>
        \E y \in DOMAIN runs :
            /\ y[1] = d.rule /\ runs[y].event.id = d.event.id /\ runs[y].ver = runs[x].ver
            /\ \A l \in runs[y].logs, m \in runs[x].logs : l.step < m.step

\* Once a job is done, everything its runs' finished steps raised has been
\* handed to the publisher, by the attempt that raised it or by a replay.
FollowUpsSent ==
    \A k \in DOMAIN jobs, x \in DOMAIN runs :
        jobs[k].state = "done" /\ x[2] = k =>
            \A l \in runs[x].logs : {runKey(e) : e \in l.events} \subseteq sent

\* The steps performed by the rules descended from one event stay within the
\* chain cap, give or take one run for each other worker that is mid-run and
\* one for each worker that stopped before recording its count (allowance).
performedInChain(c) == Cardinality({a \in acted : runs[<<a[1], a[2]>>].event.chain = c})
ChainWithinCap ==
    \A x \in DOMAIN runs : performedInChain(runs[x].event.chain)
                             <= PerChain + PerRun * (Cardinality(Workers) - 1 + faults)

\* Two completions that empty a parent's checklist between them set each rule
\* off on the parent once (people do not reopen tasks in this model).
RollupOnce ==
    \A a, b \in acted :
        LET ra == runs[<<a[1], a[2]>>].event  rb == runs[<<b[1], b[2]>>].event IN
        /\ a[1] = b[1] /\ a[3] = b[3]
        /\ ra.task = rb.task /\ ra.task \notin completed
        /\ ra.trigger = "completed" /\ rb.trigger = "completed"
        => a = b

\* A parent whose last open subtask was completed is heard of, unless it is
\* completed itself.
RollupHeard ==
    \A p \in Tasks :
        (Subtasks(p) # {} /\ Subtasks(p) \subseteq completed)
            ~> (p \in completed \/ \E k \in sent : k[1][Len(k[1])] = <<"rollup", p>>)

\* A run that waits is resumed, and the engine comes to rest: chains end.
WaitsAnswered ==
    <>[](/\ \A w \in Workers : workers[w] = Idle
         /\ \A k \in DOMAIN jobs : jobs[k].state \in {"done", "failed"}
         /\ \A d \in waits : <<d.rule, runKey(resumption(d))>> \in DOMAIN runs)

\* While no worker outlives its lock on a job, the recorded runs are a ledger:
\* each opened once, its steps in order and once each, nothing after it closed.
Ledger == INSTANCE RuleLedger WITH
    opened <- DOMAIN runs,
    closed <- {x \in DOMAIN runs : runs[x].status # "RUNNING"},
    performed <- {<< <<a[1], a[2]>>, a[3] >> : a \in acted}
KeepsLedger == Ledger!Spec

=============================================================================
