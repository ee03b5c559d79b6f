----------------------- MODULE AutomationEngineProofs -----------------------
(* For every set of rules, workers, tasks, limits and faults: the engine   *)
(* keeps its types, no step of a rule acts twice on one event, a run       *)
(* called complete did all of its plan, a resumed run finishes on the      *)
(* version it waited with, and the rules of one chain do no more steps     *)
(* than its cap, give or take.  While no worker outlives its lock on a     *)
(* job, the recorded runs implement RuleLedger; if moreover nobody         *)
(* switches a rule, what a run raised is handed on before its job ends.    *)
EXTENDS AutomationEngine, FiniteSetTheorems, TLAPS

----------------------------------------------------------------------------
(* Typing: what a worker holds depends on where it is.                     *)

\* The places where a worker has a rule in hand, and a run for it.
OnARule == PCs \ {"idle", "rules", "publish"}

Holding(me, keys) ==
    /\ me.pc # "idle" => me.event \in Events
    /\ me.pc \in OnARule =>
         me.rule \in Rules /\ me.ver \in Versions /\ <<me.rule, runKey(me.event)>> \in keys
    /\ me.pc = "log" => me.line \in Line

Typed == TypeOK /\ \A w \in Workers : Holding(workers[w], DOMAIN runs)

\* A worker moved to me, and no run was forgotten: all workers hold what they
\* should if this one does.
LEMMA Moved ==
    ASSUME Typed, NEW w \in Workers, NEW me \in Worker,
           workers' = [workers EXCEPT ![w] = me], DOMAIN runs \subseteq DOMAIN runs',
           Holding(me, DOMAIN runs')
    PROVE  workers' \in [Workers -> Worker] /\ \A v \in Workers : Holding(workers[v], DOMAIN runs)'
<1>1. workers' \in [Workers -> Worker]
  BY DEF Typed, TypeOK
<1>2. workers'[w] = me /\ \A v \in Workers \ {w} : workers'[v] = workers[v]
  BY DEF Typed, TypeOK
<1>3. ASSUME NEW v \in Workers PROVE Holding(workers[v], DOMAIN runs)'
  <2>1. CASE v = w
    BY <1>2, <2>1 DEF Holding
  <2>2. CASE v # w
    <3>1. Holding(workers[v], DOMAIN runs)
      BY DEF Typed
    <3> QED  BY <1>2, <2>2, <3>1 DEF Holding
  <2> QED  BY <2>1, <2>2
<1> QED  BY <1>1, <1>3

\* The two tables that grow: the queue's jobs and the recorded runs.
QueueTyped == DOMAIN jobs \subseteq Keys /\ jobs \in [DOMAIN jobs -> Job]
RunsTyped == DOMAIN runs \subseteq Rules \X Keys /\ runs \in [DOMAIN runs -> Run]

\* The same when no worker moved.
LEMMA Unmoved ==
    ASSUME Typed, workers' = workers, DOMAIN runs \subseteq DOMAIN runs'
    PROVE  workers' \in [Workers -> Worker] /\ \A v \in Workers : Holding(workers[v], DOMAIN runs)'
BY DEF Typed, TypeOK, Holding

\* A run is recorded, or one that is there is changed.
LEMMA RunPut ==
    ASSUME RunsTyped, NEW x \in Rules \X Keys, NEW run \in Run, runs' = Put(runs, x, run)
    PROVE  RunsTyped' /\ DOMAIN runs' = DOMAIN runs \cup {x}
BY DEF RunsTyped, Put

\* Beginning a run, or finding the one an earlier attempt made.
LEMMA BeginTyped ==
    ASSUME Typed, NEW w \in Workers, Begin(w)
    PROVE  Typed'
<1> DEFINE me == workers[w]
           e == me.event
<1>1. me \in Worker /\ me.pc = "rules" /\ e \in Events
  BY DEF Begin, Typed, TypeOK, Holding
<1>2. PICK p \in me.left :
        LET x == <<p[1], runKey(e)>> IN
        /\ workers' = [workers EXCEPT
               ![w].left = @ \ {p}, ![w].rule = p[1], ![w].ver = p[2],
               ![w].pc = IF ~made(x) THEN "plan"
                         ELSE IF runs[x].status = "RUNNING" THEN "close" ELSE "collect"]
        /\ runs' = IF made(x) THEN runs
                   ELSE Put(runs, x, [event |-> e, ver |-> p[2], actions |-> 0,
                                      logs |-> {}, status |-> "RUNNING"])
  BY DEF Begin
<1> DEFINE x == <<p[1], runKey(e)>>
           place == IF ~made(x) THEN "plan"
                    ELSE IF runs[x].status = "RUNNING" THEN "close" ELSE "collect"
           now == [me EXCEPT !.left = @ \ {p}, !.rule = p[1], !.ver = p[2], !.pc = place]
<1>3. p \in Rules \X Versions
  BY <1>1 DEF Worker
<1>4. x \in Rules \X Keys
  BY <1>1, <1>3 DEF runKey, Keys, Events
<1>5. place \in {"plan", "close", "collect"}
  OBVIOUS
<1>6. /\ workers' = [workers EXCEPT ![w] = now]
      /\ runs' = IF made(x) THEN runs
                 ELSE Put(runs, x, [event |-> e, ver |-> p[2], actions |-> 0,
                                    logs |-> {}, status |-> "RUNNING"])
  BY <1>2
<1> HIDE DEF place
<1>7. now \in Worker
  BY <1>1, <1>3, <1>5 DEF Worker, PCs
<1>8. RunsTyped' /\ DOMAIN runs \subseteq DOMAIN runs' /\ x \in DOMAIN runs'
  <2> DEFINE new == [event |-> e, ver |-> p[2], actions |-> 0, logs |-> {}, status |-> "RUNNING"]
  <2>1. new \in Run
    BY <1>1, <1>3 DEF Run
  <2>2. RunsTyped
    BY DEF RunsTyped, Typed, TypeOK
  <2> HIDE DEF new
  <2>3. CASE made(x)
    BY <1>6, <2>2, <2>3 DEF made, RunsTyped
  <2>4. CASE ~made(x)
    <3>1. runs' = Put(runs, x, new)
      BY <1>6, <2>4 DEF new
    <3> HIDE DEF x
    <3> QED  BY <1>4, <2>1, <2>2, <3>1, RunPut
  <2> QED  BY <2>3, <2>4
<1>9. Holding(now, DOMAIN runs')
  BY <1>1, <1>3, <1>5, <1>7, <1>8 DEF Holding, OnARule, PCs, Worker
<1>10. workers' \in [Workers -> Worker] /\ \A v \in Workers : Holding(workers[v], DOMAIN runs)'
  BY <1>6, <1>7, <1>8, <1>9, Moved
<1> QED
  BY <1>8, <1>10 DEF Begin, Typed, TypeOK, RunsTyped, bounds, seen

\* One of a worker's runs is changed in place.
LEMMA RunSet ==
    ASSUME RunsTyped, NEW x, NEW run, x \in DOMAIN runs => run \in Run,
           runs' = [runs EXCEPT ![x] = run]
    PROVE  RunsTyped' /\ DOMAIN runs' = DOMAIN runs
BY DEF RunsTyped

\* Closing a run as FAILED, SKIPPED, or with the status its steps amount to.
LEMMA CloseTyped ==
    ASSUME Typed, NEW w \in Workers, CloseStopped(w) \/ Skip(w) \/ Refuse(w) \/ Finish(w)
    PROVE  Typed'
<1> DEFINE me == workers[w]
           x == runOf(w)
<1>1. me \in Worker /\ me.pc \in OnARule
  BY DEF CloseStopped, Skip, Refuse, Finish, Typed, TypeOK, OnARule, PCs
<1>2. Holding(me, DOMAIN runs)
  BY DEF Typed
<1>3. runStatus(me.did, me.bad, me.cut) \in {"FAILED", "PARTIALLY_FAILED", "COMPLETED"}
  BY DEF runStatus
<1>4. PICK place \in {"rules", "collect"},
           status \in {"COMPLETED", "PARTIALLY_FAILED", "FAILED", "SKIPPED"} :
        /\ runs' = [runs EXCEPT ![x].status = status]
        /\ workers' = [workers EXCEPT ![w].pc = place]
  BY <1>3 DEF CloseStopped, Skip, Refuse, Finish
<1> DEFINE now == [me EXCEPT !.pc = place]
           run == [runs[x] EXCEPT !.status = status]
<1>5. now \in Worker
  BY <1>1 DEF Worker, PCs
<1>6. x \in DOMAIN runs => run \in Run
  BY DEF Typed, TypeOK, Run
<1>7. runs' = [runs EXCEPT ![x] = run] /\ workers' = [workers EXCEPT ![w] = now]
  BY <1>4
<1>8. RunsTyped' /\ DOMAIN runs' = DOMAIN runs
  <2>1. RunsTyped
    BY DEF RunsTyped, Typed, TypeOK
  <2> HIDE DEF x, run
  <2> QED  BY <1>6, <1>7, <2>1, RunSet
<1>9. Holding(now, DOMAIN runs')
  BY <1>1, <1>2, <1>5, <1>8 DEF Holding, OnARule, PCs, Worker
<1>10. workers' \in [Workers -> Worker] /\ \A v \in Workers : Holding(workers[v], DOMAIN runs)'
  BY <1>5, <1>7, <1>8, <1>9, Moved
<1> QED
  BY <1>8, <1>10 DEF CloseStopped, Skip, Refuse, Finish, Typed, TypeOK, RunsTyped, bounds, seen

\* A replay hands back events recorded with the run.
LEMMA CollectTyped ==
    ASSUME Typed, NEW w \in Workers, Collect(w)
    PROVE  Typed'
<1> DEFINE me == workers[w]
           now == [me EXCEPT !.pc = "rules", !.out = @ \cup followUps(runOf(w))]
<1>1. me \in Worker /\ me.pc = "collect"
  BY DEF Collect, Typed, TypeOK
<1>2. Holding(me, DOMAIN runs)
  BY DEF Typed
<1>3. followUps(runOf(w)) \in SUBSET Events
  <2>1. runOf(w) \in DOMAIN runs
    BY <1>1, <1>2 DEF Holding, OnARule, PCs, runOf
  <2>2. runs[runOf(w)].logs \in SUBSET Line
    BY <2>1 DEF Typed, TypeOK, Run
  <2> QED  BY <2>2 DEF followUps, Line
<1>4. workers' = [workers EXCEPT ![w] = now]
  BY DEF Collect
<1>5. now \in Worker
  BY <1>1, <1>3 DEF Worker, PCs
<1>6. Holding(now, DOMAIN runs') /\ DOMAIN runs' = DOMAIN runs
  BY <1>1, <1>2, <1>5 DEF Holding, OnARule, PCs, Worker, Collect, db
<1>7. workers' \in [Workers -> Worker] /\ \A v \in Workers : Holding(workers[v], DOMAIN runs)'
  BY <1>4, <1>5, <1>6, Moved
<1> QED
  BY <1>7 DEF Collect, Typed, TypeOK, db, bounds, seen

\* Planning picks step numbers of the version in hand.
LEMMA PlanTyped ==
    ASSUME Typed, NEW w \in Workers, Plan(w)
    PROVE  Typed'
<1> DEFINE me == workers[w]
           seg == segment(me.ver, me.event)
           do == {i \in seg : Cardinality({j \in seg : j < i}) < allowance(runOf(w))}
           place == IF seg = {} THEN afterSteps(me.ver, me.event)
                    ELSE IF do = {} THEN "count" ELSE "act"
           cut == do # seg
           now == [me EXCEPT !.todo = do, !.cut = cut, !.did = 0, !.bad = 0, !.pc = place]
<1>1. me \in Worker /\ me.pc = "plan"
  BY DEF Plan, Typed, TypeOK
<1>2. Holding(me, DOMAIN runs)
  BY DEF Typed
<1>3. do \in SUBSET Nat
  <2>1. Steps[me.ver] \in Seq(Nodes)
    BY <1>1, <1>2, EngineAssumption DEF Holding, OnARule, PCs
  <2> QED  BY <2>1 DEF segment
<1>4. place \in {"finish", "wait", "count", "act"}
  BY DEF afterSteps
<1>5. workers' = [workers EXCEPT ![w] = now]
  BY DEF Plan
<1>6. cut \in BOOLEAN
  OBVIOUS
<1> HIDE DEF do, place, seg, cut
<1>7. now \in Worker
  BY <1>1, <1>3, <1>4, <1>6, ZenonT(30) DEF Worker, PCs
<1>8. Holding(now, DOMAIN runs') /\ DOMAIN runs' = DOMAIN runs
  BY <1>1, <1>2, <1>4, <1>7 DEF Holding, OnARule, PCs, Worker, Plan, db
<1>9. workers' \in [Workers -> Worker] /\ \A v \in Workers : Holding(workers[v], DOMAIN runs)'
  BY <1>5, <1>7, <1>8, Moved
<1> QED
  BY <1>9 DEF Plan, Typed, TypeOK, db, bounds, seen

\* Names made from numbers and names, and the events they name.
LEMMA NamesTyped ==
    /\ \A n \in Nat : Random(n) \in Ids
    /\ \A id \in Ids, t \in Tasks :
         Derived(id, <<"rollup", t>>) \in Ids /\ Derived(id, <<"unblocked", t>>) \in Ids
    /\ \A id \in Ids : Derived(id, <<"resume", 0>>) \in Ids
BY DEF Ids, Random, Derived

\* What a step's write announces is an event.
LEMMA FollowTyped ==
    ASSUME NEW r \in Rules, NEW e \in Events, NEW n \in Nat, NEW trigger \in Triggers
    PROVE  follow(r, e, n, trigger) \in Events
<1>1. Random(n) \in Ids
  BY NamesTyped
<1>2. /\ e.task \in Tasks /\ e.depth + 1 \in Nat /\ e.chain \in Ids
  BY DEF Events
<1> QED  BY <1>1, <1>2 DEF follow, Events

\* What an edit by a person announces is an event.
LEMMA RootTyped ==
    ASSUME NEW n \in Nat, NEW trigger \in Triggers, NEW t \in Tasks
    PROVE  RootEvent(n, trigger, t) \in Events
<1>1. Random(n) \in Ids
  BY NamesTyped
<1> QED  BY <1>1 DEF RootEvent, Events

\* Performing a step: what it raised are events, and it is written in the run.
LEMMA ActTyped ==
    ASSUME Typed, NEW w \in Workers, Act(w)
    PROVE  Typed'
<1> DEFINE me == workers[w]
           e == me.event
<1>1. me \in Worker /\ me.pc = "act"
  BY DEF Act, Typed, TypeOK
<1>2. Holding(me, DOMAIN runs)
  BY DEF Typed
<1>3. me.rule \in Rules /\ e \in Events /\ runKey(e) \in Keys /\ nextId \in Nat
  BY <1>1, <1>2 DEF Holding, OnARule, PCs, Typed, TypeOK, runKey, Keys, Events
<1>4. PICK i \in me.todo, ok \in BOOLEAN, wrote \in BOOLEAN : ActWith(w, i, ok, wrote)
  BY DEF Act
<1> DEFINE n == Steps[me.ver][i]
           completes == wrote /\ Kind[n] = "complete"
           raised == raisedBy(me, n, ok, completes)
           found == me.found \/ completes
           line == [step |-> i, ok |-> ok, events |-> raised]
           now == [me EXCEPT !.pc = "log", !.todo = @ \ {i}, !.found = found, !.line = line]
<1>5. raised \in SUBSET Events
  <2>1. follow(me.rule, e, nextId, "completed") \in Events
    BY <1>3, FollowTyped DEF Triggers
  <2>2. follow(me.rule, e, nextId, "changed") \in Events
    BY <1>3, FollowTyped DEF Triggers
  <2> QED  BY <2>1, <2>2 DEF raisedBy
<1>6. workers' = [workers EXCEPT ![w] = now]
  BY <1>4 DEF ActWith
<1>7. found \in BOOLEAN /\ i \in Nat
  BY <1>1 DEF Worker
<1>8. completed' \in SUBSET Tasks /\ nextId' \in Nat
  BY <1>3, <1>4 DEF ActWith, Typed, TypeOK, Events
<1>9. acted' \in SUBSET (Rules \X Keys \X Nat) /\ again' \in SUBSET (Rules \X Keys \X Nat)
  BY <1>3, <1>4, <1>7 DEF ActWith, Typed, TypeOK
<1> HIDE DEF raised, found
<1>10. line \in Line
  BY <1>5, <1>7 DEF Line
<1> HIDE DEF line
<1>11. now \in Worker
  BY <1>1, <1>7, <1>10 DEF Worker, PCs
<1>12. Holding(now, DOMAIN runs') /\ DOMAIN runs' = DOMAIN runs
  BY <1>1, <1>2, <1>10, <1>11 DEF Holding, OnARule, PCs, Worker, Act
<1>13. workers' \in [Workers -> Worker] /\ \A v \in Workers : Holding(workers[v], DOMAIN runs)'
  BY <1>6, <1>11, <1>12, Moved
<1> QED
  BY <1>8, <1>9, <1>13 DEF Act, Typed, TypeOK, bounds

\* Logging a step adds a line to the run in hand.
LEMMA LogTyped ==
    ASSUME Typed, NEW w \in Workers, Log(w)
    PROVE  Typed'
<1> DEFINE me == workers[w]
           x == runOf(w)
           place == IF me.todo = {} THEN "count" ELSE "act"
           bad == IF me.line.ok THEN me.bad ELSE me.bad + 1
           out == me.out \cup me.line.events
           did == me.did + 1
           now == [me EXCEPT !.pc = place, !.did = did, !.bad = bad, !.out = out,
                             !.line = None]
           run == [runs[x] EXCEPT !.logs = @ \cup {me.line}]
<1>1. me \in Worker /\ me.pc = "log"
  BY DEF Log, Typed, TypeOK
<1>2. Holding(me, DOMAIN runs)
  BY DEF Typed
<1>3. me.line \in Line /\ me.line.events \in SUBSET Events
  BY <1>1, <1>2 DEF Holding, Line
<1>4. place \in {"count", "act"} /\ did \in Nat /\ bad \in Nat /\ out \in SUBSET Events
  BY <1>1, <1>3 DEF Worker
<1>5. workers' = [workers EXCEPT ![w] = now] /\ runs' = [runs EXCEPT ![x] = run]
  BY DEF Log
<1>6. x \in DOMAIN runs => run \in Run
  BY <1>3 DEF Typed, TypeOK, Run
<1>7. RunsTyped' /\ DOMAIN runs' = DOMAIN runs
  <2>1. RunsTyped
    BY DEF RunsTyped, Typed, TypeOK
  <2> HIDE DEF x, run
  <2> QED  BY <1>5, <1>6, <2>1, RunSet
<1> HIDE DEF place, did, bad, out
<1>8. now \in Worker
  BY <1>1, <1>4 DEF Worker, PCs
<1>9. Holding(now, DOMAIN runs')
  BY <1>1, <1>2, <1>4, <1>7, <1>8 DEF Holding, OnARule, PCs, Worker
<1>10. workers' \in [Workers -> Worker] /\ \A v \in Workers : Holding(workers[v], DOMAIN runs)'
  BY <1>5, <1>7, <1>8, <1>9, Moved
<1> QED
  BY <1>7, <1>10 DEF Log, Typed, TypeOK, RunsTyped, bounds, seen

\* Recording how many steps a run performed.
LEMMA CountTyped ==
    ASSUME Typed, NEW w \in Workers, Count(w)
    PROVE  Typed'
<1> DEFINE me == workers[w]
           x == runOf(w)
           refused == me.did = 0 /\ me.cut
           place == IF refused THEN "refuse" ELSE afterSteps(me.ver, me.event)
           now == [me EXCEPT !.pc = place]
           run == [runs[x] EXCEPT !.actions = me.did]
<1>1. me \in Worker /\ me.pc = "count"
  BY DEF Count, Typed, TypeOK
<1>2. Holding(me, DOMAIN runs)
  BY DEF Typed
<1>3. x \in DOMAIN runs
  BY <1>1, <1>2 DEF Holding, OnARule, PCs, runOf
<1>4. place \in {"refuse", "finish", "wait"}
  BY DEF afterSteps
<1>5. workers' = [workers EXCEPT ![w] = now] /\ runs' = [runs EXCEPT ![x] = run]
  BY <1>3 DEF Count, Typed, TypeOK, Run
<1>6. run \in Run
  <2>1. runs[x] \in Run /\ me.did \in Nat
    BY <1>1, <1>3 DEF Typed, TypeOK, Worker
  <2> QED  BY <2>1 DEF Run
<1>7. RunsTyped' /\ DOMAIN runs' = DOMAIN runs
  <2>1. RunsTyped
    BY DEF RunsTyped, Typed, TypeOK
  <2> HIDE DEF x, run
  <2> QED  BY <1>5, <1>6, <2>1, RunSet
<1> HIDE DEF place
<1>8. now \in Worker
  BY <1>1, <1>4 DEF Worker, PCs
<1>9. Holding(now, DOMAIN runs')
  BY <1>1, <1>2, <1>4, <1>7, <1>8 DEF Holding, OnARule, PCs, Worker
<1>10. workers' \in [Workers -> Worker] /\ \A v \in Workers : Holding(workers[v], DOMAIN runs)'
  BY <1>5, <1>7, <1>8, <1>9, Moved
<1> QED
  BY <1>7, <1>10 DEF Count, Typed, TypeOK, RunsTyped, bounds, seen

\* Leaving a row at the Wait step reached.
LEMMA ScheduleDelaysTyped ==
    ASSUME Typed, NEW w \in Workers, ScheduleDelays(w)
    PROVE  Typed'
<1> DEFINE me == workers[w]
           now == [me EXCEPT !.pc = "finish"]
           row(i) == [id |-> nextId, rule |-> me.rule, node |-> Steps[me.ver][i], ver |-> me.ver,
                      event |-> [me.event EXCEPT !.from = None], status |-> "PENDING"]
<1>1. me \in Worker /\ me.pc = "wait"
  BY DEF ScheduleDelays, Typed, TypeOK
<1>2. Holding(me, DOMAIN runs)
  BY DEF Typed
<1>3. me.rule \in Rules /\ me.ver \in Versions /\ me.event \in Events
  BY <1>1, <1>2 DEF Holding, OnARule, PCs
<1>4. \A i \in delays(me.ver, me.event) : row(i) \in WaitRow
  <2>1. Steps[me.ver] \in Seq(Nodes)
    BY <1>3, EngineAssumption
  <2>2. \A i \in delays(me.ver, me.event) : Steps[me.ver][i] \in Nodes
    BY <2>1 DEF delays
  <2>3. [me.event EXCEPT !.from = None] \in Events
    BY <1>3 DEF Events
  <2> QED  BY <1>3, <2>2, <2>3 DEF WaitRow, Typed, TypeOK
<1>5. /\ waits' = waits \cup {row(i) : i \in delays(me.ver, me.event)}
      /\ workers' = [workers EXCEPT ![w] = now]
      /\ nextId' = nextId + 1
  BY DEF ScheduleDelays
<1>6. waits' \in SUBSET WaitRow /\ nextId' \in Nat
  BY <1>4, <1>5 DEF Typed, TypeOK
<1>7. now \in Worker
  BY <1>1 DEF Worker, PCs
<1>8. Holding(now, DOMAIN runs') /\ DOMAIN runs' = DOMAIN runs
  BY <1>1, <1>2, <1>7 DEF Holding, OnARule, PCs, Worker, ScheduleDelays
<1>9. workers' \in [Workers -> Worker] /\ \A v \in Workers : Holding(workers[v], DOMAIN runs)'
  BY <1>5, <1>7, <1>8, Moved
<1> QED
  BY <1>6, <1>9 DEF ScheduleDelays, Typed, TypeOK, bounds, seen


\* A worker with nothing in hand.
LEMMA IdleTyped == Idle \in Worker /\ \A keys : Holding(Idle, keys)
BY DEF Idle, Worker, PCs, Holding, OnARule

\* Whatever is handed to the publisher is an event; the queue keeps its types.
LEMMA EnqueueTyped ==
    ASSUME Typed, NEW e \in Events, Enqueue(e)
    PROVE  QueueTyped' /\ sent' \in SUBSET Keys
<1> DEFINE k == runKey(e)
           job == [event |-> e, state |-> "waiting", fails |-> 0, stalls |-> 0]
<1>1. k \in Keys /\ job \in Job
  BY DEF runKey, Keys, Events, Job
<1>2. QueueTyped /\ sent \in SUBSET Keys
  BY DEF QueueTyped, Typed, TypeOK
<1>3. /\ jobs' = IF k \in DOMAIN jobs THEN jobs ELSE Put(jobs, k, job)
      /\ sent' = sent \cup {k}
  BY DEF Enqueue
<1> HIDE DEF k, job
<1> QED  BY <1>1, <1>2, <1>3 DEF QueueTyped, Put

\* A job in the queue is changed in place.
LEMMA JobSet ==
    ASSUME QueueTyped, NEW k, NEW job, k \in DOMAIN jobs => job \in Job,
           jobs' = [jobs EXCEPT ![k] = job]
    PROVE  QueueTyped'
BY DEF QueueTyped

\* Taking a job.
LEMMA LoadTyped ==
    ASSUME Typed, NEW k \in DOMAIN jobs, NEW w \in Workers, Load(w, k)
    PROVE  Typed'
<1> DEFINE e == jobs[k].event
           left == {<<r, versionFor(e, r)>> : r \in answering(e)}
           found == e.task \in completed
           now == [Idle EXCEPT !.pc = "rules", !.event = e, !.owns = TRUE, !.left = left,
                               !.found = found]
           job == [jobs[k] EXCEPT !.state = "active"]
<1>1. jobs[k] \in Job /\ e \in Events
  BY DEF Typed, TypeOK, Job
<1>2. left \in SUBSET (Rules \X Versions)
  <2>1. answering(e) \subseteq Rules
    BY DEF answering, runnableRules, Typed, TypeOK
  <2>2. \A r \in Rules : versionFor(e, r) \in Versions
    BY <1>1 DEF versionFor, Events, Typed, TypeOK
  <2> QED  BY <2>1, <2>2
<1>3. workers' = [workers EXCEPT ![w] = now] /\ jobs' = [jobs EXCEPT ![k] = job]
  BY DEF Load
<1>4. job \in Job
  BY <1>1 DEF Job
<1>5. found \in BOOLEAN
  OBVIOUS
<1>6. QueueTyped'
  <2>1. QueueTyped
    BY DEF QueueTyped, Typed, TypeOK
  <2> HIDE DEF job
  <2> QED  BY <1>3, <1>4, <2>1, JobSet
<1> HIDE DEF left, found, e
<1>7. now \in Worker
  BY <1>1, <1>2, <1>5 DEF Idle, Worker, PCs
<1>8. Holding(now, DOMAIN runs') /\ DOMAIN runs' = DOMAIN runs
  BY <1>1 DEF Holding, OnARule, PCs, Idle, Load, db
<1>9. workers' \in [Workers -> Worker] /\ \A v \in Workers : Holding(workers[v], DOMAIN runs)'
  BY <1>3, <1>7, <1>8, Moved
<1> QED
  BY <1>6, <1>9 DEF Load, QueueTyped, Typed, TypeOK, db, bounds, seen

\* The stop at the depth limit, recorded against some rule or none.
LEMMA StopAtDepthTyped ==
    ASSUME Typed, NEW k \in DOMAIN jobs, StopAtDepth(k)
    PROVE  Typed'
<1> DEFINE e == jobs[k].event
           run == [event |-> e, ver |-> None, actions |-> 0, logs |-> {}, status |-> "SKIPPED"]
           job == [jobs[k] EXCEPT !.state = "done"]
<1>1. k \in Keys /\ jobs[k] \in Job /\ e \in Events
  BY DEF Typed, TypeOK, Job
<1>2. run \in Run /\ job \in Job
  BY <1>1 DEF Run, Job
<1>3. jobs' = [jobs EXCEPT ![k] = job]
  BY DEF StopAtDepth
<1>4. QueueTyped'
  <2>1. QueueTyped
    BY DEF QueueTyped, Typed, TypeOK
  <2> HIDE DEF job
  <2> QED  BY <1>2, <1>3, <2>1, JobSet
<1>5. RunsTyped' /\ DOMAIN runs \subseteq DOMAIN runs'
  <2>1. RunsTyped
    BY DEF RunsTyped, Typed, TypeOK
  <2>2. runs' = runs \/ \E r \in Rules : runs' = Put(runs, <<r, k>>, run)
    BY DEF StopAtDepth, Typed, TypeOK
  <2>3. CASE runs' = runs
    BY <2>1, <2>3 DEF RunsTyped
  <2>4. ASSUME NEW r \in Rules, runs' = Put(runs, <<r, k>>, run)
        PROVE  RunsTyped' /\ DOMAIN runs \subseteq DOMAIN runs'
    <3> DEFINE x == <<r, k>>
    <3>1. x \in Rules \X Keys
      BY <1>1
    <3> HIDE DEF x, run
    <3>2. runs' = Put(runs, x, run)
      BY <2>4 DEF x
    <3> QED  BY <1>2, <2>1, <3>1, <3>2, RunPut
  <2> QED  BY <2>2, <2>3, <2>4
<1>6. workers' \in [Workers -> Worker] /\ \A v \in Workers : Holding(workers[v], DOMAIN runs)'
  BY <1>5, Unmoved DEF StopAtDepth
<1> QED
  BY <1>4, <1>5, <1>6 DEF StopAtDepth, QueueTyped, RunsTyped, Typed, TypeOK, bounds, seen

\* What a completion means to other tasks.
LEMMA RulesThroughTyped ==
    ASSUME Typed, NEW w \in Workers, RulesThrough(w)
    PROVE  Typed'
<1> DEFINE me == workers[w]
           e == me.event
           out == me.out \cup IF e.trigger = "completed"
                              THEN subtaskRollup(e) \cup unblockedDependents(e) ELSE {}
           now == [me EXCEPT !.pc = "publish", !.out = out]
<1>1. me \in Worker /\ me.pc = "rules"
  BY DEF RulesThrough, Typed, TypeOK
<1>2. e \in Events
  BY <1>1 DEF Typed, Holding
<1>3. ASSUME NEW x \in subtaskRollup(e) PROVE x \in Events
  <2>1. PICK p \in Tasks : x = [e EXCEPT !.id = Derived(e.id, <<"rollup", p>>), !.task = p]
    BY DEF subtaskRollup
  <2>2. Derived(e.id, <<"rollup", p>>) \in Ids
    BY <1>2, NamesTyped DEF Events
  <2> QED  BY <1>2, <2>1, <2>2 DEF Events
<1>4. ASSUME NEW x \in unblockedDependents(e) PROVE x \in Events
  <2>1. PICK t \in Tasks :
          x = [e EXCEPT !.id = Derived(e.id, <<"unblocked", t>>), !.task = t,
                        !.trigger = "unblocked", !.rule = None]
    BY DEF unblockedDependents
  <2>2. Derived(e.id, <<"unblocked", t>>) \in Ids
    BY <1>2, NamesTyped DEF Events
  <2> QED  BY <1>2, <2>1, <2>2 DEF Events, Triggers
<1>5. out \in SUBSET Events
  BY <1>1, <1>3, <1>4 DEF Worker
<1>6. workers' = [workers EXCEPT ![w] = now]
  BY DEF RulesThrough
<1> HIDE DEF out
<1>7. now \in Worker
  BY <1>1, <1>5 DEF Worker, PCs
<1>8. Holding(now, DOMAIN runs') /\ DOMAIN runs' = DOMAIN runs
  BY <1>1, <1>2, <1>7 DEF Holding, OnARule, PCs, Worker, RulesThrough, db
<1>9. workers' \in [Workers -> Worker] /\ \A v \in Workers : Holding(workers[v], DOMAIN runs)'
  BY <1>6, <1>7, <1>8, Moved
<1> QED
  BY <1>9 DEF RulesThrough, Typed, TypeOK, db, bounds, seen


\* Publishing an event, or losing it.
LEMMA PublishTyped ==
    ASSUME Typed, NEW w \in Workers, PublishNext(w) \/ LoseAdd(w)
    PROVE  Typed'
<1> DEFINE me == workers[w]
<1>1. me \in Worker /\ me.pc = "publish"
  BY DEF PublishNext, LoseAdd, Typed, TypeOK
<1>2. PICK e \in me.out :
        /\ workers' = [workers EXCEPT ![w].out = @ \ {e}]
        /\ Enqueue(e) \/ (jobs' = jobs /\ sent' = sent \cup {runKey(e)})
  BY DEF PublishNext, LoseAdd
<1> DEFINE now == [me EXCEPT !.out = @ \ {e}]
<1>3. e \in Events
  BY <1>1 DEF Worker
<1>4. QueueTyped' /\ sent' \in SUBSET Keys
  <2>1. CASE Enqueue(e)
    BY <1>3, <2>1, EnqueueTyped
  <2>2. CASE jobs' = jobs /\ sent' = sent \cup {runKey(e)}
    BY <1>3, <2>2 DEF QueueTyped, Typed, TypeOK, runKey, Keys, Events
  <2> QED  BY <1>2, <2>1, <2>2
<1>5. workers' = [workers EXCEPT ![w] = now]
  BY <1>2
<1>6. now \in Worker
  BY <1>1 DEF Worker
<1>7. Holding(me, DOMAIN runs)
  BY DEF Typed
<1>8. Holding(now, DOMAIN runs') /\ DOMAIN runs' = DOMAIN runs
  BY <1>1, <1>6, <1>7 DEF Holding, OnARule, PCs, Worker, PublishNext, LoseAdd, db
<1>9. workers' \in [Workers -> Worker] /\ \A v \in Workers : Holding(workers[v], DOMAIN runs)'
  BY <1>5, <1>6, <1>8, Moved
<1>10. faults' \in Nat
  <2>1. faults' \in {faults, faults + 1}
    BY DEF PublishNext, LoseAdd, Fault, bounds
  <2> QED  BY <2>1 DEF Typed, TypeOK
<1> QED
  BY <1>4, <1>9, <1>10 DEF PublishNext, LoseAdd, QueueTyped, Typed, TypeOK, db, bounds, seen

\* A job given another try, or found stalled.
LEMMA RetryTyped ==
    ASSUME Typed, NEW k, Retry(k) \/ Redeliver(k)
    PROVE  QueueTyped'
<1>1. QueueTyped
  BY DEF QueueTyped, Typed, TypeOK
<1>2. k \in DOMAIN jobs => jobs[k] \in Job
  BY <1>1 DEF QueueTyped
<1>3. k \in DOMAIN jobs => retried(jobs[k]) \in Job
  <2> DEFINE fails == jobs[k].fails + 1
             state == IF fails >= Attempts THEN "failed" ELSE "waiting"
  <2>1. k \in DOMAIN jobs => fails \in Nat
    BY <1>2 DEF Job
  <2>2. state \in {"failed", "waiting"}
    OBVIOUS
  <2>3. retried(jobs[k]) = [jobs[k] EXCEPT !.fails = fails, !.state = state]
    BY DEF retried
  <2> HIDE DEF fails, state
  <2> QED  BY <1>2, <2>1, <2>2, <2>3 DEF Job
<1>4. k \in DOMAIN jobs => redelivered(jobs[k]) \in Job
  <2> DEFINE stalls == jobs[k].stalls + 1
             state == IF jobs[k].stalls >= MaxStalls THEN "failed" ELSE "waiting"
  <2>1. k \in DOMAIN jobs => stalls \in Nat
    BY <1>2 DEF Job
  <2>2. state \in {"failed", "waiting"}
    OBVIOUS
  <2>3. redelivered(jobs[k]) = [jobs[k] EXCEPT !.stalls = stalls, !.state = state]
    BY DEF redelivered
  <2> HIDE DEF stalls, state
  <2> QED  BY <1>2, <2>1, <2>2, <2>3 DEF Job
<1>5. CASE Retry(k)
  BY <1>1, <1>3, <1>5, JobSet DEF Retry
<1>6. CASE Redeliver(k)
  BY <1>1, <1>4, <1>6, JobSet DEF Redeliver
<1> QED  BY <1>5, <1>6

\* A worker done with its job, or thrown or killed out of it.
LEMMA LeaveTyped ==
    ASSUME Typed, NEW w \in Workers, Settle(w) \/ Throw(w) \/ Kill(w)
    PROVE  Typed'
<1> DEFINE k == runKey(workers[w].event)
           done == [jobs[k] EXCEPT !.state = "done"]
<1>1. workers' = [workers EXCEPT ![w] = Idle] /\ DOMAIN runs' = DOMAIN runs
  BY DEF Settle, Throw, Kill, db
<1>2. QueueTyped
  BY DEF QueueTyped, Typed, TypeOK
<1>3. \/ jobs' = jobs
      \/ jobs' = [jobs EXCEPT ![k] = done]
      \/ Retry(k) \/ Redeliver(k)
  BY DEF Settle, Throw, Kill
<1>4. k \in DOMAIN jobs => done \in Job
  BY <1>2 DEF QueueTyped, Job
<1> HIDE DEF k, done
<1>5. QueueTyped'
  <2>1. CASE jobs' = jobs
    BY <1>2, <2>1 DEF QueueTyped
  <2>2. CASE jobs' = [jobs EXCEPT ![k] = done]
    BY <1>2, <1>4, <2>2, JobSet
  <2>3. CASE Retry(k) \/ Redeliver(k)
    BY <2>3, RetryTyped
  <2> QED  BY <1>3, <2>1, <2>2, <2>3
<1>6. workers' \in [Workers -> Worker] /\ \A v \in Workers : Holding(workers[v], DOMAIN runs)'
  BY <1>1, IdleTyped, Moved
<1>7. faults' \in Nat
  BY DEF Settle, Throw, Kill, Fault, bounds, Typed, TypeOK
<1> QED
  BY <1>5, <1>6, <1>7 DEF Settle, Throw, Kill, QueueTyped, Typed, TypeOK, db, bounds, seen

\* A worker that lost its lock has in hand what it had.
LEMMA StallTyped ==
    ASSUME Typed, NEW w \in Workers, Stall(w)
    PROVE  Typed'
<1> DEFINE me == workers[w]
           now == [me EXCEPT !.owns = FALSE]
<1>1. me \in Worker /\ Holding(me, DOMAIN runs)
  BY DEF Typed, TypeOK
<1>2. workers' = [workers EXCEPT ![w] = now] /\ DOMAIN runs' = DOMAIN runs
  BY DEF Stall, db
<1>3. now \in Worker /\ Holding(now, DOMAIN runs')
  BY <1>1, <1>2 DEF Worker, Holding, OnARule, PCs
<1>4. workers' \in [Workers -> Worker] /\ \A v \in Workers : Holding(workers[v], DOMAIN runs)'
  BY <1>2, <1>3, Moved
<1>5. QueueTyped'
  BY RetryTyped DEF Stall
<1>6. faults' \in Nat
  BY DEF Stall, Fault, Typed, TypeOK
<1> QED
  BY <1>4, <1>5, <1>6 DEF Stall, QueueTyped, Typed, TypeOK, db, seen

\* A job the queue lets go of.
LEMMA ExpireTyped ==
    ASSUME Typed, NEW k, Expire(k)
    PROVE  Typed'
<1>1. QueueTyped'
  BY DEF Expire, QueueTyped, Typed, TypeOK
<1>2. workers' \in [Workers -> Worker] /\ \A v \in Workers : Holding(workers[v], DOMAIN runs)'
  BY Unmoved DEF Expire, db
<1>3. faults' \in Nat
  BY DEF Expire, Fault, Typed, TypeOK
<1> QED
  BY <1>1, <1>2, <1>3 DEF Expire, QueueTyped, Typed, TypeOK, db, seen

\* A row of the clock is claimed, answered or forgotten.
LEMMA WaitsTyped ==
    ASSUME Typed, NEW d \in waits, ClaimWait(d) \/ ResumeWait(d) \/ TickDies(d)
    PROVE  Typed'
<1>1. d \in WaitRow
  BY DEF Typed, TypeOK
<1>2. claimedAs(d) \in {"CLAIMED", "CANCELLED"}
  BY DEF claimedAs
<1>3. PICK status \in {"CLAIMED", "CANCELLED", "DONE"} :
        waits' = (waits \ {d}) \cup {[d EXCEPT !.status = status]}
  BY <1>2 DEF ClaimWait, ResumeWait, TickDies
<1>4. waits' \in SUBSET WaitRow
  <2>1. [d EXCEPT !.status = status] \in WaitRow
    BY <1>1 DEF WaitRow
  <2> QED  BY <1>3, <2>1 DEF Typed, TypeOK
<1>5. QueueTyped' /\ sent' \in SUBSET Keys
  <2>1. CASE ClaimWait(d) \/ TickDies(d)
    BY <2>1 DEF ClaimWait, TickDies, seen, QueueTyped, Typed, TypeOK
  <2>2. CASE ResumeWait(d)
    <3>1. d.event \in Events /\ Derived(Random(d.id), <<"resume", 0>>) \in Ids
      BY <1>1, NamesTyped DEF WaitRow
    <3>2. resumption(d) \in Events
      BY <1>1, <3>1 DEF resumption, Events, WaitRow
    <3> QED  BY <2>2, <3>2, EnqueueTyped DEF ResumeWait
  <2> QED  BY <2>1, <2>2
<1>6. workers' \in [Workers -> Worker] /\ \A v \in Workers : Holding(workers[v], DOMAIN runs)'
  BY Unmoved DEF ClaimWait, ResumeWait, TickDies
<1>7. faults' \in Nat
  <2>1. faults' \in {faults, faults + 1}
    BY DEF ClaimWait, ResumeWait, TickDies, Fault, bounds
  <2> QED  BY <2>1 DEF Typed, TypeOK
<1> QED
  BY <1>4, <1>5, <1>6, <1>7
  DEF ClaimWait, ResumeWait, TickDies, QueueTyped, Typed, TypeOK, bounds, seen

\* People edit tasks.
LEMMA EditTyped ==
    ASSUME Typed, NEW t \in Tasks, Complete(t) \/ Change(t)
    PROVE  Typed'
<1>1. nextId \in Nat
  BY DEF Typed, TypeOK
<1>2. QueueTyped' /\ sent' \in SUBSET Keys
  <2>1. RootEvent(nextId, "completed", t) \in Events /\ RootEvent(nextId, "changed", t) \in Events
    BY <1>1, RootTyped DEF Triggers
  <2> QED  BY <2>1, EnqueueTyped DEF Complete, Change
<1>3. workers' \in [Workers -> Worker] /\ \A v \in Workers : Holding(workers[v], DOMAIN runs)'
  BY Unmoved DEF Complete, Change, db
<1>4. completed' \in SUBSET Tasks /\ edits' \in Nat /\ nextId' \in Nat
  BY DEF Complete, Change, db, Typed, TypeOK
<1> QED
  BY <1>2, <1>3, <1>4 DEF Complete, Change, QueueTyped, Typed, TypeOK, db

\* People publish and pause rules.
LEMMA SwitchTyped ==
    ASSUME Typed, (\E v \in Versions : Publish(v)) \/ (\E r \in Rules : Pause(r))
    PROVE  Typed'
<1>1. workers' \in [Workers -> Worker] /\ \A v \in Workers : Holding(workers[v], DOMAIN runs)'
  BY Unmoved DEF Publish, Pause
<1>2. active' \in SUBSET Rules /\ published' \in [Rules -> Versions] /\ switches' \in Nat
  <2>1. RuleOf \in [Versions -> Rules]
    BY EngineAssumption
  <2>2. active \in SUBSET Rules /\ published \in [Rules -> Versions] /\ switches \in Nat
    BY DEF Typed, TypeOK
  <2>3. ASSUME NEW v \in Versions, Publish(v)
        PROVE  /\ active' = active \cup {RuleOf[v]} /\ switches' = switches + 1
               /\ published' = [published EXCEPT ![RuleOf[v]] = v]
    BY <2>3 DEF Publish
  <2>4. ASSUME NEW r \in Rules, Pause(r)
        PROVE  active' = active \ {r} /\ switches' = switches + 1 /\ published' = published
    BY <2>4 DEF Pause
  <2> QED  BY <2>1, <2>2, <2>3, <2>4
<1> QED
  BY <1>1, <1>2 DEF Publish, Pause, Typed, TypeOK, seen

\* The engine starts with nothing in hand.
LEMMA TypedInit == Init => Typed
<1> SUFFICES ASSUME Init PROVE Typed
  OBVIOUS
<1>1. workers \in [Workers -> Worker] /\ \A w \in Workers : Holding(workers[w], DOMAIN runs)
  BY IdleTyped DEF Init
<1>2. First \in [Rules -> Versions]
  BY EngineAssumption
<1> QED  BY <1>1, <1>2 DEF Init, Typed, TypeOK

\* Every step keeps the types: one lemma per kind of step.
LEMMA TypedStep == Typed /\ [Next]_vars => Typed'
<1> SUFFICES ASSUME Typed, [Next]_vars PROVE Typed'
  OBVIOUS
<1>1. ASSUME NEW w \in Workers, Step(w) PROVE Typed'
  BY <1>1, BeginTyped, CloseTyped, CollectTyped, PlanTyped, ActTyped, LogTyped, CountTyped,
     ScheduleDelaysTyped, RulesThroughTyped, PublishTyped, LeaveTyped DEF Step
<1>2. CASE Take
  BY <1>2, LoadTyped, StopAtDepthTyped DEF Take
<1>3. CASE Clock
  BY <1>3, WaitsTyped DEF Clock
<1>4. CASE People
  BY <1>4, EditTyped, SwitchTyped DEF People
<1>5. CASE Misfortune
  BY <1>5, PublishTyped, LeaveTyped, StallTyped, ExpireTyped, WaitsTyped DEF Misfortune
<1>6. CASE UNCHANGED vars
  BY <1>6, Unmoved DEF vars, db, bounds, seen, Typed, TypeOK
<1> QED  BY <1>1, <1>2, <1>3, <1>4, <1>5, <1>6 DEF Next

\* The engine's state keeps its types: every run, job, wait and event a worker
\* holds or the database keeps is one the code could have written.
THEOREM EngineTyped == Spec => []TypeOK
<1>1. Typed => TypeOK
  BY DEF Typed
<1> QED  BY TypedInit, TypedStep, <1>1, PTL DEF Spec


----------------------------------------------------------------------------
(* Once: what keeps a step from acting twice.                              *)

\* The places where a worker may still perform steps of its run.
Performing == {"plan", "act", "log"}

\* The steps a worker may still perform.
ahead(w) == IF workers[w].pc = "plan" THEN Nat ELSE workers[w].todo

\* Only a worker that made a run performs it, so no two perform the same; what
\* it has ahead of it has not been done; what was done belongs to a made run.
Once ==
    /\ \A w, v \in Workers :
         w # v /\ {workers[w].pc, workers[v].pc} \subseteq Performing => runOf(w) # runOf(v)
    /\ \A w \in Workers :
         workers[w].pc \in Performing =>
            \A i \in ahead(w) : <<workers[w].rule, runKey(workers[w].event), i>> \notin acted
    /\ \A a \in acted : <<a[1], a[2]>> \in DOMAIN runs
    /\ again = {}

\* A worker performs nothing it was not already about to perform.
Keeps(v) ==
    workers'[v].pc \in Performing =>
        /\ workers[v].pc \in Performing
        /\ workers'[v].rule = workers[v].rule /\ workers'[v].event = workers[v].event
        /\ ahead(v)' \subseteq ahead(v)

\* A step that performs nothing new, and forgets no run, keeps Once.
LEMMA OnceKept ==
    ASSUME Once, UNCHANGED <<acted, again>>, DOMAIN runs \subseteq DOMAIN runs',
           \A v \in Workers : Keeps(v)
    PROVE  Once'
<1>1. ASSUME NEW w \in Workers, NEW v \in Workers, w # v,
             {workers'[w].pc, workers'[v].pc} \subseteq Performing
      PROVE  runOf(w)' # runOf(v)'
  <2>1. runOf(w)' = runOf(w) /\ runOf(v)' = runOf(v)
    BY <1>1 DEF Keeps, runOf
  <2>2. {workers[w].pc, workers[v].pc} \subseteq Performing
    BY <1>1 DEF Keeps
  <2> QED  BY <1>1, <2>1, <2>2 DEF Once
<1>2. ASSUME NEW w \in Workers, workers'[w].pc \in Performing, NEW i \in ahead(w)'
      PROVE  <<workers'[w].rule, runKey(workers'[w].event), i>> \notin acted'
  BY <1>2 DEF Keeps, Once
<1>3. \A a \in acted' : <<a[1], a[2]>> \in DOMAIN runs'
  BY DEF Once
<1>4. again' = {}
  BY DEF Once
<1> QED  BY <1>1, <1>2, <1>3, <1>4 DEF Once

\* One worker moved out of performing, and nobody else moved.
LEMMA OneStops ==
    ASSUME NEW w \in Workers, workers'[w].pc \notin Performing,
           \A v \in Workers \ {w} : workers'[v] = workers[v]
    PROVE  \A v \in Workers : Keeps(v)
BY DEF Keeps, ahead

\* In particular one that moves no worker.
LEMMA NobodyMoves ==
    ASSUME UNCHANGED workers
    PROVE  \A v \in Workers : Keeps(v)
BY DEF Keeps, ahead

\* Where a worker is once it closes a run or leaves its rules.
LEMMA WhereNext ==
    ASSUME Typed, NEW w \in Workers,
           \/ CloseStopped(w) \/ Collect(w) \/ Skip(w) \/ Refuse(w) \/ ScheduleDelays(w)
           \/ Finish(w) \/ RulesThrough(w)
    PROVE  workers'[w].pc \in {"collect", "rules", "finish", "publish"}
<1>1. workers \in [Workers -> Worker] /\ workers[w] \in Worker
  BY DEF Typed, TypeOK
<1>2. CASE CloseStopped(w) \/ Skip(w) \/ Refuse(w)
  BY <1>1, <1>2 DEF CloseStopped, Skip, Refuse, Worker
<1>3. CASE Collect(w) \/ Finish(w)
  BY <1>1, <1>3 DEF Collect, Finish, Worker
<1>4. CASE ScheduleDelays(w) \/ RulesThrough(w)
  BY <1>1, <1>4 DEF ScheduleDelays, RulesThrough, Worker
<1> QED  BY <1>2, <1>3, <1>4

\* A worker closes, finishes, waits, publishes, or lets go of its job.
LEMMA StopsOnce ==
    ASSUME Typed, Once, NEW w \in Workers,
           \/ CloseStopped(w) \/ Collect(w) \/ Skip(w) \/ Count(w) \/ Refuse(w)
           \/ ScheduleDelays(w)
           \/ Finish(w) \/ RulesThrough(w) \/ PublishNext(w) \/ LoseAdd(w) \/ Settle(w)
           \/ Throw(w) \/ Kill(w)
    PROVE  Once'
<1>1. workers \in [Workers -> Worker] /\ workers[w] \in Worker
  BY DEF Typed, TypeOK
<1>2. \A v \in Workers \ {w} : workers'[v] = workers[v]
  BY <1>1 DEF CloseStopped, Collect, Skip, Count, Refuse, ScheduleDelays, Finish, RulesThrough,
              PublishNext, LoseAdd, Settle, Throw, Kill
<1>3. workers'[w].pc \notin Performing
  <2>1. CASE CloseStopped(w) \/ Collect(w) \/ Skip(w) \/ Refuse(w) \/ ScheduleDelays(w)
             \/ Finish(w) \/ RulesThrough(w)
    <3>1. workers'[w].pc \in {"collect", "rules", "finish", "publish"}
      BY <2>1, WhereNext
    <3> QED  BY <3>1 DEF Performing
  <2>2. CASE Count(w)
    <3> DEFINE place == IF workers[w].did = 0 /\ workers[w].cut THEN "refuse"
                        ELSE afterSteps(workers[w].ver, workers[w].event)
    <3>0. place \in {"refuse", "finish", "wait"}
      BY DEF afterSteps
    <3>2. workers' = [workers EXCEPT ![w].pc = place]
      BY <2>2 DEF Count
    <3> HIDE DEF place
    <3>1. workers'[w].pc \in {"refuse", "finish", "wait"}
      BY <1>1, <3>0, <3>2 DEF Worker
    <3> QED  BY <3>1 DEF Performing
  <2>3. CASE PublishNext(w) \/ LoseAdd(w)
    <3>2. \E e : workers' = [workers EXCEPT ![w].out = @ \ {e}]
      BY <2>3 DEF PublishNext, LoseAdd
    <3>3. workers[w].pc = "publish"
      BY <2>3 DEF PublishNext, LoseAdd
    <3>1. workers'[w].pc = "publish"
      BY <1>1, <3>2, <3>3 DEF Worker
    <3> QED  BY <3>1 DEF Performing
  <2>4. CASE Settle(w) \/ Throw(w) \/ Kill(w)
    <3>1. workers'[w] = Idle
      BY <1>1, <2>4 DEF Settle, Throw, Kill
    <3> QED  BY <3>1 DEF Performing, Idle
  <2> QED  BY <2>1, <2>2, <2>3, <2>4
<1>4. \A v \in Workers : Keeps(v)
  BY <1>2, <1>3, OneStops
<1>5. UNCHANGED <<acted, again>>
  BY DEF CloseStopped, Collect, Skip, Count, Refuse, ScheduleDelays, Finish, RulesThrough,
         PublishNext, LoseAdd, Settle, Throw, Kill, seen
<1>6. DOMAIN runs \subseteq DOMAIN runs'
  BY DEF CloseStopped, Collect, Skip, Count, Refuse, ScheduleDelays, Finish, RulesThrough,
         PublishNext, LoseAdd, Settle, Throw, Kill, db
<1> QED  BY <1>4, <1>5, <1>6, OnceKept

\* Planning and logging keep the worker to the run it has.
LEMMA GoesOnOnce ==
    ASSUME Typed, Once, NEW w \in Workers, Plan(w) \/ Log(w) \/ Stall(w)
    PROVE  Once'
<1>1. workers \in [Workers -> Worker] /\ workers[w] \in Worker
  BY DEF Typed, TypeOK
<1>2. \A v \in Workers \ {w} : workers'[v] = workers[v]
  BY <1>1 DEF Plan, Log, Stall
<1>3. Keeps(w)
  <2>1. CASE Plan(w)
    <3>1. Typed'
      BY <2>1, PlanTyped
    <3>2. ahead(w) = Nat
      BY <2>1 DEF ahead, Plan
    <3>3. workers'[w].pc # "plan" /\ workers'[w].todo \subseteq Nat
      <4>1. workers'[w].todo \subseteq Nat
        BY <3>1 DEF Typed, TypeOK, Worker
      <4> DEFINE v == workers[w].ver
                 e == workers[w].event
                 seg == segment(v, e)
                 do == {i \in seg : Cardinality({j \in seg : j < i}) < allowance(runOf(w))}
                 cut == do # seg
                 place == IF seg = {} THEN afterSteps(v, e)
                          ELSE IF do = {} THEN "count" ELSE "act"
      <4>3. place # "plan"
        BY DEF afterSteps
      <4>4. workers' = [workers EXCEPT ![w].todo = do, ![w].cut = cut, ![w].did = 0,
                                       ![w].bad = 0, ![w].pc = place]
        BY <2>1 DEF Plan
      <4> HIDE DEF do, cut, place
      <4>2. workers'[w].pc # "plan"
        BY <1>1, <4>3, <4>4 DEF Worker
      <4> QED  BY <4>1, <4>2
    <3>4. workers'[w].rule = workers[w].rule /\ workers'[w].event = workers[w].event
      BY <1>1, <2>1 DEF Plan, Worker
    <3> QED  BY <2>1, <3>2, <3>3, <3>4 DEF Keeps, ahead, Performing, Plan
  <2>2. CASE Log(w)
    <3>1. workers'[w].pc # "plan" /\ workers'[w].todo = workers[w].todo
      BY <1>1, <2>2 DEF Log, Worker
    <3>2. workers'[w].rule = workers[w].rule /\ workers'[w].event = workers[w].event
      BY <1>1, <2>2 DEF Log, Worker
    <3> QED  BY <2>2, <3>1, <3>2 DEF Keeps, ahead, Performing, Log
  <2>3. CASE Stall(w)
    <3>1. /\ workers'[w].pc = workers[w].pc /\ workers'[w].todo = workers[w].todo
          /\ workers'[w].rule = workers[w].rule /\ workers'[w].event = workers[w].event
      BY <1>1, <2>3 DEF Stall, Worker
    <3> QED  BY <3>1 DEF Keeps, ahead
  <2> QED  BY <2>1, <2>2, <2>3
<1>4. \A v \in Workers : Keeps(v)
  <2>1. \A v \in Workers \ {w} : Keeps(v)
    BY <1>2 DEF Keeps, ahead
  <2> QED  BY <1>3, <2>1
<1>5. UNCHANGED <<acted, again>> /\ DOMAIN runs \subseteq DOMAIN runs'
  BY DEF Plan, Log, Stall, db, seen
<1> QED  BY <1>4, <1>5, OnceKept

\* Everything that moves no worker leaves what they perform alone, and so does
\* taking a job.
LEMMA ElsewhereOnce ==
    ASSUME Typed, Once, Take \/ Clock \/ People \/ (\E k : Expire(k))
                        \/ (\E d \in waits : TickDies(d)) \/ UNCHANGED vars
    PROVE  Once'
<1>1. UNCHANGED <<acted, again>> /\ DOMAIN runs \subseteq DOMAIN runs'
  <2>1. CASE Take
    <3>1. ASSUME NEW k, NEW r, runs' = Put(runs, <<r, k>>, [event |-> jobs[k].event, ver |-> None,
                       actions |-> 0, logs |-> {}, status |-> "SKIPPED"])
          PROVE  DOMAIN runs \subseteq DOMAIN runs'
      BY <3>1 DEF Put
    <3> QED  BY <2>1, <3>1 DEF Take, Load, StopAtDepth, db, seen
  <2>2. CASE Clock
    BY <2>2 DEF Clock, ClaimWait, ResumeWait, seen
  <2>3. CASE People
    BY <2>3 DEF People, Complete, Change, Publish, Pause, db, seen
  <2>4. CASE (\E k : Expire(k)) \/ (\E d \in waits : TickDies(d)) \/ UNCHANGED vars
    BY <2>4 DEF Expire, TickDies, vars, db, seen
  <2> QED  BY <2>1, <2>2, <2>3, <2>4
<1>2. CASE UNCHANGED workers
  BY <1>1, <1>2, NobodyMoves, OnceKept
<1>3. ASSUME NEW w \in Workers, NEW k \in DOMAIN jobs, Load(w, k) PROVE Once'
  <2>1. workers \in [Workers -> Worker]
    BY DEF Typed, TypeOK
  <2>2. \A v \in Workers \ {w} : workers'[v] = workers[v]
    BY <1>3, <2>1 DEF Load
  <2>3. workers'[w].pc = "rules"
    BY <1>3, <2>1 DEF Load, Idle
  <2>4. \A v \in Workers : Keeps(v)
    BY <2>2, <2>3, OneStops DEF Performing
  <2> QED  BY <1>1, <2>4, OnceKept
<1>4. UNCHANGED workers \/ \E w \in Workers, k \in DOMAIN jobs : Load(w, k)
  <2>1. CASE Take
    BY <2>1 DEF Take, StopAtDepth
  <2>2. CASE Clock
    BY <2>2 DEF Clock, ClaimWait, ResumeWait
  <2>3. CASE People
    BY <2>3 DEF People, Complete, Change, Publish, Pause
  <2>4. CASE (\E k : Expire(k)) \/ (\E d \in waits : TickDies(d)) \/ UNCHANGED vars
    BY <2>4 DEF Expire, TickDies, vars
  <2> QED  BY <2>1, <2>2, <2>3, <2>4
<1> QED  BY <1>2, <1>3, <1>4

\* Only a worker that made the run goes on to perform it: nobody was performing
\* it before, and none of its steps had been done.
LEMMA BeginOnce ==
    ASSUME Typed, Once, NEW w \in Workers, Begin(w)
    PROVE  Once'
<1> DEFINE me == workers[w]
           e == me.event
<1>1. me \in Worker /\ me.pc = "rules" /\ workers \in [Workers -> Worker]
  BY DEF Begin, Typed, TypeOK
<1>2. PICK p \in me.left :
        LET x == <<p[1], runKey(e)>> IN
        /\ workers' = [workers EXCEPT
               ![w].left = @ \ {p}, ![w].rule = p[1], ![w].ver = p[2],
               ![w].pc = IF ~made(x) THEN "plan"
                         ELSE IF runs[x].status = "RUNNING" THEN "close" ELSE "collect"]
        /\ runs' = IF made(x) THEN runs
                   ELSE Put(runs, x, [event |-> e, ver |-> p[2], actions |-> 0,
                                      logs |-> {}, status |-> "RUNNING"])
  BY DEF Begin
<1> DEFINE x == <<p[1], runKey(e)>>
           place == IF ~made(x) THEN "plan"
                    ELSE IF runs[x].status = "RUNNING" THEN "close" ELSE "collect"
<1>3. workers' = [workers EXCEPT ![w].left = @ \ {p}, ![w].rule = p[1], ![w].ver = p[2],
                                 ![w].pc = place]
  BY <1>2
<1>4. DOMAIN runs \subseteq DOMAIN runs'
  BY <1>2 DEF Put
<1>5. UNCHANGED <<acted, again>>
  BY DEF Begin, seen
<1>6. \A v \in Workers \ {w} : workers'[v] = workers[v]
  BY <1>1, <1>3
<1>7. CASE made(x)
  <2>1. place \in {"close", "collect"}
    BY <1>7
  <2> HIDE DEF place
  <2>2. workers'[w].pc = place
    BY <1>1, <1>3 DEF Worker
  <2>3. \A v \in Workers : Keeps(v)
    BY <1>6, <2>1, <2>2, OneStops DEF Performing
  <2> QED  BY <1>4, <1>5, <2>3, OnceKept
<1>8. CASE ~made(x)
  <2>1. x \notin DOMAIN runs
    BY <1>8 DEF made
  <2>2. place = "plan"
    BY <1>8
  <2> HIDE DEF place
  <2>3. workers'[w].pc = "plan" /\ workers'[w].rule = p[1] /\ workers'[w].event = e
    BY <1>1, <1>3, <2>2 DEF Worker
  <2>4. runOf(w)' = x
    BY <2>3 DEF runOf
  <2>5. ASSUME NEW v \in Workers \ {w}, workers'[v].pc \in Performing
        PROVE  runOf(v)' # x /\ workers[v].pc \in Performing
    <3>1. workers'[v] = workers[v]
      BY <1>6
    <3>2. runOf(v) \in DOMAIN runs
      BY <2>5, <3>1 DEF Typed, Holding, OnARule, Performing, PCs, runOf
    <3>3. runOf(v)' = runOf(v)
      BY <3>1 DEF runOf
    <3> QED  BY <2>1, <2>5, <3>1, <3>2, <3>3
  <2>6. ASSUME NEW v \in Workers, NEW u \in Workers, v # u,
               {workers'[v].pc, workers'[u].pc} \subseteq Performing
        PROVE  runOf(v)' # runOf(u)'
    <3>1. CASE v = w
      BY <2>4, <2>5, <2>6, <3>1
    <3>2. CASE u = w
      BY <2>4, <2>5, <2>6, <3>2
    <3>3. CASE v # w /\ u # w
      <4>1. workers'[v] = workers[v] /\ workers'[u] = workers[u]
        BY <1>6, <3>3
      <4>2. runOf(v)' = runOf(v) /\ runOf(u)' = runOf(u)
        BY <4>1 DEF runOf
      <4> QED  BY <2>6, <4>1, <4>2 DEF Once
    <3> QED  BY <3>1, <3>2, <3>3
  <2>7. ASSUME NEW v \in Workers, workers'[v].pc \in Performing, NEW i \in ahead(v)'
        PROVE  <<workers'[v].rule, runKey(workers'[v].event), i>> \notin acted'
    <3>1. CASE v = w
      <4> DEFINE a == <<p[1], runKey(e), i>>
      <4>1. a \notin acted
        <5>1. <<a[1], a[2]>> \notin DOMAIN runs
          BY <2>1
        <5> QED  BY <5>1 DEF Once
      <4> QED  BY <1>5, <2>3, <3>1, <4>1
    <3>2. CASE v # w
      <4>1. workers'[v] = workers[v]
        BY <1>6, <3>2
      <4> QED  BY <1>5, <2>7, <4>1 DEF Once, ahead
    <3> QED  BY <3>1, <3>2
  <2>8. \A a \in acted' : <<a[1], a[2]>> \in DOMAIN runs'
    BY <1>4, <1>5 DEF Once
  <2>9. again' = {}
    BY <1>5 DEF Once
  <2> QED  BY <2>6, <2>7, <2>8, <2>9 DEF Once
<1> QED  BY <1>7, <1>8

\* The step performed was one the worker had ahead of it, so it had not been
\* done; and it is not ahead of anybody now.
LEMMA ActOnce ==
    ASSUME Typed, Once, NEW w \in Workers, Act(w)
    PROVE  Once'
<1> DEFINE me == workers[w]
<1>1. me \in Worker /\ me.pc = "act" /\ workers \in [Workers -> Worker]
  BY DEF Act, Typed, TypeOK
<1>2. PICK i \in me.todo, ok \in BOOLEAN, wrote \in BOOLEAN : ActWith(w, i, ok, wrote)
  BY DEF Act
<1> DEFINE a == <<me.rule, runKey(me.event), i>>
           completes == wrote /\ Kind[Steps[me.ver][i]] = "complete"
           found == me.found \/ completes
           line == [step |-> i, ok |-> ok,
                    events |-> raisedBy(me, Steps[me.ver][i], ok, completes)]
<1>3. workers' = [workers EXCEPT ![w].pc = "log", ![w].todo = @ \ {i}, ![w].found = found,
                                 ![w].line = line]
  BY <1>2 DEF ActWith
<1>4. acted' = acted \cup {a} /\ again' = again \cup ({a} \cap acted)
  BY <1>2 DEF ActWith
<1>5. DOMAIN runs' = DOMAIN runs
  BY DEF Act
<1> HIDE DEF found, line
<1>6. /\ workers'[w].pc = "log" /\ workers'[w].todo = me.todo \ {i}
      /\ workers'[w].rule = me.rule /\ workers'[w].event = me.event
  BY <1>1, <1>3 DEF Worker
<1>7. \A v \in Workers \ {w} : workers'[v] = workers[v]
  BY <1>1, <1>3
<1>8. \A v \in Workers : Keeps(v)
  <2>1. Keeps(w)
    BY <1>1, <1>6 DEF Keeps, ahead, Performing
  <2>2. \A v \in Workers \ {w} : Keeps(v)
    BY <1>7 DEF Keeps, ahead
  <2> QED  BY <2>1, <2>2
<1>9. a \notin acted
  BY <1>1 DEF Once, ahead, Performing
<1>10. \A v \in Workers : runOf(v)' = runOf(v)
  <2>1. runOf(w)' = runOf(w)
    BY <1>6 DEF runOf
  <2> QED  BY <1>7, <2>1 DEF runOf
<1>11. ASSUME NEW v \in Workers, NEW u \in Workers, v # u,
              {workers'[v].pc, workers'[u].pc} \subseteq Performing
       PROVE  runOf(v)' # runOf(u)'
  <2>1. {workers[v].pc, workers[u].pc} \subseteq Performing
    BY <1>8, <1>11 DEF Keeps
  <2> QED  BY <1>10, <1>11, <2>1 DEF Once
<1>12. ASSUME NEW v \in Workers, workers'[v].pc \in Performing, NEW j \in ahead(v)'
       PROVE  <<workers'[v].rule, runKey(workers'[v].event), j>> \notin acted'
  <2> DEFINE b == <<workers'[v].rule, runKey(workers'[v].event), j>>
  <2>1. b \notin acted
    BY <1>8, <1>12 DEF Keeps, Once
  <2>2. b # a
    <3>1. CASE v = w
      BY <1>6, <1>12, <3>1 DEF ahead
    <3>2. CASE v # w
      <4>1. workers[v].pc \in Performing /\ me.pc \in Performing
        BY <1>1, <1>8, <1>12 DEF Keeps, Performing
      <4>2. runOf(v) # runOf(w)
        BY <3>2, <4>1 DEF Once
      <4>3. workers'[v] = workers[v]
        BY <1>7, <3>2
      <4> QED  BY <4>2, <4>3 DEF runOf
    <3> QED  BY <3>1, <3>2
  <2> QED  BY <1>4, <2>1, <2>2
<1>13. \A b \in acted' : <<b[1], b[2]>> \in DOMAIN runs'
  <2>1. <<a[1], a[2]>> \in DOMAIN runs
    BY <1>1 DEF Typed, Holding, OnARule, PCs
  <2> QED  BY <1>4, <1>5, <2>1 DEF Once
<1>14. again' = {}
  BY <1>4, <1>9 DEF Once
<1> QED  BY <1>11, <1>12, <1>13, <1>14 DEF Once

\* Every step keeps Once.
LEMMA OnceStep == Typed /\ Once /\ [Next]_vars => Once'
<1> SUFFICES ASSUME Typed, Once, [Next]_vars PROVE Once'
  OBVIOUS
<1>1. ASSUME NEW w \in Workers, Step(w) PROVE Once'
  BY <1>1, BeginOnce, ActOnce, StopsOnce, GoesOnOnce DEF Step
<1>2. CASE Take \/ Clock \/ People \/ UNCHANGED vars
  BY <1>2, ElsewhereOnce
<1>3. CASE Misfortune
  BY <1>3, StopsOnce, GoesOnOnce, ElsewhereOnce DEF Misfortune
<1> QED  BY <1>1, <1>2, <1>3 DEF Next

\* No step of a rule acts twice on one event, however many workers, retries,
\* stalls, forgotten jobs and republished rules there are: the run's unique key
\* is claimed before its first step, and only by the worker that performs it.
THEOREM StepsActOnce == Spec => []NoStepTwice
<1>1. Init => Once
  BY DEF Init, Once, Performing, Idle
<1>2. Once => NoStepTwice
  BY DEF Once, NoStepTwice
<1> QED  BY TypedInit, TypedStep, <1>1, OnceStep, <1>2, PTL DEF Spec

----------------------------------------------------------------------------
(* Whole: what a worker writes of the run it made.                         *)

\* The places where a worker makes a run: it inserted the row, and has not closed it.
Making == {"plan", "act", "log", "count", "refuse", "wait", "finish"}

\* The steps a worker means to perform whose lines are not written.
unlogged(w) ==
    workers[w].todo \cup (IF workers[w].pc = "log" THEN {workers[w].line.step} ELSE {})

succeeded(x) == {l.step : l \in {k \in runs[x].logs : k.ok}}

\* The run a worker makes has its event and version; every step it may perform is
\* one of its plan; and those performed with success and those ahead are all of the
\* plan, unless it was cut or one failed.
Tells(w) ==
    LET me == workers[w]
        run == runs[runOf(w)]
        plan == segment(me.ver, me.event) IN
    /\ run.ver = me.ver /\ run.event = me.event /\ run.status # "COMPLETED"
    /\ me.pc = "plan" => run.logs = {}
    /\ me.pc # "plan" =>
        /\ unlogged(w) \subseteq plan
        /\ ~me.cut /\ me.bad = 0 => succeeded(runOf(w)) \cup unlogged(w) = plan
    /\ me.pc \in {"count", "refuse", "wait", "finish"} => me.todo = {}

\* A run is filed under its rule and its event's key, has lines of its plan only,
\* and is complete if it says so.
InOrder(x) ==
    LET run == runs[x] IN
    /\ x[2] = runKey(run.event)
    /\ \A l \in run.logs : l.step \in segment(run.ver, run.event)
    /\ run.status = "COMPLETED" => succeeded(x) = segment(run.ver, run.event)

\* No two workers make the same run.
Apart ==
    \A w, v \in Workers :
        w # v /\ {workers[w].pc, workers[v].pc} \subseteq Making => runOf(w) # runOf(v)

Whole ==
    /\ Apart
    /\ \A w \in Workers : workers[w].pc \in Making => Tells(w)
    /\ \A x \in DOMAIN runs : InOrder(x)

\* A worker makes nothing it was not making, and holds what it held of it.
GoesOn(v) ==
    workers'[v].pc \in Making =>
        LET me == workers[v]  now == workers'[v] IN
        /\ me.pc \in Making
        /\ now.rule = me.rule /\ now.event = me.event /\ now.ver = me.ver
        /\ now.cut = me.cut /\ now.bad = me.bad
        /\ now.pc = "plan" <=> me.pc = "plan"
        /\ unlogged(v)' = unlogged(v)
        /\ now.pc \in {"count", "refuse", "wait", "finish"} => now.todo = {}

\* A run keeps what it tells, and is called complete only if it was or may be.
Stays(x) ==
    /\ x \in DOMAIN runs'
    /\ runs'[x].ver = runs[x].ver /\ runs'[x].event = runs[x].event /\ runs'[x].logs = runs[x].logs
    /\ runs'[x].status = "COMPLETED" =>
         \/ runs[x].status = "COMPLETED"
         \/ /\ succeeded(x) = segment(runs[x].ver, runs[x].event)
            /\ \A v \in Workers : workers'[v].pc \in Making => runOf(v)' # x

\* Nobody took up a run another makes.
LEMMA ApartKept ==
    ASSUME Apart,
           \A v \in Workers : workers'[v].pc \in Making =>
               workers[v].pc \in Making /\ runOf(v)' = runOf(v)
    PROVE  Apart'
BY DEF Apart

\* A worker that goes on tells what it told.
LEMMA TellsKept ==
    ASSUME NEW v \in Workers, workers'[v].pc \in Making, Tells(v), GoesOn(v), Stays(runOf(v))
    PROVE  Tells(v)'
<1> DEFINE me == workers[v]
           now == workers'[v]
           x == runOf(v)
<1>1. runOf(v)' = x
  BY DEF GoesOn, runOf
<1>2. /\ now.ver = me.ver /\ now.event = me.event
      /\ now.cut = me.cut /\ now.bad = me.bad
      /\ now.pc = "plan" <=> me.pc = "plan"
      /\ unlogged(v)' = unlogged(v)
      /\ now.pc \in {"count", "refuse", "wait", "finish"} => now.todo = {}
  BY DEF GoesOn
<1>3. /\ runs'[x].ver = runs[x].ver /\ runs'[x].event = runs[x].event
      /\ runs'[x].logs = runs[x].logs
  BY DEF Stays
<1>4. runs'[x].status # "COMPLETED"
  BY <1>1 DEF Stays, Tells
<1>5. succeeded(x)' = succeeded(x)
  BY <1>1, <1>3 DEF succeeded, runOf
<1>6. segment(now.ver, now.event) = segment(me.ver, me.event)
  BY <1>2
<1> QED  BY <1>1, <1>2, <1>3, <1>4, <1>5, <1>6 DEF Tells

\* A run that stays is as it should be.
LEMMA InOrderKept ==
    ASSUME NEW x \in DOMAIN runs, InOrder(x), Stays(x)
    PROVE  InOrder(x)'
BY DEF InOrder, Stays, succeeded

\* A run that has just been recorded has no lines.
LEMMA InOrderNew ==
    ASSUME NEW x, x[2] = runKey(runs'[x].event), runs'[x].logs = {}, runs'[x].status # "COMPLETED"
    PROVE  InOrder(x)'
BY DEF InOrder

\* Whole is kept where every worker goes on and every run stays.
LEMMA WholeKept ==
    ASSUME Whole, \A v \in Workers : GoesOn(v), \A x \in DOMAIN runs : Stays(x),
           \A v \in Workers : workers[v].pc \in Making => runOf(v) \in DOMAIN runs,
           \A x \in DOMAIN runs' \ DOMAIN runs :
               x[2] = runKey(runs'[x].event) /\ runs'[x].logs = {} /\ runs'[x].status # "COMPLETED"
    PROVE  Whole'
<1>1. \A v \in Workers : workers'[v].pc \in Making =>
        workers[v].pc \in Making /\ runOf(v)' = runOf(v)
  BY DEF GoesOn, runOf
<1>2. Apart'
  BY <1>1, ApartKept DEF Whole
<1>3. \A v \in Workers : workers'[v].pc \in Making => Tells(v)'
  BY <1>1, TellsKept DEF Whole
<1>4. \A x \in DOMAIN runs' : InOrder(x)'
  BY InOrderKept, InOrderNew DEF Whole
<1> QED  BY <1>2, <1>3, <1>4 DEF Whole

\* A worker that did not move, or is not making a run, goes on.
LEMMA RestGoOn ==
    ASSUME Whole, NEW v \in Workers, workers'[v] = workers[v] \/ workers'[v].pc \notin Making
    PROVE  GoesOn(v)
<1>1. CASE workers'[v].pc \notin Making
  BY <1>1 DEF GoesOn
<1>2. CASE workers'[v] = workers[v] /\ workers[v].pc \in Making
  <2>1. unlogged(v)' = unlogged(v)
    BY <1>2 DEF unlogged
  <2>2. workers[v].pc \in {"count", "refuse", "wait", "finish"} => workers[v].todo = {}
    BY <1>2 DEF Whole, Tells
  <2> QED  BY <1>2, <2>1, <2>2 DEF GoesOn
<1> QED  BY <1>1, <1>2

\* Where the runs are as they were, or one has another status that is not COMPLETED.
LEMMA RestStays ==
    ASSUME Typed, runs' = runs \/ \E x \in DOMAIN runs, status \in {"FAILED", "SKIPPED"} :
               runs' = [runs EXCEPT ![x].status = status]
    PROVE  DOMAIN runs' = DOMAIN runs /\ \A x \in DOMAIN runs : Stays(x)
<1>1. CASE runs' = runs
  BY <1>1 DEF Stays
<1>2. ASSUME NEW x \in DOMAIN runs, NEW status \in {"FAILED", "SKIPPED"},
             runs' = [runs EXCEPT ![x].status = status]
      PROVE  DOMAIN runs' = DOMAIN runs /\ \A y \in DOMAIN runs : Stays(y)
  <2>1. DOMAIN runs' = DOMAIN runs /\ \A y \in DOMAIN runs \ {x} : runs'[y] = runs[y]
    BY <1>2
  <2>2. runs[x] \in Run /\ runs'[x] = [runs[x] EXCEPT !.status = status]
    BY <1>2 DEF Typed, TypeOK
  <2>3. /\ runs'[x].ver = runs[x].ver /\ runs'[x].event = runs[x].event
        /\ runs'[x].logs = runs[x].logs /\ runs'[x].status = status
    BY <2>2 DEF Run
  <2> QED  BY <2>1, <2>3 DEF Stays
<1> QED  BY <1>1, <1>2

\* A worker with a rule in hand has a run of it on record.
LEMMA InHand ==
    ASSUME Typed, NEW w \in Workers, workers[w].pc \in OnARule
    PROVE  runOf(w) \in DOMAIN runs /\ workers[w].ver \in Versions /\ workers[w].event \in Events
           /\ workers[w].rule \in Rules
BY DEF Typed, Holding, OnARule, PCs, runOf

\* A worker that makes a run has it in hand.
LEMMA MakingIsInHand == Making \subseteq OnARule
BY DEF Making, OnARule, PCs

\* A worker closes a run it does not call complete, or is not making one.
LEMMA StopsWhole ==
    ASSUME Typed, Whole, NEW w \in Workers,
           \/ CloseStopped(w) \/ Collect(w) \/ Skip(w) \/ Refuse(w) \/ RulesThrough(w)
           \/ PublishNext(w) \/ LoseAdd(w) \/ Settle(w) \/ Throw(w) \/ Kill(w)
    PROVE  Whole'
<1>1. workers \in [Workers -> Worker] /\ workers[w] \in Worker
  BY DEF Typed, TypeOK
<1>2. \A v \in Workers \ {w} : workers'[v] = workers[v]
  BY <1>1 DEF CloseStopped, Collect, Skip, Refuse, RulesThrough, PublishNext, LoseAdd, Settle, Throw, Kill
<1>3. workers'[w].pc \notin Making
  <2>1. CASE CloseStopped(w) \/ Collect(w) \/ Skip(w) \/ Refuse(w) \/ RulesThrough(w)
    <3>1. workers'[w].pc \in {"collect", "rules", "publish"}
      BY <1>1, <2>1 DEF CloseStopped, Collect, Skip, Refuse, RulesThrough, Worker
    <3> QED  BY <3>1 DEF Making
  <2>2. CASE PublishNext(w) \/ LoseAdd(w)
    <3>1. workers[w].pc = "publish" /\ \E e : workers' = [workers EXCEPT ![w].out = @ \ {e}]
      BY <2>2 DEF PublishNext, LoseAdd
    <3>2. workers'[w].pc = "publish"
      BY <1>1, <3>1 DEF Worker
    <3> QED  BY <3>2 DEF Making
  <2>3. CASE Settle(w) \/ Throw(w) \/ Kill(w)
    <3>1. workers'[w] = Idle
      BY <1>1, <2>3 DEF Settle, Throw, Kill
    <3> QED  BY <3>1 DEF Making, Idle
  <2> QED  BY <2>1, <2>2, <2>3
<1>4. \A v \in Workers : GoesOn(v)
  BY <1>2, <1>3, RestGoOn
<1>5. runs' = runs \/ \E x \in DOMAIN runs, status \in {"FAILED", "SKIPPED"} :
          runs' = [runs EXCEPT ![x].status = status]
  <2>1. CASE CloseStopped(w) \/ Skip(w) \/ Refuse(w)
    <3>1. runOf(w) \in DOMAIN runs
      BY <2>1, InHand DEF CloseStopped, Skip, Refuse, OnARule, PCs
    <3> QED  BY <2>1, <3>1 DEF CloseStopped, Skip, Refuse
  <2>2. CASE Collect(w) \/ RulesThrough(w) \/ PublishNext(w) \/ LoseAdd(w) \/ Settle(w)
             \/ Throw(w) \/ Kill(w)
    BY <2>2 DEF Collect, RulesThrough, PublishNext, LoseAdd, Settle, Throw, Kill, db
  <2> QED  BY <2>1, <2>2
<1>6. \A v \in Workers : workers[v].pc \in Making => runOf(v) \in DOMAIN runs
  BY InHand, MakingIsInHand
<1>7. DOMAIN runs' = DOMAIN runs /\ \A x \in DOMAIN runs : Stays(x)
  BY <1>5, RestStays
<1> QED  BY <1>4, <1>6, <1>7, WholeKept

\* A step is performed, the count recorded, a row left at the Wait, a lock lost.
LEMMA GoesOnWhole ==
    ASSUME Typed, Whole, NEW w \in Workers, Act(w) \/ Count(w) \/ ScheduleDelays(w) \/ Stall(w)
    PROVE  Whole'
<1> DEFINE me == workers[w]
<1>1. workers \in [Workers -> Worker] /\ me \in Worker
  BY DEF Typed, TypeOK
<1>2. \A v \in Workers : workers[v].pc \in Making => runOf(v) \in DOMAIN runs
  BY InHand, MakingIsInHand
<1>3. \A v \in Workers \ {w} : GoesOn(v)
  <2>1. \A v \in Workers \ {w} : workers'[v] = workers[v]
    BY <1>1, ZenonT(30) DEF Act, ActWith, Count, ScheduleDelays, Stall
  <2> QED  BY <2>1, RestGoOn
<1>4. CASE Act(w)
  <2>1. PICK i \in me.todo, ok \in BOOLEAN, wrote \in BOOLEAN : ActWith(w, i, ok, wrote)
    BY <1>4 DEF Act
  <2> DEFINE completes == wrote /\ Kind[Steps[me.ver][i]] = "complete"
             found == me.found \/ completes
             line == [step |-> i, ok |-> ok,
                      events |-> raisedBy(me, Steps[me.ver][i], ok, completes)]
  <2>2. workers' = [workers EXCEPT ![w].pc = "log", ![w].todo = @ \ {i}, ![w].found = found,
                                   ![w].line = line]
    BY <2>1 DEF ActWith
  <2>3. line.step = i
    OBVIOUS
  <2> HIDE DEF found, line
  <2>4. /\ workers'[w].pc = "log" /\ workers'[w].todo = me.todo \ {i} /\ workers'[w].line = line
        /\ workers'[w].rule = me.rule /\ workers'[w].event = me.event /\ workers'[w].ver = me.ver
        /\ workers'[w].cut = me.cut /\ workers'[w].bad = me.bad
    BY <1>1, <2>2 DEF Worker
  <2>5. unlogged(w)' = unlogged(w)
    BY <1>4, <2>1, <2>3, <2>4 DEF unlogged, Act
  <2>6. GoesOn(w)
    BY <1>4, <2>4, <2>5 DEF GoesOn, Making, Act
  <2>7. runs' = runs
    BY <1>4 DEF Act
  <2> QED  BY <1>2, <1>3, <2>6, <2>7, RestStays, WholeKept
<1>5. CASE Count(w)
  <2> DEFINE x == runOf(w)
             place == IF me.did = 0 /\ me.cut THEN "refuse" ELSE afterSteps(me.ver, me.event)
  <2>1. place \in {"refuse", "finish", "wait"}
    BY DEF afterSteps
  <2>2. workers' = [workers EXCEPT ![w].pc = place]
    BY <1>5 DEF Count
  <2> HIDE DEF place
  <2>3. /\ workers'[w].pc = place /\ workers'[w].todo = me.todo
        /\ workers'[w].rule = me.rule /\ workers'[w].event = me.event /\ workers'[w].ver = me.ver
        /\ workers'[w].cut = me.cut /\ workers'[w].bad = me.bad
    BY <1>1, <2>2 DEF Worker
  <2>4. me.pc = "count" /\ me.todo = {}
    BY <1>5 DEF Count, Whole, Tells, Making
  <2>5. GoesOn(w)
    BY <2>1, <2>3, <2>4 DEF GoesOn, Making, unlogged
  <2>6. x \in DOMAIN runs
    BY <1>2, <2>4 DEF Making
  <2>7. DOMAIN runs' = DOMAIN runs /\ \A y \in DOMAIN runs : Stays(y)
    <3>1. runs' = [runs EXCEPT ![x].actions = me.did]
      BY <1>5 DEF Count
    <3>2. DOMAIN runs' = DOMAIN runs /\ \A y \in DOMAIN runs \ {x} : runs'[y] = runs[y]
      BY <3>1
    <3>3. runs[x] \in Run /\ runs'[x] = [runs[x] EXCEPT !.actions = me.did]
      BY <2>6, <3>1 DEF Typed, TypeOK
    <3>4. /\ runs'[x].ver = runs[x].ver /\ runs'[x].event = runs[x].event
          /\ runs'[x].logs = runs[x].logs /\ runs'[x].status = runs[x].status
      BY <3>3 DEF Run
    <3> QED  BY <3>2, <3>4 DEF Stays
  <2> QED  BY <1>2, <1>3, <2>5, <2>7, WholeKept
<1>6. CASE ScheduleDelays(w)
  <2>1. /\ workers'[w].pc = "finish" /\ workers'[w].todo = me.todo
        /\ workers'[w].rule = me.rule /\ workers'[w].event = me.event /\ workers'[w].ver = me.ver
        /\ workers'[w].cut = me.cut /\ workers'[w].bad = me.bad
    BY <1>1, <1>6 DEF ScheduleDelays, Worker
  <2>2. me.pc = "wait" /\ me.todo = {}
    BY <1>6 DEF ScheduleDelays, Whole, Tells, Making
  <2>3. GoesOn(w)
    BY <2>1, <2>2 DEF GoesOn, Making, unlogged
  <2>4. runs' = runs
    BY <1>6 DEF ScheduleDelays
  <2> QED  BY <1>2, <1>3, <2>3, <2>4, RestStays, WholeKept
<1>7. CASE Stall(w)
  <2>1. /\ workers'[w].pc = me.pc /\ workers'[w].todo = me.todo /\ workers'[w].line = me.line
        /\ workers'[w].rule = me.rule /\ workers'[w].event = me.event /\ workers'[w].ver = me.ver
        /\ workers'[w].cut = me.cut /\ workers'[w].bad = me.bad
    BY <1>1, <1>7 DEF Stall, Worker
  <2>2. unlogged(w)' = unlogged(w)
    BY <2>1 DEF unlogged
  <2>3. me.pc \in {"count", "refuse", "wait", "finish"} => me.todo = {}
    BY DEF Whole, Tells, Making
  <2>4. GoesOn(w)
    BY <2>1, <2>2, <2>3 DEF GoesOn
  <2>5. runs' = runs
    BY <1>7 DEF Stall, db
  <2> QED  BY <1>2, <1>3, <2>4, <2>5, RestStays, WholeKept
<1> QED  BY <1>4, <1>5, <1>6, <1>7

\* A run is made: nobody makes it yet, and it has no lines.
LEMMA BeginWhole ==
    ASSUME Typed, Whole, NEW w \in Workers, Begin(w)
    PROVE  Whole'
<1> DEFINE me == workers[w]
           e == me.event
<1>1. me \in Worker /\ me.pc = "rules" /\ workers \in [Workers -> Worker]
  BY DEF Begin, Typed, TypeOK
<1>2. PICK p \in me.left :
        LET x == <<p[1], runKey(e)>> IN
        /\ workers' = [workers EXCEPT
               ![w].left = @ \ {p}, ![w].rule = p[1], ![w].ver = p[2],
               ![w].pc = IF ~made(x) THEN "plan"
                         ELSE IF runs[x].status = "RUNNING" THEN "close" ELSE "collect"]
        /\ runs' = IF made(x) THEN runs
                   ELSE Put(runs, x, [event |-> e, ver |-> p[2], actions |-> 0,
                                      logs |-> {}, status |-> "RUNNING"])
  BY DEF Begin
<1> DEFINE x == <<p[1], runKey(e)>>
           place == IF ~made(x) THEN "plan"
                    ELSE IF runs[x].status = "RUNNING" THEN "close" ELSE "collect"
<1>3. workers' = [workers EXCEPT ![w].left = @ \ {p}, ![w].rule = p[1], ![w].ver = p[2],
                                 ![w].pc = place]
  BY <1>2
<1>4. \A v \in Workers \ {w} : workers'[v] = workers[v]
  BY <1>1, <1>3
<1>5. \A v \in Workers : workers[v].pc \in Making => runOf(v) \in DOMAIN runs
  BY InHand, MakingIsInHand
<1>6. \A v \in Workers \ {w} : GoesOn(v)
  BY <1>4, RestGoOn
<1>7. CASE made(x)
  <2>1. place \in {"close", "collect"}
    BY <1>7
  <2> HIDE DEF place
  <2>2. workers'[w].pc = place
    BY <1>1, <1>3 DEF Worker
  <2>3. \A v \in Workers : GoesOn(v)
    BY <1>6, <2>1, <2>2, RestGoOn DEF Making
  <2>4. runs' = runs
    BY <1>2, <1>7
  <2> QED  BY <1>5, <2>3, <2>4, RestStays, WholeKept
<1>8. CASE ~made(x)
  <2>1. x \notin DOMAIN runs
    BY <1>8 DEF made
  <2> DEFINE new == [event |-> e, ver |-> p[2], actions |-> 0, logs |-> {}, status |-> "RUNNING"]
  <2>2. runs' = Put(runs, x, new)
    BY <1>2, <1>8
  <2>3. place = "plan"
    BY <1>8
  <2> HIDE DEF place
  <2>4. /\ workers'[w].pc = "plan" /\ workers'[w].rule = p[1] /\ workers'[w].event = e
        /\ workers'[w].ver = p[2]
    BY <1>1, <1>3, <2>3 DEF Worker
  <2>5. runOf(w)' = x
    BY <2>4 DEF runOf
  <2>6. /\ DOMAIN runs' = DOMAIN runs \cup {x} /\ runs'[x] = new
        /\ \A y \in DOMAIN runs : runs'[y] = runs[y]
    BY <2>1, <2>2 DEF Put
  <2>7. \A y \in DOMAIN runs : Stays(y)
    BY <2>6 DEF Stays
  <2>8. ASSUME NEW v \in Workers \ {w}, workers'[v].pc \in Making
        PROVE  workers[v].pc \in Making /\ runOf(v)' # x /\ runOf(v)' = runOf(v)
    <3>1. workers'[v] = workers[v]
      BY <1>4
    <3> QED  BY <1>5, <2>1, <2>8, <3>1 DEF runOf
  <2>9. Apart'
    <3> SUFFICES ASSUME NEW v \in Workers, NEW u \in Workers, v # u,
                        {workers'[v].pc, workers'[u].pc} \subseteq Making
                 PROVE  runOf(v)' # runOf(u)'
      BY DEF Apart
    <3>1. CASE v = w \/ u = w
      BY <2>5, <2>8, <3>1
    <3>2. CASE v # w /\ u # w
      BY <2>8, <3>2 DEF Whole, Apart
    <3> QED  BY <3>1, <3>2
  <2>10. ASSUME NEW v \in Workers, workers'[v].pc \in Making
         PROVE  Tells(v)'
    <3>1. CASE v = w
      BY <2>4, <2>5, <2>6, <3>1 DEF Tells
    <3>2. CASE v # w
      <4>1. Tells(v) /\ runOf(v) \in DOMAIN runs
        BY <1>5, <2>8, <2>10, <3>2 DEF Whole
      <4> QED  BY <1>6, <2>7, <2>10, <3>2, <4>1, TellsKept
    <3> QED  BY <3>1, <3>2
  <2>11. x[2] = runKey(runs'[x].event) /\ runs'[x].logs = {} /\ runs'[x].status # "COMPLETED"
    BY <2>6
  <2>12. DOMAIN runs' = DOMAIN runs \cup {x}
    BY <2>6
  <2> HIDE DEF x, new
  <2>13. ASSUME NEW y \in DOMAIN runs' PROVE InOrder(y)'
    <3>1. CASE y = x
      BY <2>11, <3>1, InOrderNew
    <3>2. CASE y \in DOMAIN runs
      BY <2>7, <3>2, InOrderKept DEF Whole
    <3> QED  BY <2>12, <3>1, <3>2
  <2> QED  BY <2>9, <2>10, <2>13 DEF Whole
<1> QED  BY <1>7, <1>8

\* The steps to perform are of the plan, and all of it unless the plan is cut.
LEMMA PlanWhole ==
    ASSUME Typed, Whole, NEW w \in Workers, Plan(w)
    PROVE  Whole'
<1> DEFINE me == workers[w]
           seg == segment(me.ver, me.event)
           do == {i \in seg : Cardinality({j \in seg : j < i}) < allowance(runOf(w))}
           place == IF seg = {} THEN afterSteps(me.ver, me.event)
                    ELSE IF do = {} THEN "count" ELSE "act"
           cut == do # seg
<1>1. me \in Worker /\ me.pc = "plan" /\ workers \in [Workers -> Worker]
  BY DEF Plan, Typed, TypeOK
<1>2. workers' = [workers EXCEPT ![w].todo = do, ![w].cut = cut, ![w].did = 0,
                                 ![w].bad = 0, ![w].pc = place]
  BY DEF Plan
<1>3. place \in {"finish", "wait", "count", "act"} /\ (place # "act" => do = {})
  BY DEF afterSteps
<1>4. do \subseteq seg /\ (~cut => do = seg)
  OBVIOUS
<1> HIDE DEF do, place, cut
<1>5. /\ workers'[w].pc = place /\ workers'[w].todo = do /\ workers'[w].cut = cut
      /\ workers'[w].rule = me.rule /\ workers'[w].event = me.event /\ workers'[w].ver = me.ver
  BY <1>1, <1>2 DEF Worker
<1>6. \A v \in Workers \ {w} : workers'[v] = workers[v]
  BY <1>1, <1>2
<1>7. \A v \in Workers \ {w} : GoesOn(v)
  BY <1>6, RestGoOn
<1>8. runs' = runs
  BY DEF Plan, db
<1>9. DOMAIN runs' = DOMAIN runs /\ \A y \in DOMAIN runs : Stays(y)
  BY <1>8, RestStays
<1>10. me.pc \in Making /\ runOf(w)' = runOf(w)
  BY <1>1, <1>5 DEF Making, runOf
<1>11. \A v \in Workers : workers'[v].pc \in Making =>
           workers[v].pc \in Making /\ runOf(v)' = runOf(v)
  BY <1>6, <1>10 DEF runOf
<1>12. Apart'
  BY <1>11, ApartKept DEF Whole
<1>13. Tells(w)'
  <2> DEFINE run == runs[runOf(w)]
  <2>1. /\ run.ver = me.ver /\ run.event = me.event /\ run.status # "COMPLETED"
        /\ run.logs = {}
    BY <1>1, <1>10 DEF Whole, Tells
  <2>2. succeeded(runOf(w))' = {}
    BY <1>8, <1>10, <2>1 DEF succeeded
  <2>3. unlogged(w)' = do
    BY <1>3, <1>5 DEF unlogged
  <2> HIDE DEF seg
  <2>4. segment(workers[w].ver, workers[w].event)' = seg
    BY <1>5 DEF seg
  <2> QED  BY <1>3, <1>4, <1>5, <1>8, <1>10, <2>1, <2>2, <2>3, <2>4 DEF Tells
<1>14. ASSUME NEW v \in Workers \ {w}, workers'[v].pc \in Making PROVE Tells(v)'
  <2>1. Tells(v) /\ runOf(v) \in DOMAIN runs
    BY <1>11, <1>14, InHand, MakingIsInHand DEF Whole
  <2> QED  BY <1>7, <1>9, <1>14, <2>1, TellsKept
<1>15. \A y \in DOMAIN runs' : InOrder(y)'
  BY <1>9, InOrderKept DEF Whole
<1> QED  BY <1>12, <1>13, <1>14, <1>15 DEF Whole

\* A line is written: its step is one of the plan, and counted as bad if it failed.
LEMMA LogWhole ==
    ASSUME Typed, Whole, NEW w \in Workers, Log(w)
    PROVE  Whole'
<1> DEFINE me == workers[w]
           x == runOf(w)
           place == IF me.todo = {} THEN "count" ELSE "act"
           bad == IF me.line.ok THEN me.bad ELSE me.bad + 1
           plan == segment(me.ver, me.event)
<1>1. me \in Worker /\ me.pc = "log" /\ workers \in [Workers -> Worker] /\ me.line \in Line
  BY DEF Log, Typed, TypeOK, Holding
<1>2. me.bad \in Nat /\ me.line.ok \in BOOLEAN
  BY <1>1 DEF Worker, Line
<1>3. x \in DOMAIN runs
  BY <1>1, InHand DEF OnARule, PCs
<1>4. /\ workers'[w].pc = place /\ workers'[w].todo = me.todo /\ workers'[w].cut = me.cut
      /\ workers'[w].bad = bad
      /\ workers'[w].rule = me.rule /\ workers'[w].event = me.event /\ workers'[w].ver = me.ver
  BY <1>1 DEF Log, Worker
<1>5. \A v \in Workers \ {w} : workers'[v] = workers[v]
  BY <1>1 DEF Log
<1>6. runOf(w)' = x
  BY <1>4 DEF runOf
<1>7. DOMAIN runs' = DOMAIN runs /\ \A y \in DOMAIN runs \ {x} : runs'[y] = runs[y]
  BY DEF Log
<1>8. /\ runs'[x].ver = runs[x].ver /\ runs'[x].event = runs[x].event
      /\ runs'[x].status = runs[x].status
      /\ runs'[x].logs = runs[x].logs \cup {me.line}
  <2>1. runs[x] \in Run /\ runs'[x] = [runs[x] EXCEPT !.logs = @ \cup {me.line}]
    BY <1>3 DEF Log, Typed, TypeOK
  <2> QED  BY <2>1 DEF Run
<1>9. /\ runs[x].ver = me.ver /\ runs[x].event = me.event /\ runs[x].status # "COMPLETED"
      /\ unlogged(w) = me.todo \cup {me.line.step} /\ unlogged(w) \subseteq plan
      /\ ~me.cut /\ me.bad = 0 => succeeded(x) \cup unlogged(w) = plan
  BY <1>1 DEF Whole, Tells, Making, unlogged
<1>10. \A v \in Workers : workers'[v].pc \in Making =>
           workers[v].pc \in Making /\ runOf(v)' = runOf(v)
  BY <1>1, <1>5, <1>6 DEF Making, runOf
<1>11. Apart'
  BY <1>10, ApartKept DEF Whole
<1>12. Tells(w)'
  <2>1. unlogged(w)' = me.todo
    BY <1>4 DEF unlogged
  <2>2. succeeded(x)' = IF me.line.ok THEN succeeded(x) \cup {me.line.step} ELSE succeeded(x)
    BY <1>6, <1>8 DEF succeeded, runOf
  <2>3. bad = 0 => me.line.ok /\ me.bad = 0
    BY <1>2
  <2>4. segment(workers[w].ver, workers[w].event)' = plan
    BY <1>4
  <2>5. succeeded(runOf(w))' = succeeded(x)'
    BY <1>6 DEF succeeded, runOf
  <2> HIDE DEF bad, plan
  <2> QED  BY <1>4, <1>6, <1>8, <1>9, <2>1, <2>2, <2>3, <2>4, <2>5 DEF Tells
<1>13. ASSUME NEW v \in Workers \ {w}, workers'[v].pc \in Making PROVE Tells(v)'
  <2>1. Tells(v) /\ runOf(v) \in DOMAIN runs
    BY <1>10, <1>13, InHand, MakingIsInHand DEF Whole
  <2>2. runOf(v) # x
    BY <1>1, <1>10, <1>13 DEF Whole, Apart, Making
  <2>3. Stays(runOf(v))
    BY <1>7, <2>1, <2>2 DEF Stays
  <2>4. GoesOn(v)
    BY <1>5, RestGoOn
  <2> QED  BY <1>13, <2>1, <2>3, <2>4, TellsKept
<1>14. ASSUME NEW y \in DOMAIN runs' PROVE InOrder(y)'
  <2>1. InOrder(y)
    BY <1>7 DEF Whole
  <2>2. CASE y = x
    <3>1. \A l \in runs'[x].logs : l.step \in plan
      BY <1>8, <1>9, <2>1, <2>2 DEF InOrder
    <3> HIDE DEF x, plan
    <3>2. plan = segment(runs'[x].ver, runs'[x].event)
      BY <1>8, <1>9 DEF plan
    <3> QED  BY <1>8, <1>9, <2>1, <2>2, <3>1, <3>2 DEF InOrder
  <2>3. CASE y # x
    <3>1. Stays(y)
      BY <1>7, <2>3 DEF Stays
    <3> QED  BY <1>7, <2>1, <3>1, InOrderKept
  <2> QED  BY <2>2, <2>3
<1> QED  BY <1>11, <1>12, <1>13, <1>14 DEF Whole

\* A run is called complete: nothing failed, nothing was cut, nothing is left.
LEMMA FinishWhole ==
    ASSUME Typed, Whole, NEW w \in Workers, Finish(w)
    PROVE  Whole'
<1> DEFINE me == workers[w]
           x == runOf(w)
           status == runStatus(me.did, me.bad, me.cut)
           plan == segment(me.ver, me.event)
<1>1. me \in Worker /\ me.pc = "finish" /\ workers \in [Workers -> Worker]
  BY DEF Finish, Typed, TypeOK
<1>2. x \in DOMAIN runs
  BY <1>1, InHand DEF OnARule, PCs
<1>3. workers'[w].pc = "rules" /\ \A v \in Workers \ {w} : workers'[v] = workers[v]
  BY <1>1 DEF Finish, Worker
<1>4. \A v \in Workers : GoesOn(v)
  BY <1>3, RestGoOn DEF Making
<1>5. \A v \in Workers : workers[v].pc \in Making => runOf(v) \in DOMAIN runs
  BY InHand, MakingIsInHand
<1>6. status = "COMPLETED" => succeeded(x) = segment(runs[x].ver, runs[x].event)
  <2>1. status = "COMPLETED" => me.bad = 0 /\ ~me.cut
    BY <1>1 DEF runStatus, Worker
  <2>2. unlogged(w) = {}
    BY <1>1 DEF Whole, Tells, Making, unlogged
  <2>3. runs[x].ver = me.ver /\ runs[x].event = me.event
        /\ (~me.cut /\ me.bad = 0 => succeeded(x) \cup unlogged(w) = plan)
    BY <1>1 DEF Whole, Tells, Making
  <2> QED  BY <2>1, <2>2, <2>3
<1>7. \A v \in Workers : workers'[v].pc \in Making => runOf(v)' # x
  <2> SUFFICES ASSUME NEW v \in Workers, workers'[v].pc \in Making PROVE runOf(v)' # x
    OBVIOUS
  <2>1. v # w /\ workers'[v] = workers[v]
    BY <1>3 DEF Making
  <2> QED  BY <1>1, <2>1 DEF Whole, Apart, Making, runOf
<1>8. DOMAIN runs' = DOMAIN runs /\ \A y \in DOMAIN runs \ {x} : runs'[y] = runs[y]
  BY DEF Finish
<1>9. /\ runs'[x].ver = runs[x].ver /\ runs'[x].event = runs[x].event
      /\ runs'[x].logs = runs[x].logs /\ runs'[x].status = status
  <2>1. runs[x] \in Run /\ runs'[x] = [runs[x] EXCEPT !.status = status]
    BY <1>2 DEF Finish, Typed, TypeOK
  <2> HIDE DEF status
  <2> QED  BY <2>1 DEF Run
<1>10. \A y \in DOMAIN runs : Stays(y)
  BY <1>6, <1>7, <1>8, <1>9 DEF Stays
<1> QED  BY <1>4, <1>5, <1>8, <1>10, WholeKept

----------------------------------------------------------------------------
\* A job is kept under its event's key.
Filed == \A k \in DOMAIN jobs : k = runKey(jobs[k].event)

\* A job keeps its event, and a new one is filed under its own.
LEMMA FiledKept ==
    ASSUME Filed,
           \A k \in DOMAIN jobs' : \/ k \in DOMAIN jobs /\ jobs'[k].event = jobs[k].event
                                   \/ k = runKey(jobs'[k].event)
    PROVE  Filed'
BY DEF Filed

\* Adding a job files it.
LEMMA EnqueueFiled ==
    ASSUME Filed, NEW e, Enqueue(e)
    PROVE  Filed'
<1> DEFINE new == [event |-> e, state |-> "waiting", fails |-> 0, stalls |-> 0]
<1>1. CASE jobs' = jobs
  BY <1>1, FiledKept
<1>2. CASE jobs' = Put(jobs, runKey(e), new)
  <2>1. /\ DOMAIN jobs' = DOMAIN jobs \cup {runKey(e)} /\ jobs'[runKey(e)].event = e
        /\ \A k \in DOMAIN jobs \ {runKey(e)} : jobs'[k] = jobs[k]
    BY <1>2 DEF Put
  <2> QED  BY <2>1, FiledKept
<1> QED  BY <1>1, <1>2 DEF Enqueue

\* Every step keeps the jobs filed.
LEMMA FiledStep == Typed /\ Filed /\ [Next]_vars => Filed'
<1> SUFFICES ASSUME Typed, Filed, [Next]_vars PROVE Filed'
  OBVIOUS
<1>1. jobs \in [DOMAIN jobs -> Job]
  BY DEF Typed, TypeOK
<1>2. ASSUME jobs' = jobs PROVE Filed'
  BY <1>2 DEF Filed
<1>3. ASSUME NEW k, NEW job, jobs' = [jobs EXCEPT ![k] = job],
             k \in DOMAIN jobs => job.event = jobs[k].event
      PROVE  Filed'
  BY <1>3, FiledKept
<1>4. ASSUME NEW k, NEW state, jobs' = [jobs EXCEPT ![k].state = state] PROVE Filed'
  <2>1. k \in DOMAIN jobs => [jobs[k] EXCEPT !.state = state].event = jobs[k].event
    BY <1>1 DEF Job
  <2> QED  BY <1>3, <1>4, <2>1
<1>5. ASSUME NEW k, Retry(k) \/ Redeliver(k) PROVE Filed'
  <2>1. k \in DOMAIN jobs => retried(jobs[k]).event = jobs[k].event
                             /\ redelivered(jobs[k]).event = jobs[k].event
    BY <1>1 DEF Job, retried, redelivered
  <2>2. jobs' = [jobs EXCEPT ![k] = retried(jobs[k])]
        \/ jobs' = [jobs EXCEPT ![k] = redelivered(jobs[k])]
    BY <1>5 DEF Retry, Redeliver
  <2> QED  BY <1>3, <2>1, <2>2
<1>6. ASSUME NEW w \in Workers, Step(w) PROVE Filed'
  <2>1. CASE PublishNext(w)
    BY <2>1, EnqueueFiled DEF PublishNext
  <2>2. CASE Settle(w)
    BY <1>2, <1>4, <2>2 DEF Settle
  <2>3. CASE ~(PublishNext(w) \/ Settle(w))
    BY <1>2, <1>6, <2>3 DEF Step, Begin, CloseStopped, Collect, Skip, Plan, Act, Log, Count, Refuse,
                       ScheduleDelays, Finish, RulesThrough
  <2> QED  BY <2>1, <2>2, <2>3
<1>7. CASE Take
  BY <1>4, <1>7 DEF Take, Load, StopAtDepth
<1>8. CASE Clock
  BY <1>2, <1>8, EnqueueFiled DEF Clock, ClaimWait, ResumeWait
<1>9. CASE People
  BY <1>2, <1>9, EnqueueFiled DEF People, Complete, Change, Publish, Pause
<1>10. CASE Misfortune
  <2>1. ASSUME NEW w \in Workers, Throw(w) \/ Kill(w) \/ Stall(w) \/ LoseAdd(w) PROVE Filed'
    BY <1>2, <1>5, <2>1 DEF Throw, Kill, Stall, LoseAdd
  <2>2. ASSUME NEW k \in DOMAIN jobs, Expire(k) PROVE Filed'
    BY <2>2, FiledKept DEF Expire
  <2>3. ASSUME NEW d \in waits, TickDies(d) PROVE Filed'
    BY <1>2, <2>3 DEF TickDies
  <2> QED  BY <1>10, <2>1, <2>2, <2>3 DEF Misfortune
<1>11. CASE UNCHANGED vars
  BY <1>2, <1>11 DEF vars
<1> QED  BY <1>6, <1>7, <1>8, <1>9, <1>10, <1>11 DEF Next

\* Everything that moves no worker, and taking a job.
LEMMA ElsewhereWhole ==
    ASSUME Typed, Filed, Whole,
           Take \/ Clock \/ People \/ (\E k : Expire(k))
                \/ (\E d \in waits : TickDies(d)) \/ UNCHANGED vars
    PROVE  Whole'
<1>1. \A v \in Workers : workers[v].pc \in Making => runOf(v) \in DOMAIN runs
  BY InHand, MakingIsInHand
<1>2. \A v \in Workers : GoesOn(v)
  <2>1. CASE UNCHANGED workers
    BY <2>1, RestGoOn
  <2>2. ASSUME NEW w \in Workers, NEW k \in DOMAIN jobs, Load(w, k)
        PROVE  \A v \in Workers : GoesOn(v)
    <3>1. workers \in [Workers -> Worker]
      BY DEF Typed, TypeOK
    <3>2. workers'[w].pc = "rules" /\ \A v \in Workers \ {w} : workers'[v] = workers[v]
      BY <2>2, <3>1 DEF Load, Idle
    <3> QED  BY <3>2, RestGoOn DEF Making
  <2>3. UNCHANGED workers \/ \E w \in Workers, k \in DOMAIN jobs : Load(w, k)
    BY DEF Take, StopAtDepth, Clock, ClaimWait, ResumeWait, People, Complete, Change, Publish,
           Pause, Expire, TickDies, vars
  <2> QED  BY <2>1, <2>2, <2>3
<1>3. CASE runs' = runs
  BY <1>1, <1>2, <1>3, RestStays, WholeKept
<1>4. ASSUME NEW k \in DOMAIN jobs, NEW r, <<r, k>> \notin DOMAIN runs,
             runs' = Put(runs, <<r, k>>, [event |-> jobs[k].event, ver |-> None, actions |-> 0,
                                          logs |-> {}, status |-> "SKIPPED"])
      PROVE  Whole'
  <2>1. k = runKey(jobs[k].event)
    BY DEF Filed
  <2>2. /\ DOMAIN runs' = DOMAIN runs \cup {<<r, k>>}
        /\ \A y \in DOMAIN runs : runs'[y] = runs[y]
        /\ runs'[<<r, k>>].event = jobs[k].event /\ runs'[<<r, k>>].logs = {}
        /\ runs'[<<r, k>>].status = "SKIPPED"
    BY <1>4 DEF Put
  <2>3. \A y \in DOMAIN runs : Stays(y)
    BY <2>2 DEF Stays
  <2>4. \A y \in DOMAIN runs' \ DOMAIN runs :
          y[2] = runKey(runs'[y].event) /\ runs'[y].logs = {} /\ runs'[y].status # "COMPLETED"
    BY <2>1, <2>2
  <2> QED  BY <1>1, <1>2, <2>3, <2>4, WholeKept
<1>5. runs' = runs \/ \E k \in DOMAIN jobs : \E r : <<r, k>> \notin DOMAIN runs /\
         runs' = Put(runs, <<r, k>>, [event |-> jobs[k].event, ver |-> None, actions |-> 0,
                                      logs |-> {}, status |-> "SKIPPED"])
  <2>1. CASE Take
    BY <2>1 DEF Take, Load, StopAtDepth, db
  <2>2. CASE ~Take
    BY <2>2 DEF Clock, ClaimWait, ResumeWait, People, Complete, Change, Publish, Pause, Expire,
                TickDies, vars, db
  <2> QED  BY <2>1, <2>2
<1> QED  BY <1>3, <1>4, <1>5

\* Every step keeps Whole.
LEMMA WholeStep == Typed /\ Filed /\ Whole /\ [Next]_vars => Whole'
<1> SUFFICES ASSUME Typed, Filed, Whole, [Next]_vars PROVE Whole'
  OBVIOUS
<1>1. ASSUME NEW w \in Workers, Step(w) PROVE Whole'
  BY <1>1, BeginWhole, PlanWhole, LogWhole, FinishWhole, StopsWhole, GoesOnWhole DEF Step
<1>2. CASE Take \/ Clock \/ People \/ UNCHANGED vars
  BY <1>2, ElsewhereWhole
<1>3. CASE Misfortune
  BY <1>3, StopsWhole, GoesOnWhole, ElsewhereWhole DEF Misfortune
<1> QED  BY <1>1, <1>2, <1>3 DEF Next

\* A run reported COMPLETED performed every step of its plan, and each with
\* success: whatever was cut, failed, left part-way or replayed, runStatus and
\* replay never call it complete.
THEOREM CompletedMeansAll == Spec => []CompletedDidAll
<1>1. Init => Filed /\ Whole
  BY DEF Init, Filed, Whole, Apart, Making, Idle
<1>2. Whole => CompletedDidAll
  BY DEF Whole, InOrder, succeeded, CompletedDidAll
<1> QED  BY TypedInit, TypedStep, FiledStep, WholeStep, <1>1, <1>2, PTL DEF Spec

----------------------------------------------------------------------------
(* Sole: while nobody loses a lock and works on, a run has one worker.     *)

busy(w) == workers[w].pc # "idle"
keyOf(w) == runKey(workers[w].event)

\* Every worker at work owns its job, and no job has two workers.
Owned ==
    /\ \A w \in Workers : busy(w) =>
         workers[w].owns /\ keyOf(w) \in DOMAIN jobs /\ jobs[keyOf(w)].state = "active"
    /\ \A w, v \in Workers : busy(w) /\ busy(v) /\ w # v => keyOf(w) # keyOf(v)

\* The places where a worker has a run to close.
Opening == Making \cup {"close"}
IsOpen(w) == workers[w].pc \in Opening => runs[runOf(w)].status = "RUNNING"

\* The steps a worker has ahead come after those done of its run.
Onward(w) ==
    workers[w].pc \in {"act", "log"} =>
        \A a \in acted : <<a[1], a[2]>> = runOf(w) => \A i \in workers[w].todo : a[3] < i

\* The run a worker makes or closes is open, and is performed in order.
Writing == \A w \in Workers : IsOpen(w) /\ Onward(w)

Sole == Owned /\ Writing

\* Workers keep their jobs, or let go of them, and the jobs stay theirs.
LEMMA OwnedKept ==
    ASSUME Owned,
           \A v \in Workers : busy(v)' =>
               /\ busy(v)
               /\ workers'[v].event = workers[v].event /\ workers'[v].owns = workers[v].owns
               /\ keyOf(v) \in DOMAIN jobs' /\ jobs'[keyOf(v)].state = "active"
    PROVE  Owned'
<1>1. \A v \in Workers : busy(v)' => keyOf(v)' = keyOf(v)
  BY DEF keyOf
<1> QED  BY <1>1 DEF Owned

\* Adding a job leaves those there as they are.
LEMMA EnqueueLeaves ==
    ASSUME NEW e, Enqueue(e)
    PROVE  \A k \in DOMAIN jobs : k \in DOMAIN jobs' /\ jobs'[k] = jobs[k]
BY DEF Enqueue, Put

\* A step in a worker's job, by a worker that is at work.
LEMMA AtWork ==
    ASSUME Typed, NEW w \in Workers, Step(w), ~Settle(w)
    PROVE  /\ busy(w) /\ workers'[w].event = workers[w].event /\ workers'[w].owns = workers[w].owns
           /\ \A v \in Workers \ {w} : workers'[v] = workers[v]
           /\ \A k \in DOMAIN jobs : k \in DOMAIN jobs' /\ jobs'[k] = jobs[k]
<1> DEFINE Goes ==
        /\ busy(w) /\ workers'[w].event = workers[w].event /\ workers'[w].owns = workers[w].owns
        /\ \A v \in Workers \ {w} : workers'[v] = workers[v]
        /\ \A k \in DOMAIN jobs : k \in DOMAIN jobs' /\ jobs'[k] = jobs[k]
<1> SUFFICES Goes
  OBVIOUS
<1>1. workers \in [Workers -> Worker] /\ workers[w] \in Worker
  BY DEF Typed, TypeOK
<1>2. CASE Begin(w)
  BY <1>1, <1>2 DEF Begin, Worker, busy
<1>3. ASSUME workers[w].pc # "idle", jobs' = jobs, NEW place,
             workers' = [workers EXCEPT ![w].pc = place]
      PROVE  Goes
  BY <1>1, <1>3 DEF Worker, busy
<1>11. ASSUME workers[w].pc # "idle", jobs' = jobs, NEW place, NEW out,
              workers' = [workers EXCEPT ![w].pc = place, ![w].out = out]
       PROVE  Goes
  BY <1>1, <1>11 DEF Worker, busy
<1>12. ASSUME workers[w].pc # "idle", jobs' = jobs, NEW place, NEW did, NEW bad, NEW out, NEW line,
              workers' = [workers EXCEPT ![w].pc = place, ![w].did = did, ![w].bad = bad,
                                         ![w].out = out, ![w].line = line]
       PROVE  Goes
  BY <1>1, <1>12 DEF Worker, busy
<1> HIDE DEF Goes
<1>7. CASE CloseStopped(w) \/ Collect(w) \/ Skip(w)
  BY <1>3, <1>7, <1>11 DEF CloseStopped, Collect, Skip, db
<1>8. CASE Log(w)
  BY <1>8, <1>12 DEF Log
<1>9. CASE Count(w) \/ Refuse(w) \/ ScheduleDelays(w)
  BY <1>3, <1>9 DEF Count, Refuse, ScheduleDelays
<1>10. CASE Finish(w) \/ RulesThrough(w)
  BY <1>3, <1>10, <1>11 DEF Finish, RulesThrough, db
<1>4. CASE Plan(w)
  BY <1>1, <1>4 DEF Goes, Plan, Worker, busy
<1>5. CASE Act(w)
  <2>1. PICK i \in workers[w].todo, ok \in BOOLEAN, wrote \in BOOLEAN : ActWith(w, i, ok, wrote)
    BY <1>5 DEF Act
  <2>2. \E t, found, line :
          workers' = [workers EXCEPT ![w].pc = "log", ![w].todo = t, ![w].found = found,
                                     ![w].line = line]
    BY <2>1 DEF ActWith
  <2> QED  BY <1>1, <1>5, <2>2 DEF Goes, Act, Worker, busy
<1>6. CASE PublishNext(w)
  <2>1. \A k \in DOMAIN jobs : k \in DOMAIN jobs' /\ jobs'[k] = jobs[k]
    BY <1>6, EnqueueLeaves DEF PublishNext
  <2>2. \E out : workers' = [workers EXCEPT ![w].out = out]
    BY <1>6 DEF PublishNext
  <2> QED  BY <1>1, <1>6, <2>1, <2>2 DEF Goes, PublishNext, Worker, busy
<1> QED  BY <1>2, <1>4, <1>5, <1>6, <1>7, <1>8, <1>9, <1>10 DEF Step

\* Every step keeps the jobs owned, if no worker loses its lock.
LEMMA OwnedStep ==
    ASSUME "stall" \notin Faults, Typed, Filed, Owned, [Next]_vars
    PROVE  Owned'
<1>1. workers \in [Workers -> Worker]
  BY DEF Typed, TypeOK
<1>2. ASSUME UNCHANGED workers, \A k \in DOMAIN jobs : jobs[k].state = "active" =>
                 k \in DOMAIN jobs' /\ jobs'[k].state = "active"
      PROVE  Owned'
  BY <1>2, OwnedKept DEF Owned, busy
<1>3. ASSUME NEW e, Enqueue(e), UNCHANGED workers PROVE Owned'
  BY <1>2, <1>3, EnqueueLeaves
<1>4. ASSUME NEW w \in Workers, workers' = [workers EXCEPT ![w] = Idle],
             \A k \in DOMAIN jobs \ {keyOf(w)} : k \in DOMAIN jobs' /\ jobs'[k] = jobs[k], busy(w)
      PROVE  Owned'
  <2>1. ~busy(w)' /\ \A v \in Workers \ {w} : workers'[v] = workers[v]
    BY <1>1, <1>4 DEF busy, Idle
  <2> QED  BY <1>4, <2>1, OwnedKept DEF Owned, busy
<1>5. ASSUME NEW w \in Workers, Step(w) PROVE Owned'
  <2>1. CASE Settle(w)
    <3>1. \A k \in DOMAIN jobs \ {keyOf(w)} : k \in DOMAIN jobs' /\ jobs'[k] = jobs[k]
      BY <2>1 DEF Settle, keyOf
    <3> QED  BY <1>4, <2>1, <3>1 DEF Settle, busy
  <2>2. CASE ~Settle(w)
    BY <1>5, <2>2, AtWork, OwnedKept DEF Owned, busy
  <2> QED  BY <2>1, <2>2
<1>6. CASE Take
  <2>1. ASSUME NEW k \in DOMAIN jobs, StopAtDepth(k) PROVE Owned'
    BY <1>2, <2>1 DEF StopAtDepth
  <2>2. ASSUME NEW k \in DOMAIN jobs, NEW w \in Workers, Load(w, k) PROVE Owned'
    <3>1. /\ DOMAIN jobs' = DOMAIN jobs /\ jobs'[k].state = "active"
          /\ \A j \in DOMAIN jobs \ {k} : jobs'[j] = jobs[j]
      <4>1. jobs[k] \in Job
        BY DEF Typed, TypeOK
      <4> QED  BY <2>2, <4>1 DEF Load, Job
    <3>2. /\ workers'[w].event = jobs[k].event /\ workers'[w].owns
          /\ \A v \in Workers \ {w} : workers'[v] = workers[v]
      BY <1>1, <2>2 DEF Load, Idle
    <3>3. keyOf(w)' = k
      BY <2>2, <3>2 DEF keyOf, Filed
    <3>4. \A v \in Workers \ {w} : busy(v)' => busy(v) /\ keyOf(v)' = keyOf(v) /\ keyOf(v) # k
      BY <2>2, <3>2 DEF busy, keyOf, Owned, Load
    <3> QED  BY <3>1, <3>2, <3>3, <3>4 DEF Owned
  <2> QED  BY <1>6, <2>1, <2>2 DEF Take
<1>7. CASE Clock
  BY <1>2, <1>3, <1>7 DEF Clock, ClaimWait, ResumeWait
<1>8. CASE People
  BY <1>2, <1>3, <1>8 DEF People, Complete, Change, Publish, Pause
<1>9. CASE Misfortune
  <2>1. ASSUME NEW w \in Workers, Throw(w) \/ Kill(w) PROVE Owned'
    <3>1. \A k \in DOMAIN jobs \ {keyOf(w)} : k \in DOMAIN jobs' /\ jobs'[k] = jobs[k]
      BY <2>1 DEF Throw, Kill, Retry, Redeliver, keyOf
    <3> QED  BY <1>4, <2>1, <3>1 DEF Throw, Kill, busy
  <2>2. ASSUME NEW w \in Workers, LoseAdd(w) PROVE Owned'
    <3>1. \E out : workers' = [workers EXCEPT ![w].out = out]
      BY <2>2 DEF LoseAdd
    <3>2. /\ busy(w) /\ workers'[w].event = workers[w].event /\ workers'[w].owns = workers[w].owns
          /\ \A v \in Workers \ {w} : workers'[v] = workers[v]
      BY <1>1, <2>2, <3>1, ZenonT(30) DEF LoseAdd, Worker, busy
    <3>3. jobs' = jobs
      BY <2>2 DEF LoseAdd
    <3> QED  BY <3>2, <3>3, OwnedKept DEF Owned, busy
  <2>3. \A w \in Workers : ~Stall(w)
    BY DEF Stall, Fault
  <2>4. ASSUME NEW k \in DOMAIN jobs, Expire(k) PROVE Owned'
    BY <1>2, <2>4 DEF Expire, db
  <2>5. ASSUME NEW d \in waits, TickDies(d) PROVE Owned'
    BY <1>2, <2>5 DEF TickDies
  <2> QED  BY <1>9, <2>1, <2>2, <2>3, <2>4, <2>5 DEF Misfortune
<1>10. CASE UNCHANGED vars
  BY <1>2, <1>10 DEF vars
<1> QED  BY <1>5, <1>6, <1>7, <1>8, <1>9, <1>10 DEF Next

\* A worker that has a run to close is at work, and the run is on record.
LEMMA OpeningHas ==
    ASSUME Typed, NEW v \in Workers, workers[v].pc \in Opening
    PROVE  busy(v) /\ runOf(v) \in DOMAIN runs
<1>1. workers[v].pc \in OnARule
  BY DEF Opening, Making, OnARule, PCs
<1> QED  BY <1>1, InHand DEF busy, OnARule

\* A worker goes on with its run, which stays as open as it was.
Steady(v) ==
    /\ workers'[v].pc \in Opening =>
         /\ workers[v].pc \in Opening
         /\ workers'[v].rule = workers[v].rule /\ workers'[v].event = workers[v].event
         /\ runs'[runOf(v)].status = runs[runOf(v)].status
    /\ workers'[v].pc \in {"act", "log"} =>
         workers[v].pc \in {"act", "log"} /\ workers'[v].todo \subseteq workers[v].todo

\* What a steady worker held of its run holds, if nothing was performed.
LEMMA SteadyKept ==
    ASSUME Writing, acted' = acted, NEW v \in Workers, Steady(v)
    PROVE  IsOpen(v)' /\ Onward(v)'
<1>1. workers'[v].pc \in Opening => runOf(v)' = runOf(v)
  BY DEF Steady, runOf
<1>2. workers'[v].pc \in {"act", "log"} => workers'[v].pc \in Opening
  BY DEF Opening, Making
<1> QED  BY <1>1, <1>2 DEF Writing, Steady, IsOpen, Onward

\* A worker that was not moved is steady, if its run keeps its status.
LEMMA UnmovedSteady ==
    ASSUME NEW v \in Workers, workers'[v] = workers[v],
           workers[v].pc \in Opening => runs'[runOf(v)].status = runs[runOf(v)].status
    PROVE  Steady(v)
BY DEF Steady

\* A step that changes no run's status, and moves nobody into a run.
LEMMA StatusKept ==
    ASSUME Typed, NEW v \in Workers, workers'[v] = workers[v],
           \A x \in DOMAIN runs : runs'[x].status = runs[x].status
    PROVE  Steady(v)
BY OpeningHas, UnmovedSteady

\* A worker is through with its run, and may have closed it: the others write other runs.
LEMMA ThroughWriting ==
    ASSUME Typed, Owned, Writing, NEW w \in Workers,
           \/ CloseStopped(w) \/ Collect(w) \/ Skip(w) \/ Refuse(w) \/ Finish(w) \/ RulesThrough(w)
           \/ PublishNext(w) \/ LoseAdd(w) \/ Settle(w) \/ Throw(w) \/ Kill(w)
    PROVE  Writing'
<1>1. workers \in [Workers -> Worker] /\ workers[w] \in Worker
  BY DEF Typed, TypeOK
<1>2. \A v \in Workers \ {w} : workers'[v] = workers[v]
  BY <1>1 DEF CloseStopped, Collect, Skip, Refuse, Finish, RulesThrough, PublishNext, LoseAdd,
              Settle, Throw, Kill
<1>3. workers'[w].pc \in {"collect", "rules", "publish", "idle"}
  <2>1. CASE CloseStopped(w) \/ Collect(w) \/ Skip(w) \/ Refuse(w) \/ Finish(w) \/ RulesThrough(w)
    BY <1>1, <2>1 DEF CloseStopped, Collect, Skip, Refuse, Finish, RulesThrough, Worker
  <2>2. CASE PublishNext(w) \/ LoseAdd(w)
    <3>1. workers[w].pc = "publish" /\ \E e : workers' = [workers EXCEPT ![w].out = @ \ {e}]
      BY <2>2 DEF PublishNext, LoseAdd
    <3> QED  BY <1>1, <3>1 DEF Worker
  <2>3. CASE Settle(w) \/ Throw(w) \/ Kill(w)
    BY <1>1, <2>3 DEF Settle, Throw, Kill, Idle
  <2> QED  BY <2>1, <2>2, <2>3
<1>4. \A x \in DOMAIN runs : busy(w) /\ (x # runOf(w) => runs'[x] = runs[x])
  BY DEF CloseStopped, Collect, Skip, Refuse, Finish, RulesThrough, PublishNext, LoseAdd,
         Settle, Throw, Kill, db, busy
<1>5. Steady(w)
  BY <1>3 DEF Steady, Opening, Making
<1>6. ASSUME NEW v \in Workers \ {w} PROVE Steady(v)
  <2>1. ASSUME workers[v].pc \in Opening PROVE runs'[runOf(v)] = runs[runOf(v)]
    <3>1. busy(v) /\ runOf(v) \in DOMAIN runs
      BY <2>1, OpeningHas
    <3>2. keyOf(v) # keyOf(w)
      BY <1>4, <3>1 DEF Owned
    <3> QED  BY <1>4, <3>1, <3>2 DEF keyOf, runOf
  <2> QED  BY <1>2, <2>1, UnmovedSteady
<1>7. acted' = acted
  BY DEF CloseStopped, Collect, Skip, Refuse, Finish, RulesThrough, PublishNext, LoseAdd,
         Settle, Throw, Kill, seen
<1> QED  BY <1>5, <1>6, <1>7, SteadyKept DEF Writing

\* Where only a run's lines or count are written, every run keeps its status.
LEMMA StatusSame ==
    ASSUME Typed, NEW w \in Workers, Log(w) \/ Count(w) \/ ScheduleDelays(w)
    PROVE  DOMAIN runs' = DOMAIN runs /\ \A x \in DOMAIN runs : runs'[x].status = runs[x].status
<1> DEFINE y == runOf(w)
<1>1. CASE ScheduleDelays(w)
  BY <1>1 DEF ScheduleDelays
<1>2. CASE Log(w)
  <2>1. DOMAIN runs' = DOMAIN runs /\ \A x \in DOMAIN runs \ {y} : runs'[x] = runs[x]
    BY <1>2 DEF Log
  <2>2. ASSUME y \in DOMAIN runs PROVE runs'[y].status = runs[y].status
    <3>1. runs[y] \in Run /\ \E logs : runs'[y] = [runs[y] EXCEPT !.logs = logs]
      BY <1>2, <2>2 DEF Log, Typed, TypeOK
    <3> QED  BY <3>1 DEF Run
  <2> QED  BY <2>1, <2>2
<1>3. CASE Count(w)
  <2>1. DOMAIN runs' = DOMAIN runs /\ \A x \in DOMAIN runs \ {y} : runs'[x] = runs[x]
    BY <1>3 DEF Count
  <2>2. ASSUME y \in DOMAIN runs PROVE runs'[y].status = runs[y].status
    <3>1. runs[y] \in Run /\ \E did : runs'[y] = [runs[y] EXCEPT !.actions = did]
      BY <1>3, <2>2 DEF Count, Typed, TypeOK
    <3> QED  BY <3>1 DEF Run
  <2> QED  BY <2>1, <2>2
<1> QED  BY <1>1, <1>2, <1>3

\* Writing a line or the count, and leaving a row at the Wait, close nothing.
LEMMA LogWriting ==
    ASSUME Typed, Owned, Writing, NEW w \in Workers, Log(w) \/ Count(w) \/ ScheduleDelays(w)
    PROVE  Writing'
<1> DEFINE me == workers[w]
<1>1. workers \in [Workers -> Worker] /\ me \in Worker
  BY DEF Typed, TypeOK
<1>2. \A v \in Workers \ {w} : workers'[v] = workers[v]
  BY <1>1 DEF Log, Count, ScheduleDelays
<1>3. acted' = acted
  BY DEF Log, Count, ScheduleDelays, seen
<1>4. \A x \in DOMAIN runs : runs'[x].status = runs[x].status
  BY StatusSame
<1>5. Steady(w)
  <2>1. me.pc \in Opening /\ runOf(w) \in DOMAIN runs
    <3>1. me.pc \in Opening
      BY DEF Log, Count, ScheduleDelays, Opening, Making
    <3> QED  BY <3>1, OpeningHas
  <2>2. workers'[w].rule = me.rule /\ workers'[w].event = me.event /\ workers'[w].todo = me.todo
    <3>1. CASE Log(w)
      BY <1>1, <3>1 DEF Log, Worker
    <3>2. CASE Count(w) \/ ScheduleDelays(w)
      <4>1. \E place : workers' = [workers EXCEPT ![w].pc = place]
        BY <3>2 DEF Count, ScheduleDelays
      <4> QED  BY <1>1, <4>1 DEF Worker
    <3> QED  BY <3>1, <3>2
  <2>3. workers'[w].pc \in {"act", "log"} => me.pc \in {"act", "log"}
    <3>1. CASE Log(w)
      BY <3>1 DEF Log
    <3>2. CASE Count(w)
      <4> DEFINE place == IF me.did = 0 /\ me.cut THEN "refuse" ELSE afterSteps(me.ver, me.event)
      <4>1. place \notin {"act", "log"} /\ workers' = [workers EXCEPT ![w].pc = place]
        BY <3>2 DEF Count, afterSteps
      <4> HIDE DEF place
      <4> QED  BY <1>1, <4>1 DEF Worker
    <3>3. CASE ScheduleDelays(w)
      BY <1>1, <3>3 DEF ScheduleDelays, Worker
    <3> QED  BY <3>1, <3>2, <3>3
  <2> QED  BY <1>4, <2>1, <2>2, <2>3 DEF Steady
<1>6. \A v \in Workers : Steady(v)
  BY <1>2, <1>4, <1>5, StatusKept
<1> QED  BY <1>3, <1>6, SteadyKept DEF Writing

\* Planning: nothing of the run was done before.
LEMMA PlanWriting ==
    ASSUME Typed, Once, Owned, Writing, NEW w \in Workers, Plan(w)
    PROVE  Writing'
<1> DEFINE me == workers[w]
<1>1. workers \in [Workers -> Worker] /\ me \in Worker /\ me.pc = "plan"
  BY DEF Typed, TypeOK, Plan
<1>2. \A v \in Workers \ {w} : workers'[v] = workers[v]
  BY <1>1 DEF Plan
<1>3. acted' = acted /\ runs' = runs
  BY DEF Plan, seen, db
<1>4. workers'[w].rule = me.rule /\ workers'[w].event = me.event
  BY <1>1 DEF Plan, Worker
<1>5. runOf(w)' = runOf(w)
  BY <1>4 DEF runOf
<1>6. IsOpen(w)'
  BY <1>1, <1>3, <1>5 DEF Writing, IsOpen, Opening, Making
<1>7. Onward(w)'
  <2>1. ASSUME NEW a \in acted, <<a[1], a[2]>> = runOf(w) PROVE FALSE
    <3>1. a \in Rules \X Keys \X Nat
      BY DEF Typed, TypeOK
    <3>2. a = <<me.rule, runKey(me.event), a[3]>> /\ a[3] \in Nat
      BY <2>1, <3>1 DEF runOf
    <3>3. a[3] \in ahead(w)
      BY <1>1, <3>2 DEF ahead
    <3> QED  BY <1>1, <3>2, <3>3 DEF Once, Performing
  <2> QED  BY <1>3, <1>5, <2>1 DEF Onward
<1>8. \A v \in Workers \ {w} : Steady(v)
  BY <1>2, <1>3, StatusKept
<1> QED  BY <1>3, <1>6, <1>7, <1>8, SteadyKept DEF Writing

\* A step is performed: it comes before those left, and is of nobody else's run.
LEMMA ActWriting ==
    ASSUME Typed, Owned, Writing, NEW w \in Workers, Act(w)
    PROVE  Writing'
<1> DEFINE me == workers[w]
<1>1. workers \in [Workers -> Worker] /\ me \in Worker /\ me.pc = "act"
  BY DEF Typed, TypeOK, Act
<1>2. PICK i \in me.todo, ok \in BOOLEAN, wrote \in BOOLEAN : ActWith(w, i, ok, wrote)
  BY DEF Act
<1> DEFINE a == <<me.rule, runKey(me.event), i>>
<1>3. PICK found, line :
          workers' = [workers EXCEPT ![w].pc = "log", ![w].todo = @ \ {i}, ![w].found = found,
                                     ![w].line = line]
  BY <1>2 DEF ActWith
<1>4. acted' = acted \cup {a} /\ runs' = runs /\ \A j \in me.todo : i <= j
  BY <1>2 DEF Act, ActWith, isNextStep
<1>5. /\ workers'[w].pc = "log" /\ workers'[w].todo = me.todo \ {i}
      /\ workers'[w].rule = me.rule /\ workers'[w].event = me.event
      /\ \A v \in Workers \ {w} : workers'[v] = workers[v]
  BY <1>1, <1>3 DEF Worker
<1>6. runOf(w)' = runOf(w) /\ \A v \in Workers \ {w} : runOf(v)' = runOf(v)
  BY <1>5 DEF runOf
<1>7. IsOpen(w)'
  BY <1>1, <1>4, <1>6 DEF Writing, IsOpen, Opening, Making
<1>8. Onward(w)'
  <2>1. me.todo \subseteq Nat
    BY <1>1 DEF Worker
  <2>2. \A b \in acted : <<b[1], b[2]>> = runOf(w) => \A j \in me.todo : b[3] < j
    BY <1>1 DEF Writing, Onward
  <2>3. \A j \in me.todo \ {i} : a[3] < j
    BY <1>4, <2>1
  <2> QED  BY <1>4, <1>5, <1>6, <2>2, <2>3 DEF Onward
<1>9. ASSUME NEW v \in Workers \ {w} PROVE IsOpen(v)' /\ Onward(v)'
  <2>1. IsOpen(v)'
    BY <1>4, <1>5, <1>6, <1>9 DEF Writing, IsOpen
  <2>2. Onward(v)'
    <3> SUFFICES ASSUME workers[v].pc \in {"act", "log"}, NEW b \in acted',
                        <<b[1], b[2]>> = runOf(v)
                 PROVE  \A j \in workers[v].todo : b[3] < j
      BY <1>5, <1>6 DEF Onward
    <3>1. keyOf(v) # keyOf(w)
      BY <1>1 DEF Owned, busy
    <3>2. b # a
      BY <3>1 DEF keyOf, runOf
    <3> QED  BY <1>4, <1>9, <3>2 DEF Writing, Onward
  <2> QED  BY <2>1, <2>2
<1> QED  BY <1>7, <1>8, <1>9 DEF Writing

\* A rule's run is made, or one found open is about to be closed.
LEMMA BeginWriting ==
    ASSUME Typed, Owned, Writing, NEW w \in Workers, Begin(w)
    PROVE  Writing'
<1> DEFINE me == workers[w]
           e == me.event
<1>1. me \in Worker /\ workers \in [Workers -> Worker]
  BY DEF Typed, TypeOK
<1>2. PICK p \in me.left :
        LET x == <<p[1], runKey(e)>> IN
        /\ workers' = [workers EXCEPT
               ![w].left = @ \ {p}, ![w].rule = p[1], ![w].ver = p[2],
               ![w].pc = IF ~made(x) THEN "plan"
                         ELSE IF runs[x].status = "RUNNING" THEN "close" ELSE "collect"]
        /\ runs' = IF made(x) THEN runs
                   ELSE Put(runs, x, [event |-> e, ver |-> p[2], actions |-> 0,
                                      logs |-> {}, status |-> "RUNNING"])
  BY DEF Begin
<1> DEFINE x == <<p[1], runKey(e)>>
           place == IF ~made(x) THEN "plan"
                    ELSE IF runs[x].status = "RUNNING" THEN "close" ELSE "collect"
<1>3. workers' = [workers EXCEPT ![w].left = @ \ {p}, ![w].rule = p[1], ![w].ver = p[2],
                                 ![w].pc = place]
  BY <1>2
<1>4. \A v \in Workers \ {w} : workers'[v] = workers[v]
  BY <1>1, <1>3
<1>5. place \in {"plan", "close"} => runs'[x].status = "RUNNING"
  BY <1>2 DEF Put, made
<1>6. place \in {"plan", "close", "collect"}
  OBVIOUS
<1>7. \A y \in DOMAIN runs : runs'[y] = runs[y]
  BY <1>2 DEF Put, made
<1> HIDE DEF place
<1>8. workers'[w].pc = place /\ workers'[w].rule = p[1] /\ workers'[w].event = e
  BY <1>1, <1>3 DEF Worker
<1>9. IsOpen(w)' /\ Onward(w)'
  BY <1>5, <1>6, <1>8 DEF IsOpen, Onward, Opening, Making, runOf
<1>10. \A v \in Workers \ {w} : Steady(v)
  BY <1>4, <1>7, StatusKept
<1>11. acted' = acted
  BY DEF Begin, seen
<1> QED  BY <1>9, <1>10, <1>11, SteadyKept DEF Writing

\* Everything that moves no worker, and taking a job.
LEMMA ElsewhereWriting ==
    ASSUME Typed, Writing,
           Take \/ Clock \/ People \/ (\E k : Expire(k))
                \/ (\E d \in waits : TickDies(d)) \/ UNCHANGED vars
    PROVE  Writing'
<1>1. \A x \in DOMAIN runs : runs'[x] = runs[x]
  BY DEF Take, Load, StopAtDepth, Put, Clock, ClaimWait, ResumeWait, People, Complete, Change,
         Publish, Pause, Expire, TickDies, vars, db
<1>2. acted' = acted
  BY DEF Take, Load, StopAtDepth, Clock, ClaimWait, ResumeWait, People, Complete, Change,
         Publish, Pause, Expire, TickDies, vars, seen
<1>3. \A v \in Workers : Steady(v)
  <2>1. CASE UNCHANGED workers
    BY <1>1, <2>1, StatusKept
  <2>2. ASSUME NEW w \in Workers, NEW k \in DOMAIN jobs, Load(w, k)
        PROVE  \A v \in Workers : Steady(v)
    <3>1. workers \in [Workers -> Worker]
      BY DEF Typed, TypeOK
    <3>2. workers'[w].pc = "rules" /\ \A v \in Workers \ {w} : workers'[v] = workers[v]
      BY <2>2, <3>1 DEF Load, Idle
    <3>3. Steady(w)
      BY <3>2 DEF Steady, Opening, Making
    <3> QED  BY <1>1, <3>2, <3>3, StatusKept
  <2>3. UNCHANGED workers \/ \E w \in Workers, k \in DOMAIN jobs : Load(w, k)
    BY DEF Take, StopAtDepth, Clock, ClaimWait, ResumeWait, People, Complete, Change, Publish,
           Pause, Expire, TickDies, vars
  <2> QED  BY <2>1, <2>2, <2>3
<1> QED  BY <1>2, <1>3, SteadyKept DEF Writing

\* Every step keeps Sole, if no worker loses its lock.
LEMMA SoleStep ==
    ASSUME "stall" \notin Faults
    PROVE  Typed /\ Filed /\ Once /\ Sole /\ [Next]_vars => Sole'
<1> SUFFICES ASSUME Typed, Filed, Once, Owned, Writing, [Next]_vars PROVE Owned' /\ Writing'
  BY DEF Sole
<1>1. ASSUME NEW w \in Workers, Step(w) PROVE Writing'
  BY <1>1, ThroughWriting, LogWriting, PlanWriting, ActWriting, BeginWriting DEF Step
<1>2. CASE Take \/ Clock \/ People \/ UNCHANGED vars
  BY <1>2, ElsewhereWriting, OwnedStep
<1>3. CASE Misfortune
  <2>1. \A w \in Workers : ~Stall(w)
    BY DEF Stall, Fault
  <2> QED  BY <1>3, <2>1, ThroughWriting, ElsewhereWriting, OwnedStep DEF Misfortune
<1> QED  BY <1>1, <1>2, <1>3, OwnedStep DEF Next

----------------------------------------------------------------------------
(* The ledger.                                                             *)

closedRuns == {x \in DOMAIN runs : runs[x].status # "RUNNING"}
performedSteps == {<< <<a[1], a[2]>>, a[3] >> : a \in acted}
ledger == <<DOMAIN runs, closedRuns, performedSteps>>

\* A worker closes the run it has, which is open.
LEMMA CloseEnters ==
    ASSUME Typed, Writing, NEW w \in Workers,
           CloseStopped(w) \/ Skip(w) \/ Refuse(w) \/ Finish(w)
    PROVE  Ledger!Next
<1> DEFINE x == runOf(w)
<1>1. workers[w].pc \in Opening
  BY DEF CloseStopped, Skip, Refuse, Finish, Opening, Making
<1>2. x \in DOMAIN runs /\ runs[x].status = "RUNNING"
  BY <1>1, OpeningHas DEF Writing, IsOpen
<1>3. PICK status \in {"COMPLETED", "PARTIALLY_FAILED", "FAILED", "SKIPPED"} :
          runs' = [runs EXCEPT ![x].status = status]
  BY DEF CloseStopped, Skip, Refuse, Finish, runStatus
<1>4. /\ DOMAIN runs' = DOMAIN runs /\ \A y \in DOMAIN runs \ {x} : runs'[y] = runs[y]
      /\ runs'[x].status = status
  <2>1. runs[x] \in Run
    BY <1>2 DEF Typed, TypeOK
  <2> QED  BY <1>2, <1>3, <2>1 DEF Run
<1>5. closedRuns' = closedRuns \cup {x} /\ x \notin closedRuns
  BY <1>2, <1>4 DEF closedRuns
<1>6. performedSteps' = performedSteps
  BY DEF CloseStopped, Skip, Refuse, Finish, seen, performedSteps
<1> HIDE DEF x
<1> QED  BY <1>2, <1>4, <1>5, <1>6 DEF Ledger!Next, Ledger!Close, closedRuns, performedSteps

\* A step is performed, of an open run and after the steps done of it.
LEMMA ActEnters ==
    ASSUME Typed, Once, Writing, NEW w \in Workers, Act(w)
    PROVE  Ledger!Next
<1> DEFINE me == workers[w]
           x == runOf(w)
<1>1. me.pc = "act" /\ me.pc \in Opening
  BY DEF Act, Opening, Making
<1>2. x \in DOMAIN runs \ closedRuns
  BY <1>1, OpeningHas DEF Writing, IsOpen, closedRuns
<1>3. PICK i \in me.todo : acted' = acted \cup {<<me.rule, runKey(me.event), i>>}
  BY DEF Act, ActWith
<1>4. performedSteps' = performedSteps \cup {<<x, i>>}
  <2> DEFINE b == <<me.rule, runKey(me.event), i>>
  <2>1. b[1] = me.rule /\ b[2] = runKey(me.event) /\ b[3] = i
    OBVIOUS
  <2>2. acted' = acted \cup {b} /\ << <<b[1], b[2]>>, b[3] >> = <<x, i>>
    BY <1>3, <2>1 DEF runOf
  <2> HIDE DEF b, x
  <2> QED  BY <2>2 DEF performedSteps
<1>5. \A b \in performedSteps : b[1] = x => b[2] < i
  BY <1>1 DEF Writing, Onward, performedSteps
<1>6. <<x, i>> \notin performedSteps
  <2>1. i \in Nat
    BY DEF Typed, TypeOK, Worker
  <2> QED  BY <1>5, <2>1
<1>7. DOMAIN runs' = DOMAIN runs /\ closedRuns' = closedRuns
  BY DEF Act, closedRuns
<1> HIDE DEF x
<1>8. <<x, i>> \in performedSteps' \ performedSteps
  BY <1>4, <1>6
<1> QED  BY <1>2, <1>4, <1>5, <1>7, <1>8 DEF Ledger!Next, Ledger!Perform, closedRuns, performedSteps

\* A run is put on record, as open or as refused.
LEMMA PutEnters ==
    ASSUME NEW x, x \notin DOMAIN runs, NEW run, runs' = Put(runs, x, run), acted' = acted
    PROVE  Ledger!Next
<1>1. DOMAIN runs' = DOMAIN runs \cup {x} /\ x \in DOMAIN runs' \ DOMAIN runs
      /\ runs'[x] = run /\ \A y \in DOMAIN runs : runs'[y] = runs[y]
  BY DEF Put
<1>2. closedRuns' = closedRuns \/ closedRuns' = closedRuns \cup {x}
  BY <1>1 DEF closedRuns
<1>3. performedSteps' = performedSteps
  BY DEF performedSteps
<1> QED  BY <1>1, <1>2, <1>3
  DEF Ledger!Next, Ledger!Open, Ledger!Refuse, closedRuns, performedSteps

\* Every step makes an entry of the ledger's, or none.
LEMMA LedgerStep ==
    Typed /\ Once /\ Sole /\ [Next]_vars => [Ledger!Next]_<<DOMAIN runs, closedRuns, performedSteps>>
<1> SUFFICES ASSUME Typed, Once, Writing, [Next]_vars
             PROVE  Ledger!Next \/ UNCHANGED ledger
  BY DEF Sole, ledger
<1>1. ASSUME runs' = runs, acted' = acted PROVE UNCHANGED ledger
  BY <1>1 DEF ledger, closedRuns, performedSteps
<1>2. ASSUME NEW w \in Workers, Step(w) PROVE Ledger!Next \/ UNCHANGED ledger
  <2>1. CASE Begin(w)
    BY <1>1, <2>1, PutEnters DEF Begin, made, seen
  <2>2. CASE CloseStopped(w) \/ Skip(w) \/ Refuse(w) \/ Finish(w)
    BY <2>2, CloseEnters
  <2>3. CASE Act(w)
    BY <2>3, ActEnters
  <2>4. CASE Log(w) \/ Count(w)
    <3>1. DOMAIN runs' = DOMAIN runs /\ \A x \in DOMAIN runs : runs'[x].status = runs[x].status
      BY <2>4, StatusSame
    <3>3. acted' = acted
      BY <2>4 DEF Log, Count, seen
    <3> QED  BY <3>1, <3>3 DEF ledger, closedRuns, performedSteps
  <2>5. CASE Collect(w) \/ Plan(w) \/ ScheduleDelays(w) \/ RulesThrough(w) \/ PublishNext(w)
             \/ Settle(w)
    BY <1>1, <2>5 DEF Collect, Plan, ScheduleDelays, RulesThrough, PublishNext, Settle, db, seen
  <2> QED  BY <1>2, <2>1, <2>2, <2>3, <2>4, <2>5 DEF Step
<1>3. CASE Take
  <2>1. ASSUME NEW k \in DOMAIN jobs, StopAtDepth(k) PROVE Ledger!Next \/ UNCHANGED ledger
    BY <1>1, <2>1, PutEnters DEF StopAtDepth, seen
  <2> QED  BY <1>1, <1>3, <2>1 DEF Take, Load, db, seen
<1>4. CASE Clock \/ People \/ Misfortune \/ UNCHANGED vars
  BY <1>1, <1>4 DEF Clock, ClaimWait, ResumeWait, People, Complete, Change, Publish, Pause,
     Misfortune, Throw, Kill, Stall, LoseAdd, Expire, TickDies, vars, db, seen
<1> QED  BY <1>2, <1>3, <1>4 DEF Next

\* While no worker outlives its lock, the recorded runs are a ledger: a run is
\* opened once, its steps come in order and once each, and it is closed once,
\* whatever else fails (a worker dies, a call throws, a job is forgotten).
THEOREM RunsAreALedger ==
    ASSUME "stall" \notin Faults
    PROVE  Spec => KeepsLedger
<1>1. Init => Filed /\ Once /\ Sole
  BY DEF Init, Filed, Once, Performing, Idle, Sole, Owned, busy, Writing, IsOpen, Onward,
         Opening, Making
<1>2. Init => Ledger!Init
  BY DEF Init, Ledger!Init
<1>3. Typed /\ Filed /\ Once /\ Sole /\ [Next]_vars => Sole'
  BY SoleStep
<1>4. Typed /\ Once /\ Sole /\ [Next]_vars => [Ledger!Next]_<<DOMAIN runs, closedRuns, performedSteps>>
  BY LedgerStep
<1> QED
  BY TypedInit, TypedStep, FiledStep, OnceStep, <1>1, <1>2, <1>3, <1>4, PTL
  DEF Spec, KeepsLedger, Ledger!Spec, closedRuns, performedSteps

----------------------------------------------------------------------------
(* Kinship: an event's id says what the event is.                          *)

\* The events there are, wherever they are kept; a Wait's row stands for the
\* resumption it will be.
InJobs(e) == \E k \in DOMAIN jobs : e = jobs[k].event
InRuns(e) == \E x \in DOMAIN runs : e = runs[x].event \/ \E l \in runs[x].logs : e \in l.events
AtWorker(w, e) ==
    \/ workers[w].pc # "idle" /\ (e = workers[w].event \/ e \in workers[w].out)
    \/ workers[w].pc = "log" /\ e \in workers[w].line.events
Known(e) ==
    \/ InJobs(e) \/ InRuns(e)
    \/ \E w \in Workers : AtWorker(w, e)
    \/ \E d \in waits : e = resumption(d)

\* An id that says a task is no longer blocked; the task an id names, if it does.
Unblocking(id) == \E i \in DOMAIN id : id[i][1] = "unblocked"
last(id) == id[Len(id)]

\* What an event's own id says of it.
SaysSo(e) ==
    /\ e \in Events
    /\ Len(e.id) > 0 /\ \E n \in Nat : n < nextId /\ e.id[1] = <<"fresh", n>>
    /\ last(e.id)[1] \in {"rollup", "unblocked"} => e.task = last(e.id)[2]
    /\ Unblocking(e.id) => e.rule = None /\ e.trigger = "unblocked"

\* Events of one origin agree on all but the task, and what "unblocked" changes.
Kin(e, f) ==
    /\ e.depth = f.depth /\ e.cause = f.cause /\ e.chain = f.chain
    /\ e.version = f.version /\ e.from = f.from
    /\ ~Unblocking(e.id) /\ ~Unblocking(f.id) => e.rule = f.rule /\ e.trigger = f.trigger
    /\ e.id = f.id => e.task = f.task

Kinship ==
    /\ \A e : Known(e) => SaysSo(e)
    /\ \A e, f : Known(e) /\ Known(f) /\ e.id[1] = f.id[1] => Kin(e, f)


\* A sequence with one more element.
LEMMA Appended ==
    ASSUME NEW S, NEW s \in Seq(S), NEW x \in S
    PROVE  /\ Append(s, x) \in Seq(S) /\ Len(Append(s, x)) = Len(s) + 1
           /\ Append(s, x)[Len(s) + 1] = x
           /\ \A i \in 1..Len(s) : Append(s, x)[i] = s[i]
OBVIOUS

\* An id with one more name on it.
LEMMA Longer ==
    ASSUME NEW id \in Ids, Len(id) > 0, NEW tag \in {"rollup", "unblocked"}, NEW t \in Tasks,
           NEW longer, longer = Derived(id, <<tag, t>>)
    PROVE  /\ longer \in Ids /\ Len(longer) > 0 /\ longer[1] = id[1]
           /\ last(longer) = <<tag, t>>
           /\ Unblocking(longer) <=> Unblocking(id) \/ tag = "unblocked"
<1> DEFINE x == <<tag, t>>
           long == Append(id, x)
<1>1. long \in Ids
  BY DEF Ids
<1>2. /\ Len(long) = Len(id) + 1 /\ long[Len(id) + 1] = x /\ Len(id) \in Nat /\ Len(id) > 0
      /\ \A i \in 1..Len(id) : long[i] = id[i]
      /\ DOMAIN id = 1..Len(id) /\ DOMAIN long = 1..(Len(id) + 1)
  BY DEF Ids
<1>3. x[1] = tag /\ longer = long
  BY DEF Derived
<1> HIDE DEF long, x
<1>4. Len(long) > 0 /\ long[1] = id[1] /\ last(long) = x
  BY <1>2 DEF last
<1>5. Unblocking(long) <=> Unblocking(id) \/ tag = "unblocked"
  BY <1>2, <1>3 DEF Unblocking
<1> QED  BY <1>1, <1>3, <1>4, <1>5 DEF x

\* A sequence of two.
LEMMA TwoNames ==
    ASSUME NEW S, NEW a \in S, NEW b \in S, NEW s, s = Append(<<a>>, b)
    PROVE  s[1] = a /\ s[2] = b /\ Len(s) = 2 /\ DOMAIN s = 1..2
OBVIOUS

\* A fresh id, and one that resumes.
LEMMA Fresh ==
    ASSUME NEW n \in Nat, NEW id \in {Random(n), Derived(Random(n), <<"resume", 0>>)}
    PROVE  /\ id \in Ids /\ Len(id) > 0 /\ id[1] = <<"fresh", n>> /\ ~Unblocking(id)
           /\ last(id)[1] \notin {"rollup", "unblocked"}
<1>1. CASE id = Random(n)
  BY <1>1 DEF Random, Ids, Unblocking, last
<1>2. CASE id = Derived(Random(n), <<"resume", 0>>)
  <2> DEFINE Name == ({"fresh", "resume"} \X Nat) \cup ({"rollup", "unblocked"} \X Tasks)
             a == <<"fresh", n>>
             b == <<"resume", 0>>
  <2>1. a \in Name /\ b \in Name /\ a[1] = "fresh" /\ b[1] = "resume" /\ Ids = Seq(Name)
    BY DEF Ids
  <2>2. id = Append(<<a>>, b) /\ <<a>> \in Seq(Name)
    BY <1>2, <2>1 DEF Derived, Random
  <2> HIDE DEF a, b, Name
  <2>3. id[1] = a /\ id[2] = b /\ Len(id) = 2 /\ DOMAIN id = 1..2
    BY <2>1, <2>2, TwoNames
  <2>4. id \in Seq(Name)
    BY <2>1, <2>2, Appended
  <2> QED  BY <2>1, <2>3, <2>4 DEF Unblocking, last, a
<1> QED  BY <1>1, <1>2

\* Nothing new is known.
LEMMA KinKept ==
    ASSUME Kinship, nextId \in Nat, nextId' \in {nextId, nextId + 1},
           \A e : Known(e)' => Known(e)
    PROVE  Kinship'
<1>1. \A e : SaysSo(e) => SaysSo(e)'
  BY DEF SaysSo
<1> QED  BY <1>1 DEF Kinship, Kin

\* One event is new, under the next random id.
LEMMA KinFresh ==
    ASSUME Kinship, nextId \in Nat, nextId' = nextId + 1, NEW g \in Events,
           g.id \in {Random(nextId), Derived(Random(nextId), <<"resume", 0>>)},
           \A e : Known(e)' => Known(e) \/ e = g
    PROVE  Kinship'
<1> DEFINE id == g.id
<1>0. /\ id \in Ids /\ Len(id) > 0 /\ id[1] = <<"fresh", nextId>> /\ ~Unblocking(id)
      /\ last(id)[1] \notin {"rollup", "unblocked"}
  <2> HIDE DEF id
  <2>1. id \in {Random(nextId), Derived(Random(nextId), <<"resume", 0>>)}
    BY DEF id
  <2>2. id \in Ids
    BY <2>1, Fresh
  <2>3. Len(id) > 0
    BY <2>1, Fresh
  <2>4. id[1] = <<"fresh", nextId>>
    BY <2>1, Fresh
  <2>5. ~Unblocking(id) /\ last(id)[1] \notin {"rollup", "unblocked"}
    BY <2>1, Fresh
  <2> QED  BY <2>2, <2>3, <2>4, <2>5
<1>1. \A e : SaysSo(e) => SaysSo(e)' /\ e.id[1] # id[1]
  <2> SUFFICES ASSUME NEW e, SaysSo(e) PROVE SaysSo(e)' /\ e.id[1] # id[1]
    OBVIOUS
  <2>1. PICK n \in Nat : n < nextId /\ e.id[1] = <<"fresh", n>>
    BY DEF SaysSo
  <2>2. n < nextId + 1 /\ n # nextId
    BY <2>1
  <2> QED  BY <1>0, <2>1, <2>2 DEF SaysSo
<1>2. SaysSo(g)'
  BY <1>0 DEF SaysSo
<1>3. Kin(g, g)
  BY DEF Kin
<1>4. \A e : Known(e)' => SaysSo(e)'
  BY <1>1, <1>2 DEF Kinship
<1>5. ASSUME NEW e, NEW f, Known(e)', Known(f)', e.id[1] = f.id[1] PROVE Kin(e, f)
  <2>1. (e = g /\ f = g) \/ (Known(e) /\ Known(f))
    BY <1>1, <1>5 DEF Kinship
  <2> QED  BY <1>3, <1>5, <2>1 DEF Kinship
<1> QED  BY <1>4, <1>5 DEF Kinship

\* What a completion means to other tasks: e for task t, under a longer id.
rolled(e, t) == [e EXCEPT !.id = Derived(e.id, <<"rollup", t>>), !.task = t]
freed(e, t) == [e EXCEPT !.id = Derived(e.id, <<"unblocked", t>>), !.task = t,
                         !.trigger = "unblocked", !.rule = None]

\* It says so, and is kin to what e is kin to.
LEMMA DerivedKin ==
    ASSUME NEW e, SaysSo(e), ~Unblocking(e.id), NEW t \in Tasks, NEW h \in {rolled(e, t), freed(e, t)}
    PROVE  /\ SaysSo(h) /\ h.id[1] = e.id[1]
           /\ \A f : SaysSo(f) /\ Kin(e, f) => Kin(h, f) /\ Kin(f, h)
<1> DEFINE tag == IF h = rolled(e, t) THEN "rollup" ELSE "unblocked"
<1>1. e \in Events /\ e.id \in Ids /\ Len(e.id) > 0
  BY DEF SaysSo, Events
<1>2. /\ h.id = Derived(e.id, <<tag, t>>) /\ h.task = t
      /\ h.depth = e.depth /\ h.cause = e.cause /\ h.chain = e.chain
      /\ h.version = e.version /\ h.from = e.from
      /\ IF tag = "rollup" THEN h.rule = e.rule /\ h.trigger = e.trigger
                           ELSE h.rule = None /\ h.trigger = "unblocked"
  BY <1>1 DEF rolled, freed, Events
<1>3. tag \in {"rollup", "unblocked"}
  OBVIOUS
<1> HIDE DEF tag
<1>4. /\ h.id \in Ids /\ Len(h.id) > 0 /\ h.id[1] = e.id[1] /\ last(h.id) = <<tag, t>>
      /\ Unblocking(h.id) <=> tag = "unblocked"
  <2> DEFINE id == e.id
             long == h.id
  <2>1. id \in Ids /\ Len(id) > 0 /\ long = Derived(id, <<tag, t>>) /\ ~Unblocking(id)
    BY <1>1, <1>2
  <2> HIDE DEF id, long
  <2>2. /\ long \in Ids /\ Len(long) > 0 /\ long[1] = id[1] /\ last(long) = <<tag, t>>
        /\ Unblocking(long) <=> Unblocking(id) \/ tag = "unblocked"
    <3>1. t \in Tasks
      OBVIOUS
    <3>2. tag \in {"rollup", "unblocked"}
      BY <1>3
    <3>3. long \in Ids
      BY <2>1, <3>1, <3>2, Longer
    <3>4. last(long) = <<tag, t>>
      BY <2>1, <3>1, <3>2, Longer
    <3>5. Unblocking(long) <=> Unblocking(id) \/ tag = "unblocked"
      BY <2>1, <3>1, <3>2, Longer
    <3>6. Len(long) > 0 /\ long[1] = id[1]
      BY <2>1, <3>1, <3>2, Longer
    <3> QED  BY <3>3, <3>4, <3>5, <3>6
  <2> QED  BY <2>1, <2>2 DEF id, long
<1>5. h \in Events
  BY <1>1, <1>4 DEF rolled, freed, Events, Triggers
<1>6. SaysSo(h)
  BY <1>2, <1>3, <1>4, <1>5 DEF SaysSo
<1>7. ASSUME NEW f, SaysSo(f), Kin(e, f) PROVE Kin(h, f) /\ Kin(f, h)
  <2>1. ~Unblocking(h.id) /\ ~Unblocking(f.id) => h.rule = f.rule /\ h.trigger = f.trigger
    BY <1>2, <1>3, <1>4, <1>7 DEF Kin
  <2>2. h.id = f.id => h.task = f.task
    BY <1>2, <1>3, <1>4, <1>7 DEF SaysSo
  <2> QED  BY <1>2, <1>7, <2>1, <2>2 DEF Kin
<1> QED  BY <1>4, <1>6, <1>7

\* Events derived from a known one are new.
LEMMA KinDerived ==
    ASSUME Kinship, nextId' = nextId, NEW e, Known(e), ~Unblocking(e.id),
           \A h : Known(h)' => Known(h) \/ \E t \in Tasks : h \in {rolled(e, t), freed(e, t)}
    PROVE  Kinship'
<1> DEFINE New(h) == \E t \in Tasks : h \in {rolled(e, t), freed(e, t)}
<1>1. SaysSo(e) /\ \A f : Known(f) /\ f.id[1] = e.id[1] => Kin(e, f)
  BY DEF Kinship
<1>2. ASSUME NEW h, New(h)
      PROVE  SaysSo(h) /\ h.id[1] = e.id[1] /\ Kin(e, h)
             /\ \A f : SaysSo(f) /\ Kin(e, f) => Kin(h, f) /\ Kin(f, h)
  <2>1. PICK t \in Tasks : h \in {rolled(e, t), freed(e, t)}
    BY <1>2
  <2>2. Kin(e, e)
    BY DEF Kin
  <2> QED  BY <1>1, <2>1, <2>2, DerivedKin
<1>3. \A h : Known(h)' => SaysSo(h)'
  <2>1. \A h : SaysSo(h) => SaysSo(h)'
    BY DEF SaysSo
  <2> QED  BY <1>2, <2>1 DEF Kinship
<1>4. ASSUME NEW h, NEW f, Known(h)', Known(f)', h.id[1] = f.id[1] PROVE Kin(h, f)
  <2>1. CASE Known(h) /\ Known(f)
    BY <1>4, <2>1 DEF Kinship
  <2>2. CASE New(h) /\ (Known(f) \/ New(f))
    BY <1>1, <1>2, <1>4, <2>2 DEF Kinship
  <2>3. CASE Known(h) /\ New(f)
    BY <1>1, <1>2, <1>4, <2>3 DEF Kinship
  <2> QED  BY <1>4, <2>1, <2>2, <2>3
<1> QED  BY <1>3, <1>4 DEF Kinship

\* So an id names one event.
LEMMA OneEvent ==
    ASSUME Kinship, NEW e, NEW f, Known(e), Known(f), e.id = f.id
    PROVE  e = f
<1>1. SaysSo(e) /\ SaysSo(f) /\ Kin(e, f)
  BY DEF Kinship
<1>2. e \in Events /\ f \in Events
  BY <1>1 DEF SaysSo
<1>3. e.rule = f.rule /\ e.trigger = f.trigger
  BY <1>1 DEF SaysSo, Kin
<1> QED  BY <1>1, <1>2, <1>3 DEF Kin, Events

----------------------------------------------------------------------------
\* Where what is known comes from, table by table.
JobsKeep == \A k \in DOMAIN jobs' : k \in DOMAIN jobs /\ jobs'[k].event = jobs[k].event
RunsKeep == \A x \in DOMAIN runs' :
    x \in DOMAIN runs /\ runs'[x].event = runs[x].event /\ runs'[x].logs = runs[x].logs
WorkersKeep == \A v \in Workers : \A e : AtWorker(v, e)' => AtWorker(v, e)
WaitsKeep == \A d \in waits' : \E c \in waits : resumption(d) = resumption(c)

\* Unless it is new, what is known was known.
LEMMA KnownFrom ==
    ASSUME NEW New,
           JobsKeep \/ \A k \in DOMAIN jobs' : LET e == jobs'[k].event IN Known(e) \/ e \in New,
           RunsKeep \/ \A x \in DOMAIN runs' :
               /\ Known(runs'[x].event)
               /\ \A l \in runs'[x].logs : \A e \in l.events : Known(e),
           WorkersKeep \/ \A v \in Workers : \A e : AtWorker(v, e)' => Known(e) \/ e \in New,
           WaitsKeep \/ \A d \in waits' : LET e == resumption(d) IN Known(e) \/ e \in New
    PROVE  \A e : Known(e)' => Known(e) \/ e \in New
<1> SUFFICES ASSUME NEW e, Known(e)' PROVE Known(e) \/ e \in New
  OBVIOUS
<1>1. CASE InJobs(e)'
  BY <1>1 DEF Known, InJobs, JobsKeep
<1>2. CASE InRuns(e)'
  <2>1. CASE RunsKeep
    BY <1>2, <2>1 DEF Known, InRuns, RunsKeep
  <2>2. CASE ~RunsKeep
    BY <1>2, <2>2 DEF InRuns
  <2> QED  BY <2>1, <2>2
<1>3. CASE \E v \in Workers : AtWorker(v, e)'
  BY <1>3 DEF Known, WorkersKeep
<1>4. CASE \E d \in waits' : e = resumption(d)
  BY <1>4 DEF Known, WaitsKeep
<1> QED  BY <1>1, <1>2, <1>3, <1>4 DEF Known, resumption

\* One worker moved, and has nothing it had not.
LEMMA WorkerKeeps ==
    ASSUME NEW w \in Workers, \A v \in Workers \ {w} : workers'[v] = workers[v],
           \A e : AtWorker(w, e)' => AtWorker(w, e)
    PROVE  WorkersKeep
BY DEF WorkersKeep, AtWorker

\* Adding a job.
LEMMA EnqueueKnown ==
    ASSUME NEW g, Enqueue(g)
    PROVE  \A k \in DOMAIN jobs' : LET e == jobs'[k].event IN Known(e) \/ e = g
<1>1. CASE jobs' = jobs
  BY <1>1 DEF Known, InJobs
<1>2. CASE jobs' = Put(jobs, runKey(g), [event |-> g, state |-> "waiting", fails |-> 0, stalls |-> 0])
  <2>1. /\ DOMAIN jobs' = DOMAIN jobs \cup {runKey(g)} /\ jobs'[runKey(g)].event = g
        /\ \A k \in DOMAIN jobs \ {runKey(g)} : jobs'[k] = jobs[k]
    BY <1>2 DEF Put
  <2> QED  BY <2>1 DEF Known, InJobs
<1> QED  BY <1>1, <1>2 DEF Enqueue

\* Jobs, runs and rows that only change their status keep their events.
LEMMA JobKeeps ==
    ASSUME Typed, NEW k, (\E state : jobs' = [jobs EXCEPT ![k].state = state])
                         \/ Retry(k) \/ Redeliver(k)
    PROVE  JobsKeep
<1>1. jobs \in [DOMAIN jobs -> Job]
  BY DEF Typed, TypeOK
<1>2. PICK job : jobs' = [jobs EXCEPT ![k] = job] /\ (k \in DOMAIN jobs => job.event = jobs[k].event)
  <2>0. k \in DOMAIN jobs => retried(jobs[k]).event = jobs[k].event
                             /\ redelivered(jobs[k]).event = jobs[k].event
    BY <1>1 DEF Job, retried, redelivered
  <2>1. CASE Retry(k)
    BY <2>0, <2>1 DEF Retry
  <2>2. CASE Redeliver(k)
    BY <2>0, <2>2 DEF Redeliver
  <2>3. ASSUME NEW state, jobs' = [jobs EXCEPT ![k].state = state]
        PROVE  \E job : jobs' = [jobs EXCEPT ![k] = job]
                        /\ (k \in DOMAIN jobs => job.event = jobs[k].event)
    <3>1. k \in DOMAIN jobs => [jobs[k] EXCEPT !.state = state].event = jobs[k].event
      BY <1>1 DEF Job
    <3> QED  BY <2>3, <3>1
  <2> QED  BY <2>1, <2>2, <2>3
<1> QED  BY <1>2 DEF JobsKeep

LEMMA RunKeeps ==
    ASSUME Typed, NEW x, (\E status : runs' = [runs EXCEPT ![x].status = status])
                         \/ (\E n : runs' = [runs EXCEPT ![x].actions = n])
    PROVE  RunsKeep
<1>1. runs \in [DOMAIN runs -> Run]
  BY DEF Typed, TypeOK
<1>2. PICK run : runs' = [runs EXCEPT ![x] = run]
                 /\ (x \in DOMAIN runs => run.event = runs[x].event /\ run.logs = runs[x].logs)
  <2>1. ASSUME NEW status, runs' = [runs EXCEPT ![x].status = status]
        PROVE  \E run : runs' = [runs EXCEPT ![x] = run]
                 /\ (x \in DOMAIN runs => run.event = runs[x].event /\ run.logs = runs[x].logs)
    <3> DEFINE run == [runs[x] EXCEPT !.status = status]
    <3>1. x \in DOMAIN runs => run.event = runs[x].event /\ run.logs = runs[x].logs
      BY <1>1 DEF Run
    <3> QED  BY <2>1, <3>1
  <2>2. ASSUME NEW n, runs' = [runs EXCEPT ![x].actions = n]
        PROVE  \E run : runs' = [runs EXCEPT ![x] = run]
                 /\ (x \in DOMAIN runs => run.event = runs[x].event /\ run.logs = runs[x].logs)
    <3> DEFINE run == [runs[x] EXCEPT !.actions = n]
    <3>1. x \in DOMAIN runs => run.event = runs[x].event /\ run.logs = runs[x].logs
      BY <1>1 DEF Run
    <3> QED  BY <2>2, <3>1
  <2> QED  BY <2>1, <2>2
<1> QED  BY <1>2 DEF RunsKeep

LEMMA WaitKeeps ==
    ASSUME Typed, NEW d \in waits, NEW status,
           waits' = (waits \ {d}) \cup {[d EXCEPT !.status = status]}
    PROVE  WaitsKeep
<1> DEFINE c == [d EXCEPT !.status = status]
<1>1. d \in WaitRow
  BY DEF Typed, TypeOK
<1>2. /\ c.id = d.id /\ c.rule = d.rule /\ c.node = d.node /\ c.ver = d.ver
      /\ c.event = d.event
  BY <1>1 DEF WaitRow
<1>3. resumption(c) = resumption(d)
  BY <1>2 DEF resumption
<1> HIDE DEF c
<1>4. waits' = (waits \ {d}) \cup {c}
  BY DEF c
<1> QED  BY <1>3, <1>4 DEF WaitsKeep

\* Nothing new is known anywhere.
LEMMA NothingNew ==
    ASSUME Typed, Kinship, nextId' \in {nextId, nextId + 1},
           JobsKeep \/ \A k \in DOMAIN jobs' : Known(jobs'[k].event),
           RunsKeep \/ \A x \in DOMAIN runs' :
               /\ Known(runs'[x].event)
               /\ \A l \in runs'[x].logs : \A e \in l.events : Known(e),
           WorkersKeep \/ \A v \in Workers : \A e : AtWorker(v, e)' => Known(e),
           WaitsKeep
    PROVE  Kinship'
<1> DEFINE New == {}
<1>0. \A e : e \notin New
  OBVIOUS
<1> HIDE DEF New
<1>1. \A e : Known(e)' => Known(e) \/ e \in New
  BY KnownFrom
<1>2. nextId \in Nat
  BY DEF Typed, TypeOK
<1> QED  BY <1>0, <1>1, <1>2, KinKept

\* Every other table is as it was.
LEMMA Untouched ==
    /\ jobs' = jobs => JobsKeep
    /\ runs' = runs => RunsKeep
    /\ workers' = workers => WorkersKeep
    /\ waits' = waits => WaitsKeep
BY DEF JobsKeep, RunsKeep, WorkersKeep, AtWorker, WaitsKeep

\* What a worker has is known.
LEMMA HasKnown ==
    ASSUME NEW w \in Workers
    PROVE  /\ busy(w) => Known(workers[w].event) /\ \A e \in workers[w].out : Known(e)
           /\ workers[w].pc = "log" => \A e \in workers[w].line.events : Known(e)
BY DEF Known, AtWorker, busy

\* One worker moved: what it has was known, or is new.
LEMMA MovedKnown ==
    ASSUME NEW New, NEW w \in Workers, \A v \in Workers \ {w} : workers'[v] = workers[v],
           workers'[w].pc = "idle" \/ (Known(workers'[w].event)
                                       /\ \A e \in workers'[w].out : Known(e) \/ e \in New),
           workers'[w].pc = "log" => \A e \in workers'[w].line.events : Known(e) \/ e \in New
    PROVE  \A v \in Workers : \A e : AtWorker(v, e)' => Known(e) \/ e \in New
<1> SUFFICES ASSUME NEW v \in Workers, NEW e, AtWorker(v, e)' PROVE Known(e) \/ e \in New
  OBVIOUS
<1>1. CASE v = w
  BY <1>1 DEF AtWorker
<1>2. CASE v # w
  BY <1>2 DEF AtWorker, Known
<1> QED  BY <1>1, <1>2

\* A worker that goes on with its event, and has nothing else that is new.
LEMMA GoesOnKnown ==
    ASSUME Typed, NEW w \in Workers, \A v \in Workers \ {w} : workers'[v] = workers[v],
           busy(w), workers'[w].event = workers[w].event,
           \A e \in workers'[w].out : Known(e), workers'[w].pc # "log"
    PROVE  \A v \in Workers : \A e : AtWorker(v, e)' => Known(e)
<1> DEFINE New == {}
<1>1. Known(workers[w].event)
  BY HasKnown
<1>2. \A e : e \notin New
  OBVIOUS
<1> HIDE DEF New
<1>3. \A v \in Workers : \A e : AtWorker(v, e)' => Known(e) \/ e \in New
  BY <1>1, MovedKnown
<1> QED  BY <1>2, <1>3

\* Making a run, or finding one.
LEMMA BeginKin ==
    ASSUME Typed, Kinship, NEW w \in Workers, Begin(w)
    PROVE  Kinship'
<1> DEFINE me == workers[w]
<1>1. workers \in [Workers -> Worker] /\ me \in Worker
  BY DEF Typed, TypeOK
<1>2. /\ busy(w) /\ workers'[w].event = me.event
      /\ \A v \in Workers \ {w} : workers'[v] = workers[v]
  BY AtWork DEF Step, Begin, Settle
<1>3. workers'[w].out = me.out /\ workers'[w].pc # "log"
  BY <1>1 DEF Begin, Worker
<1>4. Known(me.event) /\ \A e \in me.out : Known(e)
  BY <1>2, HasKnown
<1>5. \A v \in Workers : \A e : AtWorker(v, e)' => Known(e)
  BY <1>2, <1>3, <1>4, GoesOnKnown
<1>6. RunsKeep \/ \A x \in DOMAIN runs' :
          Known(runs'[x].event) /\ \A l \in runs'[x].logs : \A e \in l.events : Known(e)
  <2>1. PICK p \in me.left :
          LET x == <<p[1], runKey(me.event)>> IN
          runs' = IF made(x) THEN runs
                  ELSE Put(runs, x, [event |-> me.event, ver |-> p[2], actions |-> 0,
                                     logs |-> {}, status |-> "RUNNING"])
    BY DEF Begin
  <2> DEFINE x == <<p[1], runKey(me.event)>>
             run == [event |-> me.event, ver |-> p[2], actions |-> 0, logs |-> {},
                     status |-> "RUNNING"]
  <2>2. CASE runs' = runs
    BY <2>2 DEF RunsKeep
  <2>3. CASE runs' = Put(runs, x, run)
    <3>1. run.event = me.event /\ run.logs = {}
      OBVIOUS
    <3> HIDE DEF x, run
    <3>2. DOMAIN runs' = DOMAIN runs \cup {x} /\ runs'[x] = run
          /\ \A y \in DOMAIN runs' \ {x} : y \in DOMAIN runs /\ runs'[y] = runs[y]
      BY <2>3 DEF Put
    <3>3. \A y \in DOMAIN runs : Known(runs[y].event)
                                 /\ \A l \in runs[y].logs : \A e \in l.events : Known(e)
      BY DEF Known, InRuns
    <3> QED  BY <1>4, <3>1, <3>2, <3>3
  <2> QED  BY <2>1, <2>2, <2>3
<1>7. jobs' = jobs /\ waits' = waits /\ nextId' = nextId
  BY DEF Begin
<1> QED  BY <1>5, <1>6, <1>7, Untouched, NothingNew

\* Closing a run, counting its steps, planning it, collecting what it raised.
LEMMA ThroughKin ==
    ASSUME Typed, Kinship, NEW w \in Workers,
           CloseStopped(w) \/ Collect(w) \/ Skip(w) \/ Plan(w) \/ Count(w) \/ Refuse(w) \/ Finish(w)
    PROVE  Kinship'
<1> DEFINE me == workers[w]
<1>1. workers \in [Workers -> Worker] /\ me \in Worker
  BY DEF Typed, TypeOK
<1>2. /\ busy(w) /\ workers'[w].event = me.event
      /\ \A v \in Workers \ {w} : workers'[v] = workers[v]
  <2>1. Step(w) /\ ~Settle(w)
    BY DEF Step, CloseStopped, Collect, Skip, Plan, Count, Refuse, Finish, Settle
  <2> QED  BY <2>1, AtWork
<1>3. workers'[w].pc # "log"
  <2>1. afterSteps(me.ver, me.event) \in {"finish", "wait"}
    BY DEF afterSteps
  <2>2. CASE Plan(w)
    <3>1. PICK place \in {"finish", "wait", "count", "act"} : \E do, cut :
            workers' = [workers EXCEPT ![w].todo = do, ![w].cut = cut, ![w].did = 0,
                                       ![w].bad = 0, ![w].pc = place]
      BY <2>1, <2>2 DEF Plan
    <3> QED  BY <1>1, <3>1 DEF Worker
  <2>3. CASE Count(w)
    BY <1>1, <2>1, <2>3 DEF Count, Worker
  <2>4. CASE CloseStopped(w) \/ Collect(w) \/ Skip(w) \/ Refuse(w) \/ Finish(w)
    BY <1>1, <2>4 DEF CloseStopped, Collect, Skip, Refuse, Finish, Worker
  <2> QED  BY <2>2, <2>3, <2>4
<1>4. Known(me.event) /\ \A e \in me.out : Known(e)
  BY <1>2, HasKnown
<1>5. \A e \in workers'[w].out : Known(e)
  <2>1. CASE Collect(w)
    <3>1. runOf(w) \in DOMAIN runs
      BY <2>1, InHand DEF Collect, OnARule, PCs
    <3>2. workers'[w].out = me.out \cup followUps(runOf(w))
      BY <1>1, <2>1 DEF Collect, Worker
    <3> QED  BY <1>4, <3>1, <3>2 DEF followUps, Known, InRuns
  <2>2. CASE ~Collect(w)
    <3>1. workers'[w].out = me.out
      <4>1. CASE Plan(w)
        <5>1. \E place, do, cut :
                workers' = [workers EXCEPT ![w].todo = do, ![w].cut = cut, ![w].did = 0,
                                           ![w].bad = 0, ![w].pc = place]
          BY <4>1 DEF Plan
        <5> QED  BY <1>1, <5>1 DEF Worker
      <4>2. CASE ~Plan(w)
        <5>1. \E place : workers' = [workers EXCEPT ![w].pc = place]
          BY <2>2, <4>2 DEF CloseStopped, Skip, Count, Refuse, Finish
        <5> QED  BY <1>1, <5>1 DEF Worker
      <4> QED  BY <4>1, <4>2
    <3> QED  BY <1>4, <3>1
  <2> QED  BY <2>1, <2>2
<1>6. \A v \in Workers : \A e : AtWorker(v, e)' => Known(e)
  BY <1>2, <1>3, <1>5, GoesOnKnown
<1>7. RunsKeep
  <2>1. runs' = runs \/ (\E status : runs' = [runs EXCEPT ![runOf(w)].status = status])
                     \/ (\E n : runs' = [runs EXCEPT ![runOf(w)].actions = n])
    BY DEF CloseStopped, Collect, Skip, Plan, Count, Refuse, Finish, db
  <2> QED  BY <2>1, RunKeeps, Untouched
<1>8. jobs' = jobs /\ waits' = waits /\ nextId' = nextId
  BY DEF CloseStopped, Collect, Skip, Plan, Count, Refuse, Finish, db
<1> QED  BY <1>6, <1>7, <1>8, Untouched, NothingNew

\* Writing a step's line: what it raised is in the run, and to be published.
LEMMA LogKin ==
    ASSUME Typed, Kinship, NEW w \in Workers, Log(w)
    PROVE  Kinship'
<1> DEFINE me == workers[w]
           x == runOf(w)
<1>1. workers \in [Workers -> Worker] /\ me \in Worker
  BY DEF Typed, TypeOK
<1>2. /\ busy(w) /\ workers'[w].event = me.event
      /\ \A v \in Workers \ {w} : workers'[v] = workers[v]
  BY AtWork DEF Step, Log, Settle
<1>3. /\ Known(me.event) /\ \A e \in me.out : Known(e)
      /\ \A e \in me.line.events : Known(e)
  BY <1>2, HasKnown DEF Log
<1>4. workers'[w].pc # "log" /\ workers'[w].out = me.out \cup me.line.events
  BY <1>1 DEF Log, Worker
<1>5. \A v \in Workers : \A e : AtWorker(v, e)' => Known(e)
  BY <1>2, <1>3, <1>4, GoesOnKnown
<1>6. x \in DOMAIN runs /\ runs[x] \in Run
  BY InHand DEF Log, OnARule, PCs, Typed, TypeOK
<1>7. /\ DOMAIN runs' = DOMAIN runs /\ \A y \in DOMAIN runs \ {x} : runs'[y] = runs[y]
      /\ runs'[x].event = runs[x].event /\ runs'[x].logs = runs[x].logs \cup {me.line}
  <2>1. runs' = [runs EXCEPT ![x] = [runs[x] EXCEPT !.logs = runs[x].logs \cup {me.line}]]
    BY DEF Log
  <2> QED  BY <1>6, <2>1 DEF Run
<1>8. \A y \in DOMAIN runs' :
          Known(runs'[y].event) /\ \A l \in runs'[y].logs : \A e \in l.events : Known(e)
  <2>1. \A y \in DOMAIN runs : Known(runs[y].event)
                               /\ \A l \in runs[y].logs : \A e \in l.events : Known(e)
    BY DEF Known, InRuns
  <2> QED  BY <1>3, <1>6, <1>7, <2>1
<1>9. jobs' = jobs /\ waits' = waits /\ nextId' = nextId
  BY DEF Log
<1> QED  BY <1>5, <1>8, <1>9, Untouched, NothingNew

\* One event is new, under the next random id.
LEMMA OneNew ==
    ASSUME Typed, Kinship, nextId' = nextId + 1, NEW g \in Events,
           g.id \in {Random(nextId), Derived(Random(nextId), <<"resume", 0>>)},
           JobsKeep \/ \A k \in DOMAIN jobs' : LET e == jobs'[k].event IN Known(e) \/ e = g,
           RunsKeep,
           WorkersKeep \/ \A v \in Workers : \A e : AtWorker(v, e)' => Known(e) \/ e = g,
           WaitsKeep \/ \A d \in waits' : LET e == resumption(d) IN Known(e) \/ e = g
    PROVE  Kinship'
<1> DEFINE New == {g}
<1>1. \A e : e \in New <=> e = g
  OBVIOUS
<1> HIDE DEF New
<1>2. \A e : Known(e)' => Known(e) \/ e \in New
  BY <1>1, KnownFrom
<1>3. nextId \in Nat
  BY DEF Typed, TypeOK
<1> QED  BY <1>1, <1>2, <1>3, KinFresh

\* Performing a step: what it raises is new.
LEMMA ActKin ==
    ASSUME Typed, Kinship, NEW w \in Workers, Act(w)
    PROVE  Kinship'
<1> DEFINE me == workers[w]
           now == workers'[w]
<1>1. workers \in [Workers -> Worker] /\ me \in Worker /\ nextId \in Nat
  BY DEF Typed, TypeOK
<1>2. /\ busy(w) /\ now.event = me.event
      /\ \A v \in Workers \ {w} : workers'[v] = workers[v]
  BY AtWork DEF Step, Act, Settle
<1>3. Known(me.event) /\ \A e \in me.out : Known(e)
  BY <1>2, HasKnown
<1>4. PICK i \in me.todo, ok \in BOOLEAN, wrote \in BOOLEAN : ActWith(w, i, ok, wrote)
  BY DEF Act
<1> DEFINE completes == wrote /\ Kind[Steps[me.ver][i]] = "complete"
           raised == raisedBy(me, Steps[me.ver][i], ok, completes)
           found == me.found \/ completes
           line == [step |-> i, ok |-> ok, events |-> raised]
<1>5. now.out = me.out /\ now.pc = "log" /\ now.line.events = raised
  <2>1. workers' = [workers EXCEPT ![w].pc = "log", ![w].todo = @ \ {i}, ![w].found = found,
                                   ![w].line = line]
    BY <1>4 DEF ActWith
  <2>2. line.events = raised
    OBVIOUS
  <2> HIDE DEF found, line
  <2> QED  BY <1>1, <2>1, <2>2 DEF Worker
<1>6. nextId' = IF raised = {} THEN nextId ELSE nextId + 1
  BY <1>4 DEF ActWith
<1>7. jobs' = jobs /\ waits' = waits /\ runs' = runs
  BY DEF Act
<1>8. raised = {} \/ \E trigger \in Triggers : raised = {follow(me.rule, me.event, nextId, trigger)}
  BY DEF raisedBy, Triggers
<1> HIDE DEF raised
<1>9. CASE raised = {}
  <2> DEFINE New == {}
  <2>1. \A e : e \notin New
    OBVIOUS
  <2> HIDE DEF New
  <2>2. \A v \in Workers : \A e : AtWorker(v, e)' => Known(e) \/ e \in New
    BY <1>2, <1>3, <1>5, <1>9, MovedKnown
  <2> QED  BY <1>6, <1>7, <1>9, <2>1, <2>2, Untouched, NothingNew
<1>10. ASSUME NEW trigger \in Triggers, raised = {follow(me.rule, me.event, nextId, trigger)}
       PROVE  Kinship'
  <2> DEFINE g == follow(me.rule, me.event, nextId, trigger)
             New == {g}
  <2>1. g \in Events /\ g.id = Random(nextId)
    <3>1. me.event \in Events /\ me.rule \in Rules
      BY InHand DEF Act, OnARule, PCs
    <3> QED  BY <1>1, <3>1, FollowTyped DEF follow
  <2>2. raised = {g}
    BY <1>10
  <2> HIDE DEF g
  <2>3. \A e : e \in New <=> e = g
    OBVIOUS
  <2>4. \A e \in raised : e \in New
    BY <2>2
  <2> HIDE DEF New
  <2>5. \A v \in Workers : \A e : AtWorker(v, e)' => Known(e) \/ e \in New
    BY <1>2, <1>3, <1>5, <2>4, MovedKnown
  <2>6. nextId' = nextId + 1
    BY <1>6, <2>2
  <2>7. WorkersKeep \/ \A v \in Workers : \A e : AtWorker(v, e)' => Known(e) \/ e = g
    BY <2>3, <2>5
  <2>8. JobsKeep /\ RunsKeep /\ WaitsKeep
    BY <1>7, Untouched
  <2> QED  BY <2>1, <2>6, <2>7, <2>8, OneNew
<1> QED  BY <1>8, <1>9, <1>10

\* A run stops at one Wait step at most.
LEMMA OneWait ==
    ASSUME NEW v \in Versions, NEW e, NEW i \in delays(v, e), NEW j \in delays(v, e)
    PROVE  i = j
<1>1. DOMAIN Steps[v] \subseteq Nat
  BY EngineAssumption
<1>2. i < j \/ j < i \/ i = j
  BY <1>1 DEF delays
<1>3. /\ i < j => i \in 1..(j - 1)
      /\ j < i => j \in 1..(i - 1)
  <2>1. DOMAIN Steps[v] = 1..Len(Steps[v]) /\ Len(Steps[v]) \in Nat
    BY EngineAssumption
  <2> QED  BY <2>1 DEF delays
<1> QED  BY <1>2, <1>3 DEF delays

\* Leaving a row at the Wait reached: the resumption it stands for is new.
LEMMA ScheduleDelaysKin ==
    ASSUME Typed, Kinship, NEW w \in Workers, ScheduleDelays(w)
    PROVE  Kinship'
<1> DEFINE me == workers[w]
           ds == delays(me.ver, me.event)
           row(i) == [id |-> nextId, rule |-> me.rule, node |-> Steps[me.ver][i], ver |-> me.ver,
                      event |-> [me.event EXCEPT !.from = None], status |-> "PENDING"]
<1>1. workers \in [Workers -> Worker] /\ me \in Worker /\ nextId \in Nat
  BY DEF Typed, TypeOK
<1>2. /\ busy(w) /\ workers'[w].event = me.event
      /\ \A v \in Workers \ {w} : workers'[v] = workers[v]
  BY AtWork DEF Step, ScheduleDelays, Settle
<1>3. Known(me.event) /\ \A e \in me.out : Known(e)
  BY <1>2, HasKnown
<1>4. workers'[w].out = me.out /\ workers'[w].pc # "log"
  BY <1>1 DEF ScheduleDelays, Worker
<1>5. \A v \in Workers : \A e : AtWorker(v, e)' => Known(e)
  BY <1>2, <1>3, <1>4, GoesOnKnown
<1>6. /\ waits' = waits \cup {row(i) : i \in ds} /\ nextId' = nextId + 1
      /\ jobs' = jobs /\ runs' = runs
  BY DEF ScheduleDelays
<1>7. me.ver \in Versions /\ me.event \in Events /\ me.rule \in Rules
  BY InHand DEF ScheduleDelays, OnARule, PCs
<1>8. CASE ds = {}
  <2>1. waits' = waits
    BY <1>6, <1>8
  <2> QED  BY <1>5, <1>6, <2>1, Untouched, NothingNew
<1>9. ASSUME NEW i \in ds PROVE Kinship'
  <2>1. waits' = waits \cup {row(i)}
    BY <1>6, <1>7, OneWait
  <2> DEFINE d == row(i)
             g == resumption(d)
  <2>2. d \in WaitRow
    <3>1. Steps[me.ver] \in Seq(Nodes)
      BY <1>7, EngineAssumption
    <3>2. Steps[me.ver][i] \in Nodes
      BY <3>1 DEF delays
    <3>3. [me.event EXCEPT !.from = None] \in Events
      BY <1>7 DEF Events
    <3> QED  BY <1>1, <1>7, <3>2, <3>3 DEF WaitRow
  <2>3. d.id = nextId /\ waits' = waits \cup {d}
    BY <2>1
  <2> HIDE DEF d
  <2>4. g \in Events /\ g.id = Derived(Random(nextId), <<"resume", 0>>)
    <3>1. d.event \in Events /\ Derived(Random(d.id), <<"resume", 0>>) \in Ids
      BY <2>2, NamesTyped DEF WaitRow
    <3> QED  BY <2>2, <2>3, <3>1 DEF resumption, Events, WaitRow
  <2>5. \A c \in waits' : LET e == resumption(c) IN Known(e) \/ e = g
    BY <2>3 DEF Known
  <2> HIDE DEF g
  <2>6. JobsKeep /\ RunsKeep
    BY <1>6, Untouched
  <2>7. \A v \in Workers : \A e : AtWorker(v, e)' => Known(e) \/ e = g
    BY <1>5
  <2> QED  BY <1>6, <2>4, <2>5, <2>6, <2>7, OneNew
<1> QED  BY <1>8, <1>9

\* What a completion means to other tasks is derived from its event.
LEMMA RulesThroughKin ==
    ASSUME Typed, Kinship, NEW w \in Workers, RulesThrough(w)
    PROVE  Kinship'
<1> DEFINE me == workers[w]
           e == me.event
           more == IF e.trigger = "completed"
                   THEN subtaskRollup(e) \cup unblockedDependents(e) ELSE {}
           New == {h \in more : TRUE}
<1>1. workers \in [Workers -> Worker] /\ me \in Worker
  BY DEF Typed, TypeOK
<1>2. /\ busy(w) /\ workers'[w].event = e
      /\ \A v \in Workers \ {w} : workers'[v] = workers[v]
  BY AtWork DEF Step, RulesThrough, Settle
<1>3. Known(e) /\ \A f \in me.out : Known(f)
  BY <1>2, HasKnown
<1>4. workers'[w].pc # "log" /\ workers'[w].out = me.out \cup more
  BY <1>1 DEF RulesThrough, Worker
<1>5. \A h \in more : e.trigger = "completed"
                      /\ \E t \in Tasks : h \in {rolled(e, t), freed(e, t)}
  BY DEF subtaskRollup, unblockedDependents, rolled, freed
<1> HIDE DEF more
<1>6. \A h : h \in New <=> h \in more
  OBVIOUS
<1> HIDE DEF New
<1>7. JobsKeep /\ RunsKeep /\ WaitsKeep /\ nextId' = nextId
  BY Untouched DEF RulesThrough, db
<1>8. \A v \in Workers : \A h : AtWorker(v, h)' => Known(h) \/ h \in New
  BY <1>2, <1>3, <1>4, <1>6, MovedKnown
<1>9. \A h : Known(h)' => Known(h) \/ h \in New
  BY <1>7, <1>8, KnownFrom
<1>10. CASE New = {}
  BY <1>7, <1>9, <1>10, NothingNew, KinKept DEF Typed, TypeOK
<1>11. CASE New # {}
  <2>1. e.trigger = "completed"
    BY <1>5, <1>6, <1>11
  <2>2. ~Unblocking(e.id)
    BY <1>3, <2>1 DEF Kinship, SaysSo
  <2> QED  BY <1>3, <1>5, <1>6, <1>7, <1>9, <2>2, KinDerived
<1> QED  BY <1>10, <1>11

\* Publishing what is to be published, or losing it.
LEMMA PublishKin ==
    ASSUME Typed, Kinship, NEW w \in Workers, PublishNext(w) \/ LoseAdd(w)
    PROVE  Kinship'
<1> DEFINE me == workers[w]
<1>1. workers \in [Workers -> Worker] /\ me \in Worker
  BY DEF Typed, TypeOK
<1>2. PICK e \in me.out :
        /\ workers' = [workers EXCEPT ![w].out = @ \ {e}]
        /\ Enqueue(e) \/ jobs' = jobs
  BY DEF PublishNext, LoseAdd
<1>3. /\ busy(w) /\ workers'[w].event = me.event /\ workers'[w].pc # "log"
      /\ workers'[w].out \subseteq me.out
      /\ \A v \in Workers \ {w} : workers'[v] = workers[v]
  BY <1>1, <1>2 DEF PublishNext, LoseAdd, Worker, busy
<1>4. \A f \in me.out : Known(f)
  BY <1>3, HasKnown
<1>5. \A v \in Workers : \A f : AtWorker(v, f)' => Known(f)
  BY <1>3, <1>4, GoesOnKnown
<1>6. JobsKeep \/ \A k \in DOMAIN jobs' : Known(jobs'[k].event)
  BY <1>2, <1>4, Untouched, EnqueueKnown
<1>7. RunsKeep /\ WaitsKeep /\ nextId' = nextId
  BY Untouched DEF PublishNext, LoseAdd, db
<1> QED  BY <1>5, <1>6, <1>7, NothingNew

\* A worker leaves its job, loses its lock, or takes a job.
LEMMA JobKin ==
    ASSUME Typed, Kinship, NEW w \in Workers,
           Settle(w) \/ Throw(w) \/ Kill(w) \/ Stall(w) \/ \E k \in DOMAIN jobs : Load(w, k)
    PROVE  Kinship'
<1> DEFINE me == workers[w]
<1>1. workers \in [Workers -> Worker] /\ me \in Worker
  BY DEF Typed, TypeOK
<1>2. RunsKeep /\ WaitsKeep /\ nextId' = nextId
  BY Untouched DEF Settle, Throw, Kill, Stall, Load, db
<1>3. JobsKeep
  <2>1. PICK k : jobs' = jobs \/ (\E state : jobs' = [jobs EXCEPT ![k].state = state])
                 \/ Retry(k) \/ Redeliver(k)
    BY DEF Settle, Throw, Kill, Stall, Load
  <2> QED  BY <2>1, JobKeeps, Untouched
<1>4. WorkersKeep \/ \A v \in Workers : \A e : AtWorker(v, e)' => Known(e)
  <2>1. CASE Settle(w) \/ Throw(w) \/ Kill(w)
    <3>1. workers'[w] = Idle /\ \A v \in Workers \ {w} : workers'[v] = workers[v]
      BY <1>1, <2>1 DEF Settle, Throw, Kill
    <3>2. \A e : ~AtWorker(w, e)'
      BY <3>1 DEF AtWorker, Idle
    <3> QED  BY <3>1, <3>2, WorkerKeeps
  <2>2. CASE Stall(w)
    <3>1. /\ workers'[w].pc = me.pc /\ workers'[w].event = me.event /\ workers'[w].out = me.out
          /\ workers'[w].line = me.line /\ \A v \in Workers \ {w} : workers'[v] = workers[v]
      BY <1>1, <2>2 DEF Stall, Worker
    <3> QED  BY <3>1, WorkerKeeps DEF AtWorker
  <2>3. ASSUME NEW k \in DOMAIN jobs, Load(w, k)
        PROVE  \A v \in Workers : \A e : AtWorker(v, e)' => Known(e)
    <3> DEFINE New == {}
    <3>1. /\ workers'[w].pc = "rules" /\ workers'[w].event = jobs[k].event /\ workers'[w].out = {}
          /\ \A v \in Workers \ {w} : workers'[v] = workers[v]
      BY <1>1, <2>3 DEF Load, Idle
    <3>2. Known(jobs[k].event)
      BY DEF Known, InJobs
    <3>3. \A e : e \notin New
      OBVIOUS
    <3> HIDE DEF New
    <3>4. \A v \in Workers : \A e : AtWorker(v, e)' => Known(e) \/ e \in New
      BY <3>1, <3>2, MovedKnown
    <3> QED  BY <3>3, <3>4
  <2> QED  BY <2>1, <2>2, <2>3
<1> QED  BY <1>2, <1>3, <1>4, NothingNew

\* The stop at the depth limit, the clock's steps, a job forgotten, a rule switched.
LEMMA ElsewhereKin ==
    ASSUME Typed, Kinship,
           \/ \E k \in DOMAIN jobs : StopAtDepth(k)
           \/ Clock
           \/ (\E v : Publish(v)) \/ (\E r : Pause(r))
           \/ (\E k : Expire(k)) \/ (\E d \in waits : TickDies(d)) \/ UNCHANGED vars
    PROVE  Kinship'
<1>1. WorkersKeep /\ nextId' = nextId
  BY Untouched DEF StopAtDepth, Clock, ClaimWait, ResumeWait, Publish, Pause, Expire, TickDies, vars
<1>2. ASSUME NEW k \in DOMAIN jobs, StopAtDepth(k) PROVE Kinship'
  <2> DEFINE e == jobs[k].event
             run == [event |-> e, ver |-> None, actions |-> 0, logs |-> {}, status |-> "SKIPPED"]
  <2>1. Known(e)
    BY DEF Known, InJobs
  <2>2. JobsKeep
    BY <1>2, JobKeeps DEF StopAtDepth
  <2>3. WaitsKeep
    BY <1>2, Untouched DEF StopAtDepth
  <2>4. RunsKeep \/ \A x \in DOMAIN runs' :
            Known(runs'[x].event) /\ \A l \in runs'[x].logs : \A f \in l.events : Known(f)
    <3>1. CASE runs' = runs
      BY <3>1, Untouched
    <3>2. ASSUME NEW x, runs' = Put(runs, x, run)
          PROVE  \A y \in DOMAIN runs' :
                   Known(runs'[y].event) /\ \A l \in runs'[y].logs : \A f \in l.events : Known(f)
      <4>1. run.event = e /\ run.logs = {}
        OBVIOUS
      <4> HIDE DEF run
      <4>2. DOMAIN runs' = DOMAIN runs \cup {x} /\ runs'[x] = run
            /\ \A y \in DOMAIN runs' \ {x} : y \in DOMAIN runs /\ runs'[y] = runs[y]
        BY <3>2 DEF Put
      <4>3. \A y \in DOMAIN runs : Known(runs[y].event)
                                   /\ \A l \in runs[y].logs : \A f \in l.events : Known(f)
        BY DEF Known, InRuns
      <4> QED  BY <2>1, <4>1, <4>2, <4>3
    <3> QED  BY <1>2, <3>1, <3>2 DEF StopAtDepth
  <2> QED  BY <1>1, <2>2, <2>3, <2>4, NothingNew
<1>3. ASSUME NEW d \in waits, ClaimWait(d) \/ ResumeWait(d) \/ TickDies(d) PROVE Kinship'
  <2>1. WaitsKeep
    BY <1>3, WaitKeeps DEF ClaimWait, ResumeWait, TickDies
  <2>2. JobsKeep \/ \A k \in DOMAIN jobs' : Known(jobs'[k].event)
    <3>1. Known(resumption(d))
      BY DEF Known
    <3> QED  BY <1>3, <3>1, Untouched, EnqueueKnown DEF ClaimWait, ResumeWait, TickDies
  <2>3. RunsKeep
    BY <1>3, Untouched DEF ClaimWait, ResumeWait, TickDies
  <2> QED  BY <1>1, <2>1, <2>2, <2>3, NothingNew
<1>4. ASSUME NEW k, Expire(k) PROVE Kinship'
  <2>1. JobsKeep /\ RunsKeep /\ WaitsKeep
    BY <1>4, Untouched DEF Expire, JobsKeep, db
  <2> QED  BY <1>1, <2>1, NothingNew
<1>5. CASE (\E v : Publish(v)) \/ (\E r : Pause(r)) \/ UNCHANGED vars
  <2>1. JobsKeep /\ RunsKeep /\ WaitsKeep
    BY <1>5, Untouched DEF Publish, Pause, vars, db
  <2> QED  BY <1>1, <2>1, NothingNew
<1> QED  BY <1>2, <1>3, <1>4, <1>5 DEF Clock

\* People's edits: the event that announces one is new.
LEMMA EditKin ==
    ASSUME Typed, Kinship, NEW t \in Tasks, Complete(t) \/ Change(t)
    PROVE  Kinship'
<1>1. PICK trigger \in Triggers :
        Enqueue(RootEvent(nextId, trigger, t)) /\ nextId' = nextId + 1
  BY DEF Complete, Change, Triggers
<1> DEFINE g == RootEvent(nextId, trigger, t)
<1>2. g \in Events /\ g.id = Random(nextId)
  BY RootTyped DEF Typed, TypeOK, RootEvent
<1> HIDE DEF g
<1>3. Enqueue(g)
  BY <1>1 DEF g
<1>4. \A k \in DOMAIN jobs' : LET e == jobs'[k].event IN Known(e) \/ e = g
  BY <1>3, EnqueueKnown
<1>5. RunsKeep /\ WorkersKeep /\ WaitsKeep
  BY Untouched DEF Complete, Change, db
<1> QED  BY <1>1, <1>2, <1>4, <1>5, OneNew

\* Every step keeps the kinship.
LEMMA KinshipStep == Typed /\ Kinship /\ [Next]_vars => Kinship'
<1> SUFFICES ASSUME Typed, Kinship, [Next]_vars PROVE Kinship'
  OBVIOUS
<1>1. ASSUME NEW w \in Workers, Step(w) PROVE Kinship'
  BY <1>1, BeginKin, ThroughKin, LogKin, ActKin, ScheduleDelaysKin, RulesThroughKin, PublishKin,
     JobKin DEF Step
<1>2. CASE Take
  BY <1>2, JobKin, ElsewhereKin DEF Take
<1>3. CASE Clock \/ UNCHANGED vars
  BY <1>3, ElsewhereKin
<1>4. CASE People
  BY <1>4, EditKin, ElsewhereKin DEF People
<1>5. CASE Misfortune
  BY <1>5, JobKin, PublishKin, ElsewhereKin DEF Misfortune
<1> QED  BY <1>1, <1>2, <1>3, <1>4, <1>5 DEF Next

----------------------------------------------------------------------------
(* Versions: a resumed event is answered on its version, and a Wait's row  *)
(* was left by a run that stopped there.                                   *)

Faithful(e, v) == Resuming(e) /\ e.version # None => v = e.version

Versioned ==
    /\ \A w \in Workers : busy(w) =>
         /\ workers[w].event.depth < MaxDepth
         /\ \A p \in workers[w].left : Faithful(workers[w].event, p[2])
         /\ workers[w].pc \in OnARule => Faithful(workers[w].event, workers[w].ver)
    /\ \A x \in DOMAIN runs :
         IF runs[x].ver = None THEN runs[x].event.depth >= MaxDepth
                               ELSE Faithful(runs[x].event, runs[x].ver)

\* The run y of the row's rule and version stopped at the row's Wait step.
LeftBy(d, y) ==
    /\ y[1] = d.rule /\ runs[y].event.id = d.event.id /\ runs[y].ver = d.ver
    /\ \E i \in delays(d.ver, runs[y].event) : Steps[d.ver][i] = d.node
Left == \A d \in waits : d.event.depth < MaxDepth /\ \E y \in DOMAIN runs : LeftBy(d, y)

\* A worker keeps the rules it has left and, on a rule, that rule and its version.
KeepsRule(w) ==
    LET me == workers[w]  now == workers'[w] IN
    /\ now.left = me.left
    /\ now.pc \in OnARule => me.pc \in OnARule /\ now.rule = me.rule /\ now.ver = me.ver

LEMMA OnItsRule ==
    ASSUME Typed, NEW w \in Workers, Step(w), ~Begin(w), ~Settle(w)
    PROVE  KeepsRule(w)
<1> DEFINE me == workers[w]
<1>1. workers \in [Workers -> Worker] /\ me \in Worker
  BY DEF Typed, TypeOK
<1>2. ASSUME NEW place, place \in OnARule => me.pc \in OnARule,
             workers' = [workers EXCEPT ![w].pc = place]
      PROVE  KeepsRule(w)
  BY <1>1, <1>2 DEF KeepsRule, Worker
<1>3. ASSUME NEW place, NEW out, place \notin OnARule,
             workers' = [workers EXCEPT ![w].pc = place, ![w].out = out]
      PROVE  KeepsRule(w)
  BY <1>1, <1>3 DEF KeepsRule, Worker
<1>4. ASSUME NEW place, NEW todo, NEW cut, me.pc \in OnARule,
             workers' = [workers EXCEPT ![w].todo = todo, ![w].cut = cut, ![w].did = 0,
                                        ![w].bad = 0, ![w].pc = place]
      PROVE  KeepsRule(w)
  BY <1>1, <1>4 DEF KeepsRule, Worker
<1>6. ASSUME NEW place, NEW did, NEW bad, NEW out, NEW line, me.pc \in OnARule,
             workers' = [workers EXCEPT ![w].pc = place, ![w].did = did, ![w].bad = bad,
                                        ![w].out = out, ![w].line = line]
      PROVE  KeepsRule(w)
  BY <1>1, <1>6 DEF KeepsRule, Worker
<1>7. ASSUME NEW out, workers' = [workers EXCEPT ![w].out = out] PROVE KeepsRule(w)
  BY <1>1, <1>7 DEF KeepsRule, Worker
<1> HIDE DEF KeepsRule
<1>8. me.pc \in {"close", "collect", "plan", "act", "log", "count", "refuse", "wait", "finish"}
        => me.pc \in OnARule
  BY DEF OnARule, PCs
<1>9. CASE CloseStopped(w) \/ Skip(w) \/ Count(w) \/ Refuse(w) \/ ScheduleDelays(w) \/ Finish(w)
  BY <1>2, <1>8, <1>9 DEF CloseStopped, Skip, Count, Refuse, ScheduleDelays, Finish
<1>10. CASE Collect(w) \/ RulesThrough(w)
  BY <1>3, <1>10 DEF Collect, RulesThrough, OnARule
<1>11. CASE Plan(w)
  BY <1>4, <1>8, <1>11 DEF Plan
<1>12. CASE Act(w)
  <2>1. PICK i \in me.todo, ok \in BOOLEAN, wrote \in BOOLEAN : ActWith(w, i, ok, wrote)
    BY <1>12 DEF Act
  <2>2. \E todo, found, line :
          workers' = [workers EXCEPT ![w].pc = "log", ![w].todo = todo, ![w].found = found,
                                     ![w].line = line]
    BY <2>1 DEF ActWith
  <2>3. me.pc \in OnARule
    BY <1>8, <1>12 DEF Act
  <2> QED  BY <1>1, <2>2, <2>3 DEF KeepsRule, Worker
<1>13. CASE Log(w)
  BY <1>6, <1>8, <1>13 DEF Log
<1>14. CASE PublishNext(w)
  BY <1>7, <1>14 DEF PublishNext
<1> QED  BY <1>9, <1>10, <1>11, <1>12, <1>13, <1>14 DEF Step

\* Runs on record keep their event and version; a worker records new ones for its
\* event, and the depth limit does.
RunsStand ==
    \A x \in DOMAIN runs :
        x \in DOMAIN runs' /\ runs'[x].event = runs[x].event /\ runs'[x].ver = runs[x].ver

LEMMA Standing ==
    ASSUME Typed, NEW x, (\E status : runs' = [runs EXCEPT ![x].status = status])
                         \/ (\E n : runs' = [runs EXCEPT ![x].actions = n])
                         \/ (\E logs : runs' = [runs EXCEPT ![x].logs = logs])
    PROVE  RunsStand /\ DOMAIN runs' = DOMAIN runs
<1>1. runs \in [DOMAIN runs -> Run]
  BY DEF Typed, TypeOK
<1>2. PICK run : runs' = [runs EXCEPT ![x] = run]
                 /\ (x \in DOMAIN runs => run.event = runs[x].event /\ run.ver = runs[x].ver)
  <2> DEFINE Is(run) == runs' = [runs EXCEPT ![x] = run]
                 /\ (x \in DOMAIN runs => run.event = runs[x].event /\ run.ver = runs[x].ver)
  <2>1. ASSUME NEW status, runs' = [runs EXCEPT ![x].status = status]
        PROVE  Is([runs[x] EXCEPT !.status = status])
    BY <1>1, <2>1 DEF Run
  <2>2. ASSUME NEW n, runs' = [runs EXCEPT ![x].actions = n]
        PROVE  Is([runs[x] EXCEPT !.actions = n])
    BY <1>1, <2>2 DEF Run
  <2>3. ASSUME NEW logs, runs' = [runs EXCEPT ![x].logs = logs]
        PROVE  Is([runs[x] EXCEPT !.logs = logs])
    BY <1>1, <2>3 DEF Run
  <2>4. \E run : Is(run)
    <3> HIDE DEF Is
    <3> QED  BY <2>1, <2>2, <2>3
  <2> QED  BY <2>4
<1> QED  BY <1>2 DEF RunsStand

LEMMA RunPutStands ==
    ASSUME NEW x, x \notin DOMAIN runs, NEW run, runs' = Put(runs, x, run)
    PROVE  RunsStand
BY DEF RunsStand, Put

\* In every step.
LEMMA RunsStep ==
    ASSUME Typed, [Next]_vars
    PROVE  /\ RunsStand
           /\ \/ DOMAIN runs' = DOMAIN runs
              \/ \E w \in Workers : Begin(w)
              \/ \E k \in DOMAIN jobs : StopAtDepth(k)
<1> DEFINE Goal == /\ RunsStand
                   /\ \/ DOMAIN runs' = DOMAIN runs
                      \/ \E w \in Workers : Begin(w)
                      \/ \E k \in DOMAIN jobs : StopAtDepth(k)
<1> SUFFICES Goal
  OBVIOUS
<1>1. ASSUME runs' = runs PROVE Goal
  BY <1>1 DEF RunsStand
<1>2. ASSUME NEW w \in Workers, Begin(w) PROVE Goal
  <2>1. PICK x, run : runs' = runs \/ (x \notin DOMAIN runs /\ runs' = Put(runs, x, run))
    BY <1>2 DEF Begin, made
  <2> QED  BY <1>1, <1>2, <2>1, RunPutStands
<1>3. ASSUME NEW k \in DOMAIN jobs, StopAtDepth(k) PROVE Goal
  <2>1. \E x, run : runs' = runs \/ (x \notin DOMAIN runs /\ runs' = Put(runs, x, run))
    BY <1>3 DEF StopAtDepth
  <2> QED  BY <1>1, <1>3, <2>1, RunPutStands
<1>4. ASSUME NEW x, (\E status : runs' = [runs EXCEPT ![x].status = status])
                    \/ (\E n : runs' = [runs EXCEPT ![x].actions = n])
                    \/ (\E logs : runs' = [runs EXCEPT ![x].logs = logs])
      PROVE  Goal
  BY <1>4, Standing
<1> HIDE DEF Goal
<1>5. ASSUME NEW w \in Workers, Step(w) PROVE Goal
  <2>1. CASE CloseStopped(w) \/ Skip(w) \/ Log(w) \/ Count(w) \/ Refuse(w) \/ Finish(w)
    BY <1>4, <2>1 DEF CloseStopped, Skip, Log, Count, Refuse, Finish
  <2>2. CASE Collect(w) \/ Plan(w) \/ Act(w) \/ ScheduleDelays(w) \/ RulesThrough(w)
             \/ PublishNext(w) \/ Settle(w)
    BY <1>1, <2>2 DEF Collect, Plan, Act, ScheduleDelays, RulesThrough, PublishNext, Settle, db
  <2> QED  BY <1>2, <1>5, <2>1, <2>2 DEF Step
<1>6. CASE Take
  BY <1>1, <1>3, <1>6 DEF Take, Load, db
<1>7. CASE Clock \/ People \/ Misfortune \/ UNCHANGED vars
  BY <1>1, <1>7 DEF Clock, ClaimWait, ResumeWait, People, Complete, Change, Publish, Pause,
     Misfortune, Throw, Kill, Stall, LoseAdd, Expire, TickDies, vars, db
<1> QED  BY <1>5, <1>6, <1>7 DEF Next

\* Every worker keeps its event and rules or is idle, and no run is new.
LEMMA VersionedKept ==
    ASSUME Versioned, RunsStand, DOMAIN runs' = DOMAIN runs,
           \A v \in Workers :
               \/ workers'[v] = workers[v] \/ ~busy(v)'
               \/ busy(v) /\ workers'[v].event = workers[v].event /\ KeepsRule(v)
    PROVE  Versioned'
<1>1. \A v \in Workers : busy(v)' =>
         /\ workers'[v].event.depth < MaxDepth
         /\ \A p \in workers'[v].left : Faithful(workers'[v].event, p[2])
         /\ workers'[v].pc \in OnARule => Faithful(workers'[v].event, workers'[v].ver)
  BY DEF Versioned, busy, KeepsRule
<1>2. \A x \in DOMAIN runs' :
         IF runs'[x].ver = None THEN runs'[x].event.depth >= MaxDepth
                                ELSE Faithful(runs'[x].event, runs'[x].ver)
  BY DEF Versioned, RunsStand
<1> QED  BY <1>1, <1>2 DEF Versioned, Faithful, Resuming, busy

\* A rule is taken up at the version loaded for it, and its run is made on it.
LEMMA BeginVersioned ==
    ASSUME Typed, Versioned, NEW w \in Workers, Begin(w)
    PROVE  Versioned'
<1> DEFINE me == workers[w]
<1>1. workers \in [Workers -> Worker] /\ me \in Worker
  BY DEF Typed, TypeOK
<1>2. /\ busy(w) /\ workers'[w].event = me.event
      /\ \A v \in Workers \ {w} : workers'[v] = workers[v]
  BY AtWork DEF Step, Begin, Settle
<1>3. PICK p \in me.left :
        LET x == <<p[1], runKey(me.event)>> IN
        /\ workers' = [workers EXCEPT
               ![w].left = @ \ {p}, ![w].rule = p[1], ![w].ver = p[2],
               ![w].pc = IF ~made(x) THEN "plan"
                         ELSE IF runs[x].status = "RUNNING" THEN "close" ELSE "collect"]
        /\ runs' = IF made(x) THEN runs
                   ELSE Put(runs, x, [event |-> me.event, ver |-> p[2], actions |-> 0,
                                      logs |-> {}, status |-> "RUNNING"])
  BY DEF Begin
<1> DEFINE x == <<p[1], runKey(me.event)>>
           run == [event |-> me.event, ver |-> p[2], actions |-> 0, logs |-> {},
                   status |-> "RUNNING"]
<1>4. workers'[w].left = me.left \ {p} /\ workers'[w].ver = p[2]
  BY <1>1, <1>3 DEF Worker
<1>5. p[2] # None
  <2>1. p \in Rules \X Versions
    BY <1>1 DEF Worker
  <2> QED  BY <2>1, EngineAssumption
<1>6. Faithful(me.event, p[2]) /\ me.event.depth < MaxDepth
  BY <1>2 DEF Versioned
<1>7. \A v \in Workers : busy(v)' =>
         /\ workers'[v].event.depth < MaxDepth
         /\ \A q \in workers'[v].left : Faithful(workers'[v].event, q[2])
         /\ workers'[v].pc \in OnARule => Faithful(workers'[v].event, workers'[v].ver)
  BY <1>2, <1>4, <1>6 DEF Versioned, busy
<1>8. run.event = me.event /\ run.ver = p[2]
  OBVIOUS
<1>9. runs' = runs \/ runs' = Put(runs, x, run)
  BY <1>3
<1> HIDE DEF x, run
<1>10. \A y \in DOMAIN runs' : (y \in DOMAIN runs /\ runs'[y] = runs[y]) \/ runs'[y] = run
  BY <1>9 DEF Put
<1>11. \A y \in DOMAIN runs' :
         IF runs'[y].ver = None THEN runs'[y].event.depth >= MaxDepth
                                ELSE Faithful(runs'[y].event, runs'[y].ver)
  BY <1>5, <1>6, <1>8, <1>10 DEF Versioned
<1> QED  BY <1>7, <1>11 DEF Versioned, Faithful, Resuming, busy

\* Taking a job picks each rule's version for it.
LEMMA LoadVersioned ==
    ASSUME Typed, Versioned, NEW w \in Workers, NEW k \in DOMAIN jobs, Load(w, k)
    PROVE  Versioned'
<1> DEFINE e == jobs[k].event
           left == {<<r, versionFor(e, r)>> : r \in answering(e)}
<1>1. workers \in [Workers -> Worker]
  BY DEF Typed, TypeOK
<1>2. /\ workers'[w].pc = "rules" /\ workers'[w].event = e /\ workers'[w].left = left
      /\ \A v \in Workers \ {w} : workers'[v] = workers[v]
  BY <1>1 DEF Load, Idle
<1>3. \A p \in left : Faithful(e, p[2])
  BY DEF Faithful, versionFor
<1>4. e.depth < MaxDepth /\ runs' = runs
  BY DEF Load, db
<1>5. workers'[w].pc \notin OnARule
  BY <1>2 DEF OnARule
<1> HIDE DEF left
<1>6. \A v \in Workers : busy(v)' =>
         /\ workers'[v].event.depth < MaxDepth
         /\ \A q \in workers'[v].left : Faithful(workers'[v].event, q[2])
         /\ workers'[v].pc \in OnARule => Faithful(workers'[v].event, workers'[v].ver)
  BY <1>2, <1>3, <1>4, <1>5 DEF Versioned, busy
<1> QED  BY <1>4, <1>6 DEF Versioned, Faithful, Resuming, busy

\* The depth limit's run is on no version.
LEMMA StopVersioned ==
    ASSUME Typed, Versioned, NEW k \in DOMAIN jobs, StopAtDepth(k)
    PROVE  Versioned'
<1> DEFINE e == jobs[k].event
           run == [event |-> e, ver |-> None, actions |-> 0, logs |-> {}, status |-> "SKIPPED"]
<1>1. workers' = workers /\ e.depth >= MaxDepth
  BY DEF StopAtDepth
<1>2. run.event = e /\ run.ver = None
  OBVIOUS
<1>3. runs' = runs \/ \E x : runs' = Put(runs, x, run)
  BY DEF StopAtDepth
<1> HIDE DEF run
<1>4. \A y \in DOMAIN runs' : (y \in DOMAIN runs /\ runs'[y] = runs[y]) \/ runs'[y] = run
  BY <1>3 DEF Put
<1>5. \A y \in DOMAIN runs' :
         IF runs'[y].ver = None THEN runs'[y].event.depth >= MaxDepth
                                ELSE Faithful(runs'[y].event, runs'[y].ver)
  BY <1>1, <1>2, <1>4 DEF Versioned
<1> QED  BY <1>1, <1>5 DEF Versioned, Faithful, Resuming, busy

\* A worker in a misfortune stays with what it had, or has nothing.
LEMMA Mishap ==
    ASSUME Typed, NEW w \in Workers, Settle(w) \/ Throw(w) \/ Kill(w) \/ Stall(w) \/ LoseAdd(w)
    PROVE  /\ \A v \in Workers \ {w} : workers'[v] = workers[v]
           /\ ~busy(w)' \/ (busy(w) /\ workers'[w].event = workers[w].event /\ KeepsRule(w))
<1>1. workers \in [Workers -> Worker] /\ workers[w] \in Worker
  BY DEF Typed, TypeOK
<1>2. CASE Settle(w) \/ Throw(w) \/ Kill(w)
  BY <1>1, <1>2 DEF Settle, Throw, Kill, busy, Idle
<1>3. CASE Stall(w)
  BY <1>1, <1>3 DEF Stall, Worker, busy, KeepsRule
<1>4. CASE LoseAdd(w)
  <2>1. \E out : workers' = [workers EXCEPT ![w].out = out]
    BY <1>4 DEF LoseAdd
  <2>2. /\ \A v \in Workers \ {w} : workers'[v] = workers[v]
        /\ workers'[w].pc = workers[w].pc /\ workers'[w].event = workers[w].event
        /\ workers'[w].left = workers[w].left
    BY <1>1, <2>1 DEF Worker
  <2>3. workers[w].pc = "publish"
    BY <1>4 DEF LoseAdd
  <2> QED  BY <2>2, <2>3 DEF busy, KeepsRule, OnARule
<1> QED  BY <1>2, <1>3, <1>4

\* Every step keeps versions as they should be.
LEMMA VersionedStep == Typed /\ Versioned /\ [Next]_vars => Versioned'
<1> SUFFICES ASSUME Typed, Versioned, [Next]_vars PROVE Versioned'
  OBVIOUS
<1>1. RunsStand
  BY RunsStep
<1>2. CASE \/ \E w \in Workers : Begin(w)
           \/ \E w \in Workers, k \in DOMAIN jobs : Load(w, k)
           \/ \E k \in DOMAIN jobs : StopAtDepth(k)
  BY <1>2, BeginVersioned, LoadVersioned, StopVersioned
<1>3. CASE ~ \/ \E w \in Workers : Begin(w)
             \/ \E w \in Workers, k \in DOMAIN jobs : Load(w, k)
             \/ \E k \in DOMAIN jobs : StopAtDepth(k)
  <2>1. DOMAIN runs' = DOMAIN runs
    BY <1>3, RunsStep
  <2>2. ASSUME NEW w \in Workers, Step(w) PROVE Versioned'
    <3>1. CASE Settle(w)
      BY <1>1, <2>1, <3>1, Mishap, VersionedKept
    <3>2. CASE ~Settle(w)
      BY <1>1, <1>3, <2>1, <2>2, <3>2, AtWork, OnItsRule, VersionedKept
    <3> QED  BY <3>1, <3>2
  <2>3. ASSUME NEW w \in Workers, Throw(w) \/ Kill(w) \/ Stall(w) \/ LoseAdd(w) PROVE Versioned'
    BY <1>1, <2>1, <2>3, Mishap, VersionedKept
  <2>4. ASSUME workers' = workers PROVE Versioned'
    BY <1>1, <2>1, <2>4, VersionedKept
  <2>5. CASE Take \/ Clock \/ People \/ UNCHANGED vars
    BY <1>3, <2>4, <2>5 DEF Take, Clock, ClaimWait, ResumeWait, People, Complete, Change,
       Publish, Pause, vars, db
  <2>6. CASE Misfortune
    BY <2>3, <2>4, <2>6 DEF Misfortune, Expire, TickDies
  <2> QED  BY <2>2, <2>5, <2>6 DEF Next
<1> QED  BY <1>2, <1>3

\* A row is left by the run of the worker that writes it.
LEMMA LeftStep == Typed /\ Whole /\ Versioned /\ Left /\ [Next]_vars => Left'
<1> SUFFICES ASSUME Typed, Whole, Versioned, Left, [Next]_vars PROVE Left'
  OBVIOUS
<1>1. RunsStand
  BY RunsStep
<1>2. ASSUME NEW c, NEW d, c.event = d.event, c.rule = d.rule, c.ver = d.ver, c.node = d.node,
             NEW y \in DOMAIN runs, LeftBy(c, y)
      PROVE  y \in DOMAIN runs' /\ LeftBy(d, y)'
  BY <1>1, <1>2 DEF LeftBy, RunsStand
<1>3. ASSUME waits' = waits PROVE Left'
  <2> SUFFICES ASSUME NEW d \in waits
               PROVE  d.event.depth < MaxDepth /\ \E y \in DOMAIN runs' : LeftBy(d, y)'
    BY <1>3 DEF Left
  <2> QED  BY <1>2 DEF Left
<1>4. ASSUME NEW c \in waits, ClaimWait(c) \/ ResumeWait(c) \/ TickDies(c) PROVE Left'
  <2>1. PICK status : waits' = (waits \ {c}) \cup {[c EXCEPT !.status = status]}
    BY <1>4 DEF ClaimWait, ResumeWait, TickDies
  <2> DEFINE d == [c EXCEPT !.status = status]
  <2>2. d.event = c.event /\ d.rule = c.rule /\ d.ver = c.ver /\ d.node = c.node
    BY DEF Typed, TypeOK, WaitRow
  <2> HIDE DEF d
  <2>3. \A b \in waits' : b \in waits \/ b = d
    BY <2>1 DEF d
  <2>4. \A b \in waits : b.event.depth < MaxDepth /\ \E y \in DOMAIN runs' : LeftBy(b, y)'
    BY <1>2 DEF Left
  <2>5. d.event.depth < MaxDepth /\ \E y \in DOMAIN runs' : LeftBy(d, y)'
    BY <1>2, <2>2 DEF Left
  <2> QED  BY <2>3, <2>4, <2>5 DEF Left
<1>5. ASSUME NEW w \in Workers, ScheduleDelays(w) PROVE Left'
  <2> DEFINE me == workers[w]
             row(i) == [id |-> nextId, rule |-> me.rule, node |-> Steps[me.ver][i],
                        ver |-> me.ver, event |-> [me.event EXCEPT !.from = None],
                        status |-> "PENDING"]
  <2>0. PICK y : y = runOf(w)
    OBVIOUS
  <2>1. /\ me.pc = "wait" /\ runs' = runs
        /\ waits' = waits \cup {row(i) : i \in delays(me.ver, me.event)}
    BY <1>5 DEF ScheduleDelays
  <2>2. y \in DOMAIN runs /\ me.event \in Events /\ y[1] = me.rule
    BY <2>0, <2>1, InHand DEF OnARule, PCs, runOf
  <2>3. runs[y].ver = me.ver /\ runs[y].event = me.event
    BY <2>0, <2>1 DEF Whole, Tells, Making
  <2>4. me.event.depth < MaxDepth
    BY <2>1 DEF Versioned, busy
  <2>5. ASSUME NEW d, NEW i \in delays(me.ver, me.event), d = row(i)
        PROVE  d.event.depth < MaxDepth /\ \E x \in DOMAIN runs' : LeftBy(d, x)'
    <3>1. /\ d.event.depth = me.event.depth /\ d.event.id = me.event.id
          /\ d.rule = me.rule /\ d.node = Steps[me.ver][i] /\ d.ver = me.ver
      BY <2>2, <2>5 DEF Events
    <3>2. LeftBy(d, y)
      BY <2>2, <2>3, <3>1 DEF LeftBy
    <3>3. y \in DOMAIN runs' /\ LeftBy(d, y)'
      BY <1>2, <2>2, <3>2
    <3> QED  BY <2>4, <3>1, <3>3
  <2>6. \A b \in waits : b.event.depth < MaxDepth /\ \E x \in DOMAIN runs' : LeftBy(b, x)'
    BY <1>2 DEF Left
  <2> HIDE DEF row
  <2>7. ASSUME NEW d \in waits'
        PROVE  d.event.depth < MaxDepth /\ \E x \in DOMAIN runs' : LeftBy(d, x)'
    BY <2>1, <2>5, <2>6
  <2> QED  BY <2>7 DEF Left
<1>6. ASSUME NEW w \in Workers, Step(w) PROVE Left'
  BY <1>3, <1>5, <1>6 DEF Step, Begin, CloseStopped, Collect, Skip, Plan, Act, Log, Count, Refuse,
     Finish, RulesThrough, PublishNext, Settle, db
<1>7. CASE Take \/ People \/ UNCHANGED vars
  BY <1>3, <1>7 DEF Take, Load, StopAtDepth, People, Complete, Change, Publish, Pause, vars, db
<1>8. CASE Clock
  BY <1>4, <1>8 DEF Clock
<1>9. CASE Misfortune
  BY <1>3, <1>4, <1>9 DEF Misfortune, Throw, Kill, Stall, LoseAdd, Expire, db
<1> QED  BY <1>6, <1>7, <1>8, <1>9 DEF Next

\* A run of a row's resumption is on the row's version, and past its Wait.
LEMMA ResumedRight ==
    ASSUME Typed, Whole, Kinship, Versioned, Left
    PROVE  ResumesItsRun
<1> SUFFICES ASSUME NEW d \in waits, NEW x \in DOMAIN runs, x = <<d.rule, runKey(resumption(d))>>
             PROVE  \E y \in DOMAIN runs :
                      /\ y[1] = d.rule /\ runs[y].event.id = d.event.id /\ runs[y].ver = runs[x].ver
                      /\ \A l \in runs[y].logs, m \in runs[x].logs : l.step < m.step
  BY DEF ResumesItsRun
<1> DEFINE e == resumption(d)
<1>1. d \in WaitRow
  BY DEF Typed, TypeOK
<1>2. /\ e.id = Derived(Random(d.id), <<"resume", 0>>) /\ e.rule = d.rule /\ e.from = d.node
      /\ e.version = d.ver /\ e.depth = d.event.depth
  BY <1>1 DEF resumption, WaitRow, Events
<1>3. runs[x].event = e
  <2>1. x[2] = runKey(runs[x].event)
    BY DEF Whole, InOrder
  <2>2. x[2] = runKey(e)
    OBVIOUS
  <2>3. runs[x].event.id = e.id
    BY <2>1, <2>2 DEF runKey
  <2>4. Known(runs[x].event) /\ Known(e)
    BY DEF Known, InRuns
  <2> QED  BY <2>3, <2>4, OneEvent
<1>4. PICK y \in DOMAIN runs : LeftBy(d, y)
  BY DEF Left
<1>5. PICK i \in delays(d.ver, runs[y].event) : Steps[d.ver][i] = d.node
  BY <1>4 DEF LeftBy
<1>6. d.rule # None /\ d.node # None /\ d.ver # None /\ d.ver \in Versions
  BY <1>1, EngineAssumption DEF WaitRow
<1>7. runs[x].ver = d.ver
  <2>1. d.event.depth < MaxDepth /\ d.event.depth \in Nat
    BY <1>1 DEF Left, WaitRow, Events
  <2>2. runs[x].ver # None
    BY <1>2, <1>3, <2>1, EngineAssumption DEF Versioned
  <2> QED  BY <1>2, <1>3, <1>6, <2>2 DEF Versioned, Faithful, Resuming
<1>8. DOMAIN Steps[d.ver] = 1..Len(Steps[d.ver]) /\ Len(Steps[d.ver]) \in Nat
  BY <1>6, EngineAssumption
<1>9. ASSUME NEW l \in runs[y].logs PROVE l.step < i
  <2>1. l.step \in segment(d.ver, runs[y].event)
    BY <1>4 DEF Whole, InOrder, LeftBy
  <2>2. i \notin 1..l.step
    BY <1>5, <2>1 DEF segment, delays
  <2> QED  BY <1>5, <1>8, <2>1, <2>2 DEF segment, delays
<1>10. ASSUME NEW m \in runs[x].logs PROVE i < m.step
  <2>1. m.step \in segment(d.ver, e)
    BY <1>3, <1>7 DEF Whole, InOrder
  <2>2. m.step \in DOMAIN Steps[d.ver] /\ pastResume(d.ver, e, m.step)
    BY <2>1 DEF segment
  <2>3. PICK j \in 1..(m.step - 1) : Steps[d.ver][j] = d.node
    BY <1>2, <1>6, <2>2 DEF pastResume
  <2>4. i \in DOMAIN Steps[d.ver] /\ Kind[Steps[d.ver][i]] = "wait"
    BY <1>5 DEF delays
  <2>5. j \in DOMAIN Steps[d.ver]
    BY <1>8, <2>2, <2>3
  <2>6. i = j
    BY <1>5, <1>6, <2>3, <2>4, <2>5, WaitStandsOnce
  <2> QED  BY <1>8, <2>2, <2>3, <2>6
<1>11. \A l \in runs[y].logs, m \in runs[x].logs : l.step < m.step
  <2> SUFFICES ASSUME NEW l \in runs[y].logs, NEW m \in runs[x].logs PROVE l.step < m.step
    OBVIOUS
  <2>1. l.step \in Nat /\ m.step \in Nat /\ i \in Nat
    <3>1. l \in Line /\ m \in Line
      BY DEF Typed, TypeOK, Run
    <3> QED  BY <1>5, <1>8, <3>1 DEF Line, delays
  <2> QED  BY <1>9, <1>10, <2>1
<1> QED  BY <1>4, <1>7, <1>11 DEF LeftBy

\* A run resumed after a Wait finishes on the version the waiting run was made on,
\* and its lines come after that run's: whatever was published, paused, retried or
\* lost while it waited.
THEOREM ResumptionsKeepTheirVersion == Spec => []ResumesItsRun
<1>1. Init => Filed /\ Whole
  BY DEF Init, Filed, Whole, Apart, Making, Idle
<1>2. Init => Kinship /\ Versioned /\ Left
  BY DEF Init, Kinship, Known, InJobs, InRuns, AtWorker, Versioned, Left, Idle, busy
<1> QED  BY TypedInit, TypedStep, FiledStep, WholeStep, KinshipStep, VersionedStep, LeftStep,
            ResumedRight, <1>1, <1>2, PTL DEF Spec

----------------------------------------------------------------------------
(* HandedOn: what a run's lines raised reaches the publisher, if no rule   *)
(* is switched meanwhile.                                                  *)

Switchless == active = Rules /\ published = First

\* The rules that answer e while every rule is live with its first version.
Answerers(e) ==
    {r \in Rules :
        /\ e.rule \in {None, r}
        /\ Resuming(e) \/ Listens[First[r]] = e.trigger
        /\ RuleOf[IF Resuming(e) /\ e.version # None THEN e.version ELSE First[r]] = r
        /\ r # e.cause /\ ~(r \in NoChaining /\ e.depth > 0)}

LEMMA AnswerersAre == ASSUME Switchless, NEW e PROVE answering(e) = Answerers(e)
BY DEF Switchless, answering, runnableRules, versionFor, Answerers

\* What the lines of run x raised has been handed on, or is in more.
Handed(x, more) == \A l \in runs[x].logs : \A e \in l.events : runKey(e) \in sent \/ e \in more

\* A worker's rules answer its event, and each run of the event it has behind it:
\* it will come to the run, it is replaying it, or it has what the run raised.
Carries(w) ==
    LET me == workers[w] IN
    busy(w) =>
        /\ \A p \in me.left : p[1] \in Answerers(me.event)
        /\ me.pc \in OnARule => me.rule \in Answerers(me.event)
        /\ me.pc = "publish" => me.left = {}
        /\ \A x \in DOMAIN runs : x[2] = keyOf(w) =>
             \/ \E p \in me.left : p[1] = x[1]
             \/ x = runOf(w) /\ me.pc \in {"close", "collect"}
             \/ Handed(x, me.out)

\* A job that is done has nothing left to hand on.
DoneHanded ==
    \A k \in DOMAIN jobs : jobs[k].state = "done" =>
        \A x \in DOMAIN runs : x[2] = k => Handed(x, {})

\* Only a rule that answers a run's event has lines in the run.
LinesAnswer ==
    \A x \in DOMAIN runs : runs[x].logs # {} =>
        x[1] \in Answerers(runs[x].event) /\ runs[x].event.depth < MaxDepth

HandedOn == DoneHanded /\ LinesAnswer /\ \A w \in Workers : Carries(w)

SameRuns == /\ DOMAIN runs' = DOMAIN runs
            /\ \A x \in DOMAIN runs : runs'[x].event = runs[x].event /\ runs'[x].logs = runs[x].logs

\* A worker carries on with what it had.
CarriesOn(v) ==
    \/ workers'[v] = workers[v]
    \/ ~busy(v)'
    \/ /\ busy(v) /\ workers'[v].event = workers[v].event /\ KeepsRule(v)
       /\ workers'[v].pc = "publish" => workers[v].left = {}
       /\ workers[v].pc \in {"close", "collect"} => workers'[v].pc \in {"close", "collect"}
       /\ \A e \in workers[v].out : e \in workers'[v].out \/ runKey(e) \in sent'

LEMMA CarriesKept ==
    ASSUME SameRuns, sent \subseteq sent', NEW v \in Workers, CarriesOn(v), Carries(v)
    PROVE  Carries(v)'
<1> SUFFICES ASSUME busy(v)' PROVE Carries(v)'
  BY DEF Carries
<1> DEFINE me == workers[v]
           now == workers'[v]
<1>1. /\ busy(v) /\ now.event = me.event /\ now.left = me.left
      /\ now.pc \in OnARule => me.pc \in OnARule /\ now.rule = me.rule
      /\ now.pc = "publish" => me.left = {}
      /\ me.pc \in {"close", "collect"} => now.pc \in {"close", "collect"}
      /\ \A e \in me.out : e \in now.out \/ runKey(e) \in sent'
  BY DEF CarriesOn, KeepsRule, Carries, busy
<1>2. keyOf(v)' = keyOf(v)
  BY <1>1 DEF keyOf
<1>3. now.pc \in {"close", "collect"} => runOf(v)' = runOf(v)
  BY <1>1 DEF runOf, OnARule, PCs
<1>4. \A x \in DOMAIN runs : Handed(x, me.out) =>
        \A l \in runs'[x].logs : \A e \in l.events : runKey(e) \in sent' \/ e \in now.out
  BY <1>1 DEF SameRuns, Handed
<1>5. \A x \in DOMAIN runs' : x[2] = keyOf(v)' =>
             \/ \E p \in now.left : p[1] = x[1]
             \/ x = runOf(v)' /\ now.pc \in {"close", "collect"}
             \/ \A l \in runs'[x].logs : \A e \in l.events : runKey(e) \in sent' \/ e \in now.out
  BY <1>1, <1>2, <1>3, <1>4 DEF Carries, SameRuns
<1> QED  BY <1>1, <1>5 DEF Carries, Handed

\* HandedOn is kept where nothing is done that was not, and every worker carries on.
LEMMA HandedKept ==
    ASSUME HandedOn, SameRuns, sent \subseteq sent', \A v \in Workers : CarriesOn(v),
           \A k \in DOMAIN jobs' : jobs'[k].state = "done" =>
               k \in DOMAIN jobs /\ jobs[k].state = "done"
    PROVE  HandedOn'
<1>1. DoneHanded'
  BY DEF HandedOn, DoneHanded, Handed, SameRuns
<1>2. LinesAnswer'
  BY DEF HandedOn, LinesAnswer, SameRuns
<1>3. \A v \in Workers : Carries(v)'
  BY CarriesKept DEF HandedOn
<1> QED  BY <1>1, <1>2, <1>3 DEF HandedOn

\* The steps of a worker at work that leave the lines and what it has to hand on.
Ordinary(w) ==
    \/ CloseStopped(w) \/ Skip(w) \/ Plan(w) \/ Act(w) \/ Count(w) \/ Refuse(w)
    \/ ScheduleDelays(w) \/ Finish(w) \/ RulesThrough(w) \/ PublishNext(w)

LEMMA OrdinaryCarries ==
    ASSUME Typed, HandedOn, NEW w \in Workers, Ordinary(w)
    PROVE  CarriesOn(w)
<1> DEFINE me == workers[w]
           now == workers'[w]
<1>1. workers \in [Workers -> Worker] /\ me \in Worker
  BY DEF Typed, TypeOK
<1>2. Step(w) /\ ~Settle(w) /\ ~Begin(w)
  <2>1. Step(w)
    BY DEF Ordinary, Step
  <2>2. ~Settle(w)
    BY DEF Ordinary, CloseStopped, Skip, Plan, Act, Count, Refuse, ScheduleDelays, Finish,
           RulesThrough, PublishNext, Settle
  <2>3. ~Begin(w)
    <3>1. Begin(w) => me.pc = "rules" /\ me.left # {}
      BY DEF Begin
    <3> QED  BY <3>1 DEF Ordinary, CloseStopped, Skip, Plan, Act, Count, Refuse, ScheduleDelays,
                Finish, RulesThrough, PublishNext
  <2> QED  BY <2>1, <2>2, <2>3
<1>3. busy(w) /\ now.event = me.event /\ KeepsRule(w)
  BY <1>2, AtWork, OnItsRule
<1> DEFINE Rest ==
        /\ now.pc = "publish" => me.left = {}
        /\ me.pc \in {"close", "collect"} => now.pc \in {"close", "collect"}
        /\ \A e \in me.out : e \in now.out \/ runKey(e) \in sent'
<1> SUFFICES Rest
  BY <1>3 DEF CarriesOn
<1>4. ASSUME NEW place, place # "publish", me.pc = "close" => place = "collect",
             me.pc # "collect", workers' = [workers EXCEPT ![w].pc = place]
      PROVE  Rest
  BY <1>1, <1>4 DEF Worker
<1>5. CASE Plan(w)
  <2>1. PICK place \in {"finish", "wait", "count", "act"} : \E do, cut :
          workers' = [workers EXCEPT ![w].todo = do, ![w].cut = cut, ![w].did = 0,
                                     ![w].bad = 0, ![w].pc = place]
    BY <1>5 DEF Plan, afterSteps
  <2>2. now.pc = place /\ now.out = me.out
    BY <1>1, <2>1 DEF Worker
  <2>3. me.pc = "plan"
    BY <1>5 DEF Plan
  <2> QED  BY <2>2, <2>3
<1>6. CASE Act(w)
  <2>1. PICK i \in me.todo, ok \in BOOLEAN, wrote \in BOOLEAN : ActWith(w, i, ok, wrote)
    BY <1>6 DEF Act
  <2>2. \E todo, found, line :
          workers' = [workers EXCEPT ![w].pc = "log", ![w].todo = todo, ![w].found = found,
                                     ![w].line = line]
    BY <2>1 DEF ActWith
  <2>3. now.pc = "log" /\ now.out = me.out
    BY <1>1, <2>2 DEF Worker
  <2>4. me.pc = "act"
    BY <1>6 DEF Act
  <2> QED  BY <2>3, <2>4
<1>7. CASE RulesThrough(w)
  <2>1. \E more : workers' = [workers EXCEPT ![w].pc = "publish", ![w].out = @ \cup more]
    BY <1>7 DEF RulesThrough
  <2>2. now.pc = "publish" /\ me.out \subseteq now.out
    BY <1>1, <2>1 DEF Worker
  <2>3. me.pc = "rules" /\ me.left = {}
    BY <1>7 DEF RulesThrough
  <2> QED  BY <2>2, <2>3
<1>8. CASE PublishNext(w)
  <2>1. PICK e \in me.out : sent' = sent \cup {runKey(e)} /\ workers' = [workers EXCEPT ![w].out = @ \ {e}]
    BY <1>8 DEF PublishNext, Enqueue
  <2>2. now.pc = me.pc /\ now.out = me.out \ {e}
    BY <1>1, <2>1 DEF Worker
  <2>3. me.pc = "publish" /\ me.left = {}
    BY <1>3, <1>8 DEF PublishNext, HandedOn, Carries
  <2> QED  BY <2>1, <2>2, <2>3
<1> HIDE DEF Rest
<1>9. CASE CloseStopped(w) \/ Skip(w) \/ Refuse(w) \/ ScheduleDelays(w) \/ Finish(w)
  BY <1>4, <1>9 DEF CloseStopped, Skip, Refuse, ScheduleDelays, Finish
<1>10. CASE Count(w)
  <2>1. PICK place \in {"refuse", "finish", "wait"} : workers' = [workers EXCEPT ![w].pc = place]
    BY <1>10 DEF Count, afterSteps
  <2> QED  BY <1>4, <1>10, <2>1 DEF Count
<1> QED  BY <1>5, <1>6, <1>7, <1>8, <1>9, <1>10 DEF Ordinary

\* What was handed to the publisher stays handed.
LEMMA SentGrows == [Next]_vars => sent \subseteq sent'
<1> SUFFICES ASSUME [Next]_vars PROVE sent \subseteq sent'
  OBVIOUS
<1>1. ASSUME NEW w \in Workers, Step(w) PROVE sent \subseteq sent'
  BY <1>1 DEF Step, Begin, CloseStopped, Collect, Skip, Plan, Act, Log, Count, Refuse,
     ScheduleDelays, Finish, RulesThrough, PublishNext, Settle, Enqueue, seen
<1>2. CASE Take \/ UNCHANGED vars
  BY <1>2 DEF Take, Load, StopAtDepth, seen, vars
<1>3. CASE Clock \/ People
  BY <1>3 DEF Clock, ClaimWait, ResumeWait, People, Complete, Change, Publish, Pause, Enqueue, seen
<1>4. CASE Misfortune
  BY <1>4 DEF Misfortune, Throw, Kill, Stall, LoseAdd, Expire, TickDies, seen
<1> QED  BY <1>1, <1>2, <1>3, <1>4 DEF Next

\* No job is done that was not, except in Settle and at the depth limit.
NoneDone == \A k \in DOMAIN jobs' : jobs'[k].state = "done" =>
                k \in DOMAIN jobs /\ jobs[k].state = "done"

LEMMA NoneDoneBut ==
    ASSUME Typed, [Next]_vars, \A w \in Workers : ~Settle(w), \A k \in DOMAIN jobs : ~StopAtDepth(k)
    PROVE  NoneDone
<1>1. jobs \in [DOMAIN jobs -> Job]
  BY DEF Typed, TypeOK
<1>2. ASSUME jobs' = jobs PROVE NoneDone
  BY <1>2 DEF NoneDone
<1>3. ASSUME NEW k, NEW job, job.state # "done", jobs' = [jobs EXCEPT ![k] = job] PROVE NoneDone
  BY <1>3 DEF NoneDone
<1>4. ASSUME NEW k, NEW job, job.state # "done", jobs' = Put(jobs, k, job) PROVE NoneDone
  BY <1>4 DEF NoneDone, Put
<1>5. ASSUME NEW e, Enqueue(e) PROVE NoneDone
  BY <1>2, <1>4, <1>5 DEF Enqueue
<1>6. ASSUME NEW k \in DOMAIN jobs, Retry(k) \/ Redeliver(k) PROVE NoneDone
  <2>1. retried(jobs[k]).state # "done" /\ redelivered(jobs[k]).state # "done"
    BY <1>1 DEF Job, retried, redelivered
  <2>2. jobs' = [jobs EXCEPT ![k] = retried(jobs[k])]
        \/ jobs' = [jobs EXCEPT ![k] = redelivered(jobs[k])]
    BY <1>6 DEF Retry, Redeliver
  <2> QED  BY <1>3, <2>1, <2>2
<1>7. ASSUME NEW k, k \notin DOMAIN jobs, Retry(k) \/ Redeliver(k) PROVE NoneDone
  BY <1>7 DEF NoneDone, Retry, Redeliver
<1>8. ASSUME NEW w \in Workers, Step(w) PROVE NoneDone
  BY <1>2, <1>5, <1>8 DEF Step, Begin, CloseStopped, Collect, Skip, Plan, Act, Log, Count, Refuse,
     ScheduleDelays, Finish, RulesThrough, PublishNext
<1>9. CASE Take
  <2>1. PICK k \in DOMAIN jobs : jobs' = [jobs EXCEPT ![k].state = "active"]
    BY <1>9 DEF Take, Load
  <2>2. [jobs[k] EXCEPT !.state = "active"].state # "done"
    BY <1>1 DEF Job
  <2> QED  BY <1>3, <2>1, <2>2
<1>10. CASE Clock \/ People \/ UNCHANGED vars
  BY <1>2, <1>5, <1>10 DEF Clock, ClaimWait, ResumeWait, People, Complete, Change, Publish, Pause, vars
<1>11. CASE Misfortune
  <2>1. ASSUME NEW w \in Workers, Throw(w) \/ Kill(w) \/ Stall(w) \/ LoseAdd(w) PROVE NoneDone
    BY <1>2, <1>6, <1>7, <2>1 DEF Throw, Kill, Stall, LoseAdd
  <2>2. ASSUME NEW k \in DOMAIN jobs, Expire(k) PROVE NoneDone
    BY <2>2 DEF Expire, NoneDone
  <2>3. ASSUME NEW d \in waits, TickDies(d) PROVE NoneDone
    BY <1>2, <2>3 DEF TickDies
  <2> QED  BY <1>11, <2>1, <2>2, <2>3 DEF Misfortune
<1> QED  BY <1>8, <1>9, <1>10, <1>11 DEF Next

\* Where nothing else happens than that workers carry on.
LEMMA OrdinaryHanded ==
    ASSUME Typed, HandedOn, [Next]_vars, SameRuns, \A v \in Workers : CarriesOn(v),
           \A w \in Workers : ~Settle(w), \A k \in DOMAIN jobs : ~StopAtDepth(k)
    PROVE  HandedOn'
BY SentGrows, NoneDoneBut, HandedKept DEF NoneDone

\* A run and a job under one key have one event.
LEMMA SameKeySameEvent ==
    ASSUME Filed, Whole, Kinship, NEW k \in DOMAIN jobs, NEW x \in DOMAIN runs, x[2] = k
    PROVE  runs[x].event = jobs[k].event
<1>1. runs[x].event.id = jobs[k].event.id
  BY DEF Filed, Whole, InOrder, runKey
<1>2. Known(runs[x].event) /\ Known(jobs[k].event)
  BY DEF Known, InRuns, InJobs
<1> QED  BY <1>1, <1>2, OneEvent

\* A worker comes to a run: a new one has no lines, an old one is replayed.
LEMMA BeginHanded ==
    ASSUME Typed, HandedOn, NEW w \in Workers, Begin(w)
    PROVE  HandedOn'
<1> DEFINE me == workers[w]
           now == workers'[w]
<1>1. workers \in [Workers -> Worker] /\ me \in Worker
  BY DEF Typed, TypeOK
<1>2. /\ busy(w) /\ now.event = me.event /\ me.pc = "rules"
      /\ \A v \in Workers \ {w} : workers'[v] = workers[v]
  BY AtWork DEF Step, Begin, Settle
<1>3. PICK p \in me.left : LET x == <<p[1], runKey(me.event)>> IN
        /\ workers' = [workers EXCEPT
               ![w].left = @ \ {p}, ![w].rule = p[1], ![w].ver = p[2],
               ![w].pc = IF ~made(x) THEN "plan"
                         ELSE IF runs[x].status = "RUNNING" THEN "close" ELSE "collect"]
        /\ runs' = IF made(x) THEN runs
                   ELSE Put(runs, x, [event |-> me.event, ver |-> p[2], actions |-> 0,
                                      logs |-> {}, status |-> "RUNNING"])
  BY DEF Begin
<1>4. PICK x : x = <<p[1], runKey(me.event)>>
  OBVIOUS
<1>5. /\ now.left = me.left \ {p} /\ now.rule = p[1] /\ now.out = me.out
      /\ now.pc \in {"plan", "close", "collect"}
      /\ x \in DOMAIN runs => now.pc \in {"close", "collect"}
  BY <1>1, <1>3, <1>4 DEF Worker, made
<1>6. /\ DOMAIN runs' = DOMAIN runs \cup {x}
      /\ \A y \in DOMAIN runs : runs'[y] = runs[y]
      /\ x \notin DOMAIN runs => runs'[x].logs = {}
  <2>1. CASE x \in DOMAIN runs
    BY <1>3, <1>4, <2>1 DEF made
  <2>2. CASE x \notin DOMAIN runs
    BY <1>3, <1>4, <2>2 DEF made, Put
  <2> QED  BY <2>1, <2>2
<1>7. jobs' = jobs /\ sent' = sent
  BY DEF Begin, seen
<1>8. \A more : \A y \in DOMAIN runs' : y \in DOMAIN runs \/ Handed(y, more)'
  BY <1>6 DEF Handed
<1>9. \A more : \A y \in DOMAIN runs : Handed(y, more) => Handed(y, more)'
  BY <1>6, <1>7 DEF Handed
<1>10. DoneHanded'
  BY <1>7, <1>8, <1>9 DEF HandedOn, DoneHanded
<1>11. LinesAnswer'
  BY <1>6 DEF HandedOn, LinesAnswer
<1>12. ASSUME NEW v \in Workers, v # w PROVE Carries(v)'
  <2>1. workers'[v] = workers[v] /\ keyOf(v)' = keyOf(v) /\ runOf(v)' = runOf(v)
    BY <1>2, <1>12 DEF keyOf, runOf
  <2>2. busy(v)' => busy(v)
    BY <2>1 DEF busy
  <2>3. PICK out : out = workers[v].out
    OBVIOUS
  <2>4. \A y \in DOMAIN runs : Handed(y, workers[v].out) => Handed(y, workers[v].out)'
    BY <1>9, <2>1, <2>3 DEF Handed
  <2>5. \A y \in DOMAIN runs' : y \in DOMAIN runs \/ Handed(y, workers[v].out)'
    BY <1>6 DEF Handed
  <2> QED  BY <2>1, <2>2, <2>4, <2>5 DEF Carries, HandedOn
<1>13. Carries(w)'
  <2>1. keyOf(w)' = keyOf(w) /\ runOf(w)' = x /\ x[1] = p[1] /\ x = <<x[1], keyOf(w)>>
    BY <1>2, <1>4, <1>5 DEF keyOf, runOf
  <2>2. p[1] \in Answerers(me.event) /\ \A q \in me.left : q[1] \in Answerers(me.event)
    BY <1>2 DEF HandedOn, Carries
  <2>3. \A y \in DOMAIN runs : Handed(y, me.out) =>
          \A l \in runs'[y].logs : \A e \in l.events : runKey(e) \in sent' \/ e \in now.out
    BY <1>5, <1>6, <1>7 DEF Handed
  <2>4. ASSUME NEW y \in DOMAIN runs', y[2] = keyOf(w)
        PROVE  \/ \E q \in now.left : q[1] = y[1]
               \/ y = x /\ now.pc \in {"close", "collect"}
               \/ \A l \in runs'[y].logs : \A e \in l.events : runKey(e) \in sent' \/ e \in now.out
    <3>1. CASE y \notin DOMAIN runs
      BY <1>6, <3>1
    <3>2. CASE y \in DOMAIN runs
      <4>1. y = <<y[1], y[2]>>
        BY <3>2 DEF Typed, TypeOK
      <4>2. (\E q \in me.left : q[1] = y[1]) \/ Handed(y, me.out)
        BY <1>2, <2>4, <3>2 DEF HandedOn, Carries
      <4>3. y[1] = p[1] => y = x
        BY <2>1, <2>4, <4>1
      <4> QED  BY <1>5, <2>1, <2>3, <3>2, <4>2, <4>3
    <3> QED  BY <3>1, <3>2
  <2>5. now.pc # "publish"
    BY <1>5
  <2> QED  BY <1>2, <1>5, <2>1, <2>2, <2>4, <2>5 DEF Carries, Handed
<1> QED  BY <1>10, <1>11, <1>12, <1>13 DEF HandedOn

\* A worker that replayed a run has what it raised.
LEMMA CollectHanded ==
    ASSUME Typed, HandedOn, [Next]_vars, NEW w \in Workers, Collect(w)
    PROVE  HandedOn'
<1> DEFINE me == workers[w]
           now == workers'[w]
<1>1. workers \in [Workers -> Worker] /\ me \in Worker
  BY DEF Typed, TypeOK
<1>2. /\ busy(w) /\ me.pc = "collect" /\ now.event = me.event /\ now.left = me.left
      /\ now.pc = "rules" /\ now.out = me.out \cup followUps(runOf(w))
      /\ \A v \in Workers \ {w} : workers'[v] = workers[v]
  BY <1>1 DEF Collect, Worker, busy
<1>3. runs' = runs /\ jobs' = jobs /\ sent' = sent
  BY DEF Collect, db, seen
<1>4. DoneHanded' /\ LinesAnswer'
  BY <1>3 DEF HandedOn, DoneHanded, LinesAnswer, Handed
<1>5. ASSUME NEW v \in Workers, v # w PROVE Carries(v)'
  <2>1. CarriesOn(v) /\ SameRuns
    BY <1>2, <1>3, <1>5 DEF CarriesOn, SameRuns
  <2> QED  BY <1>3, <2>1, CarriesKept DEF HandedOn
<1>6. Carries(w)'
  <2>1. keyOf(w)' = keyOf(w)
    BY <1>2 DEF keyOf
  <2>2. now.pc \notin OnARule
    BY <1>2 DEF OnARule
  <2>3. \A y \in DOMAIN runs : Handed(y, me.out) \/ y = runOf(w) =>
          \A l \in runs'[y].logs : \A e \in l.events : runKey(e) \in sent' \/ e \in now.out
    BY <1>2, <1>3 DEF Handed, followUps
  <2> QED  BY <1>2, <1>3, <2>1, <2>2, <2>3 DEF HandedOn, Carries, Handed
<1> QED  BY <1>4, <1>5, <1>6 DEF HandedOn

\* A line is written: what it raised is the worker's to publish.
LEMMA LogHanded ==
    ASSUME Typed, Whole, Versioned, Owned, HandedOn, NEW w \in Workers, Log(w)
    PROVE  HandedOn'
<1> DEFINE me == workers[w]
           now == workers'[w]
<1>1. workers \in [Workers -> Worker] /\ me \in Worker /\ me.pc = "log"
  BY DEF Log, Typed, TypeOK
<1>2. /\ busy(w) /\ now.event = me.event /\ now.left = me.left /\ now.rule = me.rule
      /\ now.pc \in {"count", "act"} /\ now.out = me.out \cup me.line.events
      /\ \A v \in Workers \ {w} : workers'[v] = workers[v]
  BY <1>1 DEF Log, Worker, busy
<1>3. PICK x : x = runOf(w)
  OBVIOUS
<1>4. x \in DOMAIN runs /\ runs[x] \in Run /\ runs[x].event = me.event
  BY <1>1, <1>3, InHand DEF OnARule, PCs, Whole, Tells, Making, Typed, TypeOK
<1>5. /\ DOMAIN runs' = DOMAIN runs /\ \A y \in DOMAIN runs \ {x} : runs'[y] = runs[y]
      /\ runs'[x].event = runs[x].event /\ runs'[x].logs = runs[x].logs \cup {me.line}
  <2>1. runs' = [runs EXCEPT ![x] = [runs[x] EXCEPT !.logs = runs[x].logs \cup {me.line}]]
    BY <1>3 DEF Log
  <2> QED  BY <1>4, <2>1 DEF Run
<1>6. jobs' = jobs /\ sent' = sent
  BY DEF Log, seen
<1>7. x[2] = keyOf(w) /\ x[1] = me.rule
  BY <1>3 DEF runOf, keyOf
<1>8. DoneHanded'
  <2>1. \A k \in DOMAIN jobs : jobs[k].state = "done" => k # keyOf(w)
    BY <1>2 DEF Owned
  <2> QED  BY <1>5, <1>6, <1>7, <2>1 DEF HandedOn, DoneHanded, Handed
<1>9. LinesAnswer'
  <2>1. x[1] \in Answerers(me.event)
    BY <1>1, <1>2, <1>7 DEF HandedOn, Carries, OnARule, PCs
  <2>2. me.event.depth < MaxDepth
    BY <1>2 DEF Versioned
  <2> QED  BY <1>4, <1>5, <2>1, <2>2 DEF HandedOn, LinesAnswer
<1>10. ASSUME NEW v \in Workers, v # w PROVE Carries(v)'
  <2>1. workers'[v] = workers[v] /\ keyOf(v)' = keyOf(v) /\ runOf(v)' = runOf(v)
    BY <1>2, <1>10 DEF keyOf, runOf
  <2>2. busy(v)' => busy(v) /\ keyOf(v) # keyOf(w)
    BY <1>2, <1>10, <2>1 DEF busy, Owned
  <2>3. \A y \in DOMAIN runs \ {x} : Handed(y, workers[v].out) => Handed(y, workers[v].out)'
    BY <1>5, <1>6, <2>1 DEF Handed
  <2> QED  BY <1>5, <1>7, <2>1, <2>2, <2>3 DEF Carries, HandedOn
<1>11. Carries(w)'
  <2>1. keyOf(w)' = keyOf(w)
    BY <1>2 DEF keyOf
  <2>2. now.rule \in Answerers(me.event)
    BY <1>1, <1>2 DEF HandedOn, Carries, OnARule, PCs
  <2>3. \A y \in DOMAIN runs : Handed(y, me.out) =>
          \A l \in runs'[y].logs : \A e \in l.events : runKey(e) \in sent' \/ e \in now.out
    BY <1>2, <1>5, <1>6 DEF Handed
  <2>4. now.pc # "publish"
    BY <1>2
  <2> QED  BY <1>1, <1>2, <1>5, <2>1, <2>2, <2>3, <2>4 DEF HandedOn, Carries, Handed
<1> QED  BY <1>8, <1>9, <1>10, <1>11 DEF HandedOn

\* A worker done with its job has published everything.
LEMMA SettleHanded ==
    ASSUME Typed, Owned, HandedOn, NEW w \in Workers, Settle(w)
    PROVE  HandedOn'
<1> DEFINE me == workers[w]
<1>1. workers \in [Workers -> Worker] /\ me \in Worker /\ me.pc = "publish" /\ me.out = {}
  BY DEF Settle, Typed, TypeOK
<1>2. workers'[w] = Idle /\ \A v \in Workers \ {w} : workers'[v] = workers[v]
  BY <1>1 DEF Settle
<1>3. runs' = runs /\ sent' = sent
  BY DEF Settle, db, seen
<1>4. /\ DOMAIN jobs' = DOMAIN jobs
      /\ \A k \in DOMAIN jobs \ {keyOf(w)} : jobs'[k] = jobs[k]
  BY DEF Settle, keyOf
<1>5. \A x \in DOMAIN runs : x[2] = keyOf(w) => Handed(x, {})
  <2>1. busy(w) /\ me.left = {}
    BY <1>1 DEF busy, HandedOn, Carries
  <2> QED  BY <1>1, <2>1 DEF HandedOn, Carries
<1>6. DoneHanded'
  BY <1>3, <1>4, <1>5 DEF HandedOn, DoneHanded, Handed
<1>7. LinesAnswer'
  BY <1>3 DEF HandedOn, LinesAnswer
<1>8. \A v \in Workers : Carries(v)'
  <2>1. SameRuns /\ sent \subseteq sent' /\ \A v \in Workers : CarriesOn(v)
    BY <1>2, <1>3 DEF SameRuns, CarriesOn, busy, Idle
  <2> QED  BY <2>1, CarriesKept DEF HandedOn
<1> QED  BY <1>6, <1>7, <1>8 DEF HandedOn

\* A worker that takes a job will come to each run of its event that has lines.
LEMMA LoadHanded ==
    ASSUME Typed, Filed, Whole, Kinship, Switchless, HandedOn, [Next]_vars,
           NEW w \in Workers, NEW k \in DOMAIN jobs, Load(w, k)
    PROVE  HandedOn'
<1> DEFINE now == workers'[w]
<1>0. PICK e : e = jobs[k].event
  OBVIOUS
<1>1. workers \in [Workers -> Worker]
  BY DEF Typed, TypeOK
<1>2. /\ now.pc = "rules" /\ now.event = e /\ now.left = {<<r, versionFor(e, r)>> : r \in answering(e)}
      /\ \A v \in Workers \ {w} : workers'[v] = workers[v]
  BY <1>0, <1>1 DEF Load, Idle
<1>3. runs' = runs /\ sent' = sent
  BY DEF Load, db, seen
<1>4. DOMAIN jobs' = DOMAIN jobs /\ \A j \in DOMAIN jobs : jobs'[j].state = "done" => jobs[j].state = "done"
  <2>1. jobs[k] \in Job
    BY DEF Typed, TypeOK
  <2> QED  BY <2>1 DEF Load, Job
<1>5. DoneHanded'
  BY <1>3, <1>4 DEF HandedOn, DoneHanded, Handed
<1>6. LinesAnswer'
  BY <1>3 DEF HandedOn, LinesAnswer
<1>7. ASSUME NEW v \in Workers, v # w PROVE Carries(v)'
  <2>1. CarriesOn(v) /\ SameRuns
    BY <1>2, <1>3, <1>7 DEF CarriesOn, SameRuns
  <2> QED  BY <1>3, <2>1, CarriesKept DEF HandedOn
<1>8. Carries(w)'
  <2>1. answering(e) = Answerers(e)
    BY AnswerersAre
  <2>2. keyOf(w)' = k
    BY <1>0, <1>2 DEF keyOf, Filed
  <2>3. ASSUME NEW x \in DOMAIN runs, x[2] = k
        PROVE  (\E p \in now.left : p[1] = x[1]) \/ runs[x].logs = {}
    <3>1. runs[x].event = e
      BY <1>0, <2>3, SameKeySameEvent
    <3>2. runs[x].logs # {} => x[1] \in Answerers(e)
      BY <3>1 DEF HandedOn, LinesAnswer
    <3>3. x[1] \in Answerers(e) => <<x[1], versionFor(e, x[1])>> \in now.left
      BY <1>2, <2>1
    <3> QED  BY <3>2, <3>3
  <2>4. now.pc # "publish" /\ now.pc \notin OnARule
    BY <1>2 DEF OnARule
  <2>5. \A p \in now.left : p[1] \in Answerers(e)
    BY <1>2, <2>1
  <2> QED  BY <1>2, <1>3, <2>2, <2>3, <2>4, <2>5 DEF Carries, Handed
<1> QED  BY <1>5, <1>6, <1>7, <1>8 DEF HandedOn

\* A job stopped at the depth limit has runs without lines.
LEMMA StopHanded ==
    ASSUME Typed, Filed, Whole, Kinship, HandedOn, NEW k \in DOMAIN jobs, StopAtDepth(k)
    PROVE  HandedOn'
<1> DEFINE e == jobs[k].event
           run == [event |-> e, ver |-> None, actions |-> 0, logs |-> {}, status |-> "SKIPPED"]
<1>1. e.depth >= MaxDepth /\ workers' = workers /\ sent' = sent
  BY DEF StopAtDepth, seen
<1>2. \A x \in DOMAIN runs' : (x \in DOMAIN runs /\ runs'[x] = runs[x]) \/ runs'[x].logs = {}
  <2>1. PICK x : runs' = runs \/ runs' = Put(runs, x, run)
    BY DEF StopAtDepth
  <2>2. run.logs = {}
    OBVIOUS
  <2> HIDE DEF run
  <2> QED  BY <2>1, <2>2 DEF Put
<1>3. \A x \in DOMAIN runs : x[2] = k => runs[x].logs = {}
  <2> SUFFICES ASSUME NEW x \in DOMAIN runs, x[2] = k, runs[x].logs # {} PROVE FALSE
    OBVIOUS
  <2>1. runs[x].event = e
    BY SameKeySameEvent
  <2>2. e.depth < MaxDepth /\ e.depth \in Nat
    BY <2>1 DEF HandedOn, LinesAnswer, Typed, TypeOK, Job, Events
  <2> QED  BY <1>1, <2>2, EngineAssumption
<1>4. DOMAIN jobs' = DOMAIN jobs /\ \A j \in DOMAIN jobs \ {k} : jobs'[j] = jobs[j]
  BY DEF StopAtDepth
<1>5. DoneHanded'
  BY <1>1, <1>2, <1>3, <1>4 DEF HandedOn, DoneHanded, Handed
<1>6. LinesAnswer'
  BY <1>2 DEF HandedOn, LinesAnswer
<1>7. ASSUME NEW v \in Workers PROVE Carries(v)'
  <2>1. keyOf(v)' = keyOf(v) /\ runOf(v)' = runOf(v) /\ (busy(v)' => busy(v))
    BY <1>1 DEF keyOf, runOf, busy
  <2>2. \A x \in DOMAIN runs' :
          \/ x \in DOMAIN runs /\ (Handed(x, workers[v].out) => Handed(x, workers[v].out)')
          \/ Handed(x, workers[v].out)'
    BY <1>1, <1>2 DEF Handed
  <2> QED  BY <1>1, <2>1, <2>2 DEF Carries, HandedOn
<1> QED  BY <1>5, <1>6, <1>7 DEF HandedOn

\* Nothing touches a run's event or lines, except Begin, Log and the depth limit.
LEMMA LinesStay ==
    ASSUME Typed, [Next]_vars, \A w \in Workers : ~Begin(w) /\ ~Log(w),
           \A k \in DOMAIN jobs : ~StopAtDepth(k)
    PROVE  SameRuns
<1>1. RunsStand /\ DOMAIN runs' = DOMAIN runs
  BY RunsStep
<1>2. runs \in [DOMAIN runs -> Run]
  BY DEF Typed, TypeOK
<1>3. ASSUME runs' = runs PROVE SameRuns
  BY <1>3 DEF SameRuns
<1>4. ASSUME NEW x, (\E status : runs' = [runs EXCEPT ![x].status = status])
                    \/ (\E n : runs' = [runs EXCEPT ![x].actions = n])
      PROVE  SameRuns
  <2>1. \A y \in DOMAIN runs : runs'[y].logs = runs[y].logs
    BY <1>2, <1>4 DEF Run
  <2> QED  BY <1>1, <2>1 DEF RunsStand, SameRuns
<1>5. ASSUME NEW w \in Workers, Step(w) PROVE SameRuns
  <2>1. CASE CloseStopped(w) \/ Skip(w) \/ Count(w) \/ Refuse(w) \/ Finish(w)
    BY <1>4, <2>1 DEF CloseStopped, Skip, Count, Refuse, Finish
  <2>2. CASE Collect(w) \/ Plan(w) \/ Act(w) \/ ScheduleDelays(w) \/ RulesThrough(w)
             \/ PublishNext(w) \/ Settle(w)
    BY <1>3, <2>2 DEF Collect, Plan, Act, ScheduleDelays, RulesThrough, PublishNext, Settle, db
  <2> QED  BY <1>5, <2>1, <2>2 DEF Step
<1>6. CASE Take
  BY <1>3, <1>6 DEF Take, Load, db
<1>7. CASE Clock \/ People \/ Misfortune \/ UNCHANGED vars
  BY <1>3, <1>7 DEF Clock, ClaimWait, ResumeWait, People, Complete, Change, Publish, Pause,
     Misfortune, Throw, Kill, Stall, LoseAdd, Expire, TickDies, vars, db
<1> QED  BY <1>5, <1>6, <1>7 DEF Next

\* A worker whose add is lost has the event off its hands: its key is in sent.
LEMMA LoseCarries ==
    ASSUME Typed, HandedOn, NEW w \in Workers, LoseAdd(w)
    PROVE  CarriesOn(w)
<1> DEFINE me == workers[w]
           now == workers'[w]
<1>1. workers \in [Workers -> Worker] /\ me \in Worker /\ me.pc = "publish" /\ busy(w)
  BY DEF Typed, TypeOK, LoseAdd, busy
<1>2. PICK e \in me.out : sent' = sent \cup {runKey(e)} /\ workers' = [workers EXCEPT ![w].out = @ \ {e}]
  BY DEF LoseAdd
<1>3. now.pc = me.pc /\ now.event = me.event /\ now.left = me.left /\ now.out = me.out \ {e}
  BY <1>1, <1>2 DEF Worker
<1>4. me.left = {}
  BY <1>1 DEF HandedOn, Carries
<1>5. KeepsRule(w)
  BY <1>1, <1>3 DEF KeepsRule, OnARule
<1> QED  BY <1>1, <1>2, <1>3, <1>4, <1>5 DEF CarriesOn

\* Every step keeps what is to be handed on.
LEMMA HandedStep ==
    ASSUME "stall" \notin Faults, Typed, Filed, Whole, Kinship, Versioned, Owned, Switchless,
           HandedOn, [Next]_vars
    PROVE  HandedOn'
<1>1. CASE \/ \E w \in Workers : Begin(w) \/ Collect(w) \/ Log(w) \/ Settle(w)
           \/ \E w \in Workers, k \in DOMAIN jobs : Load(w, k)
           \/ \E k \in DOMAIN jobs : StopAtDepth(k)
  BY <1>1, BeginHanded, CollectHanded, LogHanded, SettleHanded, LoadHanded, StopHanded
<1>2. CASE ~ \/ \E w \in Workers : Begin(w) \/ Collect(w) \/ Log(w) \/ Settle(w)
             \/ \E w \in Workers, k \in DOMAIN jobs : Load(w, k)
             \/ \E k \in DOMAIN jobs : StopAtDepth(k)
  <2>1. SameRuns
    BY <1>2, LinesStay
  <2>2. SUFFICES \A v \in Workers : CarriesOn(v)
    BY <1>2, <2>1, OrdinaryHanded
  <2>3. ASSUME workers' = workers PROVE \A v \in Workers : CarriesOn(v)
    BY <2>3 DEF CarriesOn
  <2>4. ASSUME NEW w \in Workers, CarriesOn(w), \A v \in Workers \ {w} : workers'[v] = workers[v]
        PROVE  \A v \in Workers : CarriesOn(v)
    BY <2>4 DEF CarriesOn
  <2>5. ASSUME NEW w \in Workers, Step(w) PROVE \A v \in Workers : CarriesOn(v)
    <3>1. Ordinary(w)
      BY <1>2, <2>5 DEF Step, Ordinary
    <3>2. CarriesOn(w)
      BY <3>1, OrdinaryCarries
    <3>3. ~Begin(w) /\ ~Settle(w)
      BY <1>2
    <3> QED  BY <2>4, <2>5, <3>2, <3>3, AtWork
  <2>6. ASSUME NEW w \in Workers, Throw(w) \/ Kill(w) \/ LoseAdd(w)
        PROVE  \A v \in Workers : CarriesOn(v)
    <3>1. CarriesOn(w)
      <4>1. CASE LoseAdd(w)
        BY <4>1, LoseCarries
      <4>2. CASE Throw(w) \/ Kill(w)
        <5>1. workers \in [Workers -> Worker]
          BY DEF Typed, TypeOK
        <5> QED  BY <4>2, <5>1 DEF Throw, Kill, CarriesOn, busy, Idle
      <4> QED  BY <2>6, <4>1, <4>2
    <3> QED  BY <2>4, <2>6, <3>1, Mishap
  <2>7. CASE Take \/ Clock \/ People \/ UNCHANGED vars
    BY <1>2, <2>3, <2>7 DEF Take, Clock, ClaimWait, ResumeWait, People, Complete, Change,
       Publish, Pause, vars
  <2>8. CASE Misfortune
    <3>1. \A w \in Workers : ~Stall(w)
      BY DEF Stall, Fault
    <3> QED  BY <2>3, <2>6, <2>8, <3>1 DEF Misfortune, Expire, TickDies
  <2> QED  BY <2>5, <2>7, <2>8 DEF Next
<1> QED  BY <1>1, <1>2

\* Where nobody may switch rules, every rule stays live with its first version.
LEMMA SwitchlessStep ==
    ASSUME MaxSwitches = 0, Typed, Switchless, [Next]_vars
    PROVE  Switchless'
<1>1. \A v, r : ~Publish(v) /\ ~Pause(r)
  BY DEF Publish, Pause, Typed, TypeOK
<1>2. ASSUME active' = active, published' = published PROVE Switchless'
  BY <1>2 DEF Switchless
<1>3. ASSUME NEW w \in Workers, Step(w) PROVE Switchless'
  BY <1>2, <1>3 DEF Step, Begin, CloseStopped, Collect, Skip, Plan, Act, Log, Count, Refuse,
     ScheduleDelays, Finish, RulesThrough, PublishNext, Settle, db
<1>4. CASE Take \/ Clock \/ UNCHANGED vars
  BY <1>2, <1>4 DEF Take, Load, StopAtDepth, Clock, ClaimWait, ResumeWait, vars, db
<1>5. CASE People
  BY <1>1, <1>2, <1>5 DEF People, Complete, Change, db
<1>6. CASE Misfortune
  BY <1>2, <1>6 DEF Misfortune, Throw, Kill, Stall, LoseAdd, Expire, TickDies, db
<1> QED  BY <1>3, <1>4, <1>5, <1>6 DEF Next

\* Once a job is done, everything its runs' finished steps raised has been handed to
\* the publisher, whatever threw, died, expired or was published twice on the way.
\* Two things the code does not cover are assumed away.  A rule paused or republished
\* between two attempts is not among the rules the second one answers with, so the
\* run of the first is not replayed: nobody switches a rule.  A worker that lost its
\* lock may write a line after another attempt replayed the run: none outlives it.
THEOREM WhatIsRaisedIsHandedOn ==
    ASSUME MaxSwitches = 0, "stall" \notin Faults
    PROVE  Spec => []FollowUpsSent
<1>1. Init => Filed /\ Whole /\ Kinship /\ Versioned
  BY DEF Init, Filed, Whole, Apart, Making, Idle, Kinship, Known, InJobs, InRuns, AtWorker,
         Versioned, busy
<1>2. Init => Owned /\ Switchless /\ HandedOn
  BY DEF Init, Owned, Switchless, HandedOn, DoneHanded, LinesAnswer, Carries, Idle, busy
<1>3. HandedOn => FollowUpsSent
  BY DEF HandedOn, DoneHanded, Handed, FollowUpsSent
<1>4. Typed /\ Filed /\ Owned /\ [Next]_vars => Owned'
  BY OwnedStep
<1>5. Typed /\ Switchless /\ [Next]_vars => Switchless'
  BY SwitchlessStep
<1>6. /\ Typed /\ Filed /\ Whole /\ Kinship /\ Versioned /\ Owned /\ Switchless /\ HandedOn
      /\ [Next]_vars
      => HandedOn'
  BY HandedStep
<1> QED  BY TypedInit, TypedStep, FiledStep, WholeStep, KinshipStep, VersionedStep, <1>1, <1>2, <1>3, <1>4,
            <1>5, <1>6, PTL DEF Spec

----------------------------------------------------------------------------
(* Sparing: how many steps the rules of one chain come to.                 *)

\* The places where a worker has read its allowance and not recorded its count.
Midway == {"act", "log", "count"}
midway(w) == workers[w].pc \in Midway
inHand(x) == \E w \in Workers : midway(w) /\ runOf(w) = x

of(a) == <<a[1], a[2]>>
chainOf(x) == runs[x].event.chain
stepsOf(x) == {a \in acted : of(a) = x}

\* The steps of a chain: those done, those done in runs nobody has in hand, those
\* still to come in the runs in hand, and those on record.
done(c) == {a \in acted : chainOf(of(a)) = c}
over(c) == {a \in done(c) : ~inHand(of(a))}
coming(c) ==
    {a \in Rules \X Keys \X Nat : \E w \in Workers :
        midway(w) /\ of(a) = runOf(w) /\ a[3] \in workers[w].todo /\ chainOf(of(a)) = c}
counted(c) == recorded({y \in DOMAIN runs : chainOf(y) = c})

\* A step's place in the plan, from 0; a run performs the first n.
place(v, e, i) == Cardinality({j \in segment(v, e) : j < i})
Placed(x, i, n) ==
    i \in segment(runs[x].ver, runs[x].event) /\ place(runs[x].ver, runs[x].event, i) < n

written(w) == workers[w].did + (IF workers[w].pc = "log" THEN 1 ELSE 0)

\* A run in hand has nothing on record, has done no more than its worker counts, and
\* goes on within its allowance.
Counts(w) ==
    /\ workers[w].pc \in Midway \cup {"plan"} => runs[runOf(w)].actions = 0
    /\ midway(w) =>
        /\ IsFiniteSet(stepsOf(runOf(w))) /\ Cardinality(stepsOf(runOf(w))) <= written(w)
        /\ \A i \in workers[w].todo : Placed(runOf(w), i, PerRun)

WithinRun == \A a \in acted : Placed(of(a), a[3], PerRun)

\* What is done and not in hand is on record, but for a run to each fault.
Covered == \A c :
    /\ IsFiniteSet(counted(c)) /\ IsFiniteSet(over(c))
    /\ Cardinality(over(c)) <= Cardinality(counted(c)) + PerRun * faults

Cap(n) == PerChain + PerRun * (Cardinality(Workers) - 1 + n)

Capped == \A c :
    IsFiniteSet(done(c) \cup coming(c)) /\ Cardinality(done(c) \cup coming(c)) <= Cap(faults)

Sparing == (\A w \in Workers : Counts(w)) /\ WithinRun /\ Covered /\ Capped

\* Part of a finite set is finite, and no larger.
LEMMA CountPart ==
    ASSUME NEW S, IsFiniteSet(S), NEW T, T \subseteq S
    PROVE  IsFiniteSet(T) /\ Cardinality(T) \in Nat /\ Cardinality(S) \in Nat /\ Cardinality(T) <= Cardinality(S)
BY FS_Subset, FS_CardinalityType

\* What two finite sets cover is no larger than both.
LEMMA CountBoth ==
    ASSUME NEW S, IsFiniteSet(S), NEW T, IsFiniteSet(T), NEW U, U \subseteq S \cup T
    PROVE  /\ IsFiniteSet(U) /\ {Cardinality(S), Cardinality(T), Cardinality(U)} \subseteq Nat
           /\ Cardinality(U) <= Cardinality(S) + Cardinality(T)
<1>1. /\ IsFiniteSet(S \cup T)
      /\ Cardinality(S \cup T) = Cardinality(S) + Cardinality(T) - Cardinality(S \cap T)
  BY FS_Union
<1>2. Cardinality(S \cap T) \in Nat /\ Cardinality(S) \in Nat /\ Cardinality(T) \in Nat
  <2>1. IsFiniteSet(S \cap T)
    BY FS_Subset
  <2> QED  BY <2>1, FS_CardinalityType
<1>3. IsFiniteSet(U) /\ Cardinality(U) \in Nat /\ Cardinality(U) <= Cardinality(S \cup T)
  BY <1>1, CountPart
<1> QED  BY <1>1, <1>2, <1>3

\* A product grows with its factor.
LEMMA TimesMore ==
    ASSUME NEW a \in Nat, NEW b \in Nat, NEW c \in Nat, b <= c
    PROVE  a * b \in Nat /\ a * c \in Nat /\ a * b <= a * c
<1>1. PICK d \in Nat : c = b + d
  <2>1. c - b \in Nat /\ c = b + (c - b)
    OBVIOUS
  <2> QED  BY <2>1
<1>2. a * b \in Nat /\ a * d \in Nat
  OBVIOUS
<1>3. a * c = a * b + a * d
  BY <1>1
<1> QED  BY <1>2, <1>3

\* The limits are numbers, and there are so many workers, one at least.
LEMMA Limits == /\ PerRun \in Nat /\ PerChain \in Nat
                /\ IsFiniteSet(Workers) /\ Cardinality(Workers) \in Nat \ {0}
<1>1. IsFiniteSet(Workers) /\ Workers # {} /\ PerRun \in Nat /\ PerChain \in Nat
  BY EngineAssumption
<1> QED  BY <1>1, FS_EmptySet, FS_CardinalityType

\* The cap grows by a run with each fault.
LEMMA CapIs ==
    ASSUME NEW n \in Nat
    PROVE  /\ Cap(n) = PerChain + PerRun * (Cardinality(Workers) - 1) + PerRun * n
           /\ PerRun * (Cardinality(Workers) - 1) \in Nat /\ PerRun * n \in Nat /\ Cap(n) \in Nat
<1>1. PICK k \in Nat : k = Cardinality(Workers) - 1
  BY Limits
<1>2. PerRun * (k + n) = PerRun * k + PerRun * n /\ PerRun * k \in Nat /\ PerRun * n \in Nat
  BY Limits
<1> QED  BY <1>1, <1>2, Limits DEF Cap

\* More faults, a higher cap.
LEMMA CapGrows ==
    ASSUME NEW m \in Nat, NEW n \in Nat, m <= n
    PROVE  Cap(m) \in Nat /\ Cap(n) \in Nat /\ Cap(m) <= Cap(n)
<1>1. PICK b \in Nat : b = PerRun * (Cardinality(Workers) - 1)
  BY CapIs
<1>2. PICK j \in Nat, k \in Nat : j = PerRun * m /\ k = PerRun * n /\ j <= k
  BY Limits, TimesMore
<1>3. Cap(m) = PerChain + b + j /\ Cap(n) = PerChain + b + k
  BY <1>1, <1>2, CapIs
<1> QED  BY <1>2, <1>3, Limits

\* Steps are numbered.
LEMMA StepsAreNumbers == ASSUME NEW v \in Versions, NEW e PROVE segment(v, e) \subseteq Nat
<1>1. Steps[v] \in Seq(Nodes)
  BY EngineAssumption
<1> QED  BY <1>1 DEF segment

\* Two steps of a plan have different places.
LEMMA PlacesApart ==
    ASSUME NEW v \in Versions, NEW e, NEW i \in segment(v, e), NEW j \in segment(v, e),
           place(v, e, i) = place(v, e, j)
    PROVE  i = j
<1> DEFINE before(k) == {h \in segment(v, e) : h < k}
<1>1. segment(v, e) \subseteq Nat
  BY StepsAreNumbers
<1>2. \A k \in segment(v, e) : IsFiniteSet(before(k))
  <2>1. ASSUME NEW k \in segment(v, e) PROVE IsFiniteSet(before(k))
    <3>1. before(k) \in SUBSET Nat /\ \A h \in before(k) : h <= k
      BY <1>1
    <3> QED  BY <1>1, <3>1, FS_BoundedSetOfNaturals
  <2> QED  BY <2>1
<1>3. ASSUME NEW k \in segment(v, e), NEW h \in segment(v, e), k < h PROVE place(v, e, k) # place(v, e, h)
  <2>1. before(k) \in SUBSET before(h)
    BY <1>1, <1>3
  <2>2. k \in before(h) /\ k \notin before(k)
    BY <1>1, <1>3
  <2> HIDE DEF before
  <2>3. Cardinality(before(k)) # Cardinality(before(h))
    BY <1>2, <2>1, <2>2, FS_Subset
  <2> QED  BY <2>3 DEF place, before
<1> QED  BY <1>1, <1>3

\* Steps of the runs of workers M, each among the first n of its plan, are so many.
LEMMA Slots ==
    ASSUME NEW M, IsFiniteSet(M), NEW n \in Nat, NEW B \in SUBSET (Rules \X Keys \X Nat),
           \A w \in M : runs[runOf(w)].ver \in Versions,
           \A a \in B : (\E w \in M : of(a) = runOf(w)) /\ Placed(of(a), a[3], n)
    PROVE  IsFiniteSet(B) /\ Cardinality(B) <= n * Cardinality(M)
<1> DEFINE at(a) == place(runs[of(a)].ver, runs[of(a)].event, a[3])
           by(a) == CHOOSE w \in M : of(a) = runOf(w)
           slots == M \X (0..(n - 1))
           f == [a \in B |-> <<by(a), at(a)>>]
<1>1. \A a \in B : by(a) \in M /\ of(a) = runOf(by(a))
  OBVIOUS
<1>2. \A a \in B : at(a) \in 0..(n - 1)
  <2>1. ASSUME NEW a \in B PROVE at(a) \in Nat
    <3> DEFINE v == runs[of(a)].ver
               e == runs[of(a)].event
    <3>1. v \in Versions /\ a[3] \in Nat
      BY <1>1
    <3>2. segment(v, e) \subseteq Nat
      BY <3>1, StepsAreNumbers
    <3>3. {j \in segment(v, e) : j < a[3]} \in SUBSET Nat /\ \A j \in {j \in segment(v, e) : j < a[3]} : j <= a[3]
      BY <3>1, <3>2
    <3>4. IsFiniteSet({j \in segment(v, e) : j < a[3]})
      BY <3>1, <3>3, FS_BoundedSetOfNaturals
    <3> QED  BY <3>4, FS_CardinalityType DEF place
  <2> QED  BY <2>1 DEF Placed
<1>3. ASSUME NEW a \in B, NEW b \in B, by(a) = by(b), at(a) = at(b) PROVE a = b
  <2>1. of(a) = of(b)
    BY <1>1, <1>3
  <2>2. runs[of(a)].ver \in Versions
    BY <1>1
  <2>3. a[3] = b[3]
    BY <1>3, <2>1, <2>2, PlacesApart DEF Placed
  <2> QED  BY <2>1, <2>3 DEF of
<1> HIDE DEF at, by
<1>4. f \in Injection(B, slots)
  BY <1>1, <1>2, <1>3 DEF Injection, IsInjective
<1>5. IsFiniteSet(0..(n - 1)) /\ Cardinality(0..(n - 1)) = n
  BY FS_Interval
<1>6. IsFiniteSet(slots) /\ Cardinality(slots) = Cardinality(M) * n
  BY <1>5, FS_Product
<1> HIDE DEF f, slots
<1>7. IsFiniteSet(B) /\ Cardinality(B) <= Cardinality(slots)
  BY <1>4, <1>6, FS_Injection
<1>8. Cardinality(M) * n = n * Cardinality(M)
  BY FS_CardinalityType
<1> QED  BY <1>6, <1>7, <1>8
\* What the steps of a chain come to: those of the runs nobody has in hand, and a
\* run for each worker that has one.
LEMMA SoFar ==
    ASSUME Typed, Whole, Sparing, NEW c, NEW M, IsFiniteSet(M), \A w \in Workers : midway(w) => w \in M
    PROVE  /\ Cardinality(done(c) \cup coming(c)) <= Cardinality(over(c)) + PerRun * Cardinality(M)
           /\ {Cardinality(over(c)), PerRun * Cardinality(M)} \subseteq Nat
<1> DEFINE mids == {w \in Workers : midway(w)}
           B == (done(c) \cup coming(c)) \ over(c)
<1>1. /\ IsFiniteSet(mids) /\ Cardinality(mids) \in Nat /\ Cardinality(M) \in Nat
      /\ Cardinality(mids) <= Cardinality(M)
  <2>1. mids \subseteq M
    OBVIOUS
  <2> QED  BY <2>1, CountPart
<1>2. B \in SUBSET (Rules \X Keys \X Nat)
  BY DEF done, coming, Typed, TypeOK
<1>3. \A w \in mids : runs[runOf(w)].ver \in Versions
  <2>1. ASSUME NEW w \in mids PROVE runs[runOf(w)].ver \in Versions
    <3>1. workers[w].pc \in Making
      BY DEF midway, Midway, Making
    <3>2. runs[runOf(w)].ver = workers[w].ver
      BY <3>1 DEF Whole, Tells
    <3> QED  BY <3>1, <3>2, InHand, MakingIsInHand
  <2> QED  BY <2>1
<1>4. ASSUME NEW a \in B PROVE (\E w \in mids : of(a) = runOf(w)) /\ Placed(of(a), a[3], PerRun)
  <2>1. CASE a \in done(c)
    <3>1. inHand(of(a))
      BY <2>1 DEF over
    <3>2. a \in acted
      BY <2>1 DEF done
    <3> QED  BY <3>1, <3>2 DEF inHand, Sparing, WithinRun
  <2>2. CASE a \in coming(c)
    <3>1. PICK w \in Workers : midway(w) /\ of(a) = runOf(w) /\ a[3] \in workers[w].todo
      BY <2>2 DEF coming
    <3> QED  BY <3>1 DEF Sparing, Counts
  <2> QED  BY <2>1, <2>2
<1> HIDE DEF mids
<1>5. IsFiniteSet(B) /\ Cardinality(B) <= PerRun * Cardinality(mids)
  <2> HIDE DEF B
  <2> QED  BY <1>1, <1>2, <1>3, <1>4, Limits, Slots
<1>6. /\ PerRun * Cardinality(mids) \in Nat /\ PerRun * Cardinality(M) \in Nat
      /\ PerRun * Cardinality(mids) <= PerRun * Cardinality(M)
  BY <1>1, Limits, TimesMore
<1>7. done(c) \cup coming(c) \subseteq over(c) \cup B
  OBVIOUS
<1>8. IsFiniteSet(over(c))
  BY DEF Sparing, Covered
<1> HIDE DEF B
<1>9. /\ {Cardinality(over(c)), Cardinality(B), Cardinality(done(c) \cup coming(c))} \subseteq Nat
      /\ Cardinality(done(c) \cup coming(c)) <= Cardinality(over(c)) + Cardinality(B)
  BY <1>5, <1>7, <1>8, CountBoth
<1> QED  BY <1>5, <1>6, <1>9

\* What a run in hand has done is one run's worth.
LEMMA OneRun ==
    ASSUME Typed, Whole, Sparing, NEW w \in Workers, midway(w)
    PROVE  /\ IsFiniteSet(stepsOf(runOf(w))) /\ Cardinality(stepsOf(runOf(w))) \in Nat
           /\ Cardinality(stepsOf(runOf(w))) <= PerRun
<1> DEFINE B == stepsOf(runOf(w))
<1>1. PICK M : M = {w}
  OBVIOUS
<1>2. IsFiniteSet(M) /\ Cardinality(M) = 1
  BY <1>1, FS_Singleton
<1>3. B \in SUBSET (Rules \X Keys \X Nat)
  BY DEF stepsOf, Typed, TypeOK
<1>4. runs[runOf(w)].ver \in Versions
  <2>1. workers[w].pc \in Making
    BY DEF midway, Midway, Making
  <2>2. runs[runOf(w)].ver = workers[w].ver
    BY <2>1 DEF Whole, Tells
  <2> QED  BY <2>1, <2>2, InHand, MakingIsInHand
<1>5. \A a \in B : (\E v \in M : of(a) = runOf(v)) /\ Placed(of(a), a[3], PerRun)
  BY <1>1 DEF stepsOf, Sparing, WithinRun
<1> HIDE DEF B
<1>6. IsFiniteSet(B) /\ Cardinality(B) <= PerRun * Cardinality(M)
  BY <1>1, <1>2, <1>3, <1>4, <1>5, Limits, Slots
<1>7. PerRun * Cardinality(M) = PerRun
  BY <1>2, Limits
<1> QED  BY <1>6, <1>7, FS_CardinalityType DEF B

\* A worker goes on with its run, or has none in hand and takes up a new one.
Proceeds(v) ==
    /\ midway(v) => midway(v)' /\ runOf(v)' = runOf(v)
    /\ midway(v)' =>
        /\ midway(v) /\ runOf(v)' = runOf(v)
        /\ workers'[v].todo \subseteq workers[v].todo /\ written(v) <= written(v)'
    /\ workers'[v].pc = "plan" => runs'[runOf(v)'].actions = 0

\* No count is recorded.
Unrecorded ==
    \A y \in DOMAIN runs' : runs'[y].actions = IF y \in DOMAIN runs THEN runs[y].actions ELSE 0

\* A recorded step is one of a run of the chain.
LEMMA RecordedIs ==
    \A c : \A p : p \in counted(c) <=>
        \E y \in DOMAIN runs : chainOf(y) = c /\ p \in {y} \X (1..runs[y].actions)
BY DEF counted, recorded

\* What the steps done and the runs on record are to their chains does not change.
LEMMA ChainsStand ==
    ASSUME Once, RunsStand, UNCHANGED acted, NEW c
    PROVE  done(c)' = done(c)
<1>1. \A a \in acted : of(a) \in DOMAIN runs
  BY DEF Once, of
<1> QED  BY <1>1 DEF done, RunsStand, chainOf

\* Nor does what is on record of a chain, where no count is recorded.
LEMMA RecordStands ==
    ASSUME RunsStand, Unrecorded, NEW c
    PROVE  counted(c)' = counted(c)
<1>1. ASSUME NEW p PROVE p \in counted(c)' <=> p \in counted(c)
  <2>1. p \in counted(c)' <=>
          \E y \in DOMAIN runs' : chainOf(y)' = c /\ p \in {y} \X (1..runs'[y].actions)
    BY DEF counted, recorded
  <2>2. \A y \in DOMAIN runs' : y \notin DOMAIN runs => {y} \X (1..runs'[y].actions) = {}
    BY DEF Unrecorded
  <2>3. \A y \in DOMAIN runs : y \in DOMAIN runs' /\ chainOf(y)' = chainOf(y) /\ runs'[y].actions = runs[y].actions
    BY DEF Unrecorded, RunsStand, chainOf
  <2> QED  BY <2>1, <2>2, <2>3, RecordedIs
<1> QED  BY <1>1

\* Where every worker proceeds and nothing is done or recorded, everything stands.
LEMMA SparingKept ==
    ASSUME Typed, Typed', Once, Sparing, UNCHANGED acted, RunsStand, Unrecorded, faults <= faults',
           \A v \in Workers : Proceeds(v)
    PROVE  Sparing'
<1>0. faults \in Nat /\ faults' \in Nat
  BY DEF Typed, TypeOK
<1>1. \A v \in Workers : midway(v) => runOf(v) \in DOMAIN runs
  BY InHand DEF midway, Midway, OnARule, PCs
<1>2. ASSUME NEW x \in DOMAIN runs, NEW i, Placed(x, i, PerRun) PROVE Placed(x, i, PerRun)'
  BY <1>2 DEF Placed, RunsStand
<1>3. ASSUME NEW v \in Workers PROVE Counts(v)'
  <2>1. CASE midway(v)'
    <3>1. midway(v) /\ runOf(v)' = runOf(v) /\ workers'[v].todo \subseteq workers[v].todo /\ written(v) <= written(v)'
      BY <2>1 DEF Proceeds
    <3>2. stepsOf(runOf(v))' = stepsOf(runOf(v))
      BY <3>1 DEF stepsOf
    <3>3. /\ runs[runOf(v)].actions = 0 /\ IsFiniteSet(stepsOf(runOf(v)))
          /\ Cardinality(stepsOf(runOf(v))) <= written(v)
          /\ \A i \in workers[v].todo : Placed(runOf(v), i, PerRun)
      BY <3>1 DEF Sparing, Counts, midway
    <3>4. runs'[runOf(v)'].actions = 0
      BY <1>1, <3>1, <3>3 DEF Unrecorded, RunsStand
    <3>5. \A i \in workers'[v].todo : Placed(runOf(v), i, PerRun)'
      <4>1. PICK x : x = runOf(v)
        OBVIOUS
      <4>2. x \in DOMAIN runs /\ runOf(v)' = x
        BY <1>1, <3>1, <4>1
      <4>3. ASSUME NEW i \in workers'[v].todo PROVE Placed(x, i, PerRun)'
        <5>1. Placed(x, i, PerRun)
          BY <3>1, <3>3, <4>1
        <5> QED  BY <1>2, <4>2, <5>1
      <4> QED  BY <4>2, <4>3
    <3>6. written(v) \in Nat /\ written(v)' \in Nat /\ Cardinality(stepsOf(runOf(v))) \in Nat
      BY <3>3, FS_CardinalityType DEF written, Typed, TypeOK, Worker
    <3>7. Cardinality(stepsOf(runOf(v))') <= written(v)'
      BY <3>1, <3>2, <3>3, <3>6
    <3> QED  BY <3>2, <3>3, <3>4, <3>5, <3>7 DEF Counts
  <2>2. CASE ~midway(v)'
    BY <2>2 DEF Counts, Proceeds, midway
  <2> QED  BY <2>1, <2>2
<1>4. WithinRun'
  <2>1. \A a \in acted : of(a) \in DOMAIN runs
    BY DEF Once, of
  <2> QED  BY <1>2, <2>1 DEF Sparing, WithinRun, of
<1>5. \A x : inHand(x) => inHand(x)'
  BY DEF inHand, Proceeds
<1>6. \A c : over(c)' \subseteq over(c) /\ counted(c)' = counted(c)
  BY <1>5, ChainsStand, RecordStands DEF over
<1>7. \A c : coming(c)' \subseteq coming(c)
  <2>1. ASSUME NEW c, NEW a \in coming(c)' PROVE a \in coming(c)
    <3>1. PICK w \in Workers : /\ midway(w)' /\ of(a) = runOf(w)' /\ a[3] \in workers'[w].todo
                               /\ runs'[of(a)].event.chain = c
      BY DEF coming, chainOf
    <3>2. midway(w) /\ of(a) = runOf(w) /\ a[3] \in workers[w].todo
      BY <3>1 DEF Proceeds
    <3>3. runs[of(a)].event.chain = c
      BY <1>1, <3>1, <3>2 DEF RunsStand
    <3>4. a \in Rules \X Keys \X Nat
      BY DEF coming
    <3> QED  BY <3>2, <3>3, <3>4 DEF coming, chainOf
  <2> QED  BY <2>1
<1>8. PerRun * faults \in Nat /\ PerRun * faults' \in Nat /\ PerRun * faults <= PerRun * faults'
  BY <1>0, Limits, TimesMore
<1>9. Covered'
  <2>1. ASSUME NEW c
        PROVE  /\ IsFiniteSet(counted(c)') /\ IsFiniteSet(over(c)')
               /\ Cardinality(over(c)') <= Cardinality(counted(c)') + PerRun * faults'
    <3>1. /\ IsFiniteSet(counted(c)) /\ IsFiniteSet(over(c))
          /\ Cardinality(over(c)) <= Cardinality(counted(c)) + PerRun * faults
      BY DEF Sparing, Covered
    <3>2. Cardinality(counted(c)) \in Nat
      BY <3>1, FS_CardinalityType
    <3>3. /\ IsFiniteSet(over(c)') /\ Cardinality(over(c)') <= Cardinality(over(c))
          /\ Cardinality(over(c)') \in Nat /\ Cardinality(over(c)) \in Nat
      BY <1>6, <3>1, CountPart
    <3> QED  BY <1>6, <1>8, <3>1, <3>2, <3>3
  <2> QED  BY <2>1 DEF Covered
<1>10. Capped'
  <2>1. ASSUME NEW c
        PROVE  IsFiniteSet(done(c)' \cup coming(c)') /\ Cardinality(done(c)' \cup coming(c)') <= Cap(faults)'
    <3> DEFINE S == done(c) \cup coming(c)
               T == done(c)' \cup coming(c)'
    <3>1. IsFiniteSet(S) /\ Cardinality(S) <= Cap(faults)
      BY DEF Sparing, Capped
    <3>2. T \subseteq S
      BY <1>7, ChainsStand
    <3>4. Cap(faults) <= Cap(faults)' /\ Cap(faults) \in Nat /\ Cap(faults)' \in Nat
      <4>1. PICK m \in Nat, n \in Nat : m = faults /\ n = faults'
        BY <1>0
      <4>2. Cap(m) <= Cap(n) /\ Cap(m) \in Nat /\ Cap(n) \in Nat
        BY <4>1, CapGrows
      <4> QED  BY <4>1, <4>2 DEF Cap
    <3> HIDE DEF S, T
    <3>3. IsFiniteSet(T) /\ Cardinality(T) <= Cardinality(S) /\ {Cardinality(S), Cardinality(T)} \subseteq Nat
      BY <3>1, <3>2, CountPart
    <3> QED  BY <3>1, <3>3, <3>4 DEF T
  <2> QED  BY <2>1 DEF Capped
<1> QED  BY <1>3, <1>4, <1>9, <1>10 DEF Sparing

\* A worker that did not move, or has and had no run under way, proceeds.
LEMMA RestProceed ==
    ASSUME Typed, Sparing, RunsStand, Unrecorded, NEW v \in Workers,
           \/ workers'[v] = workers[v]
           \/ workers'[v].pc \notin Midway \cup {"plan"} /\ ~midway(v)
    PROVE  Proceeds(v)
<1>1. CASE workers'[v] = workers[v]
  <2>1. runOf(v)' = runOf(v)
    BY <1>1 DEF runOf
  <2>2. written(v) <= written(v)'
    <3>1. written(v)' = written(v)
      BY <1>1 DEF written
    <3>2. written(v) \in Nat \/ ~midway(v)
      BY DEF written, Typed, TypeOK, Worker
    <3>3. workers[v].did \in Nat
      BY DEF Typed, TypeOK, Worker
    <3> QED  BY <3>1, <3>3 DEF written
  <2>3. workers[v].pc = "plan" => runOf(v) \in DOMAIN runs /\ runs[runOf(v)].actions = 0
    BY InHand DEF OnARule, PCs, Sparing, Counts
  <2>4. workers'[v].pc = "plan" => runs'[runOf(v)'].actions = 0
    BY <1>1, <2>1, <2>3 DEF Unrecorded, RunsStand
  <2> QED  BY <1>1, <2>1, <2>2, <2>4 DEF Proceeds, midway
<1>2. CASE workers'[v].pc \notin Midway \cup {"plan"} /\ ~midway(v)
  BY <1>2 DEF Proceeds, midway
<1> QED  BY <1>1, <1>2

\* Only the count is recorded.
LEMMA UnrecordedBut ==
    ASSUME Typed, [Next]_vars, \A w \in Workers : ~Count(w)
    PROVE  Unrecorded
<1>0. runs \in [DOMAIN runs -> Run]
  BY DEF Typed, TypeOK
<1>1. ASSUME runs' = runs PROVE Unrecorded
  BY <1>1 DEF Unrecorded
<1>2. ASSUME NEW x, (\E status : runs' = [runs EXCEPT ![x].status = status])
                    \/ (\E logs : runs' = [runs EXCEPT ![x].logs = logs])
      PROVE  Unrecorded
  <2>1. PICK run : runs' = [runs EXCEPT ![x] = run] /\ (x \in DOMAIN runs => run.actions = runs[x].actions)
    <3> DEFINE Is(run) == runs' = [runs EXCEPT ![x] = run] /\ (x \in DOMAIN runs => run.actions = runs[x].actions)
    <3>1. ASSUME NEW status, runs' = [runs EXCEPT ![x].status = status]
          PROVE  Is([runs[x] EXCEPT !.status = status])
      BY <1>0, <3>1 DEF Run
    <3>2. ASSUME NEW logs, runs' = [runs EXCEPT ![x].logs = logs]
          PROVE  Is([runs[x] EXCEPT !.logs = logs])
      BY <1>0, <3>2 DEF Run
    <3>3. \E run : Is(run)
      <4> HIDE DEF Is
      <4> QED  BY <1>2, <3>1, <3>2
    <3> QED  BY <3>3
  <2> QED  BY <2>1 DEF Unrecorded
<1>3. ASSUME NEW x, NEW run, x \notin DOMAIN runs, runs' = Put(runs, x, run), run.actions = 0
      PROVE  Unrecorded
  BY <1>3 DEF Unrecorded, Put
<1>4. ASSUME NEW w \in Workers, Begin(w) PROVE Unrecorded
  <2>0. PICK e : e = workers[w].event
    OBVIOUS
  <2>1. PICK p \in workers[w].left :
          runs' = IF made(<<p[1], runKey(e)>>) THEN runs
                  ELSE Put(runs, <<p[1], runKey(e)>>,
                           [event |-> e, ver |-> p[2], actions |-> 0, logs |-> {}, status |-> "RUNNING"])
    BY <1>4, <2>0 DEF Begin
  <2>2. PICK x : x = <<p[1], runKey(e)>>
    OBVIOUS
  <2>3. PICK run : run = [event |-> e, ver |-> p[2], actions |-> 0, logs |-> {}, status |-> "RUNNING"]
    OBVIOUS
  <2>4. run.actions = 0
    BY <2>3
  <2>5. runs' = runs \/ (x \notin DOMAIN runs /\ runs' = Put(runs, x, run))
    BY <2>1, <2>2, <2>3 DEF made
  <2> QED  BY <1>1, <1>3, <2>4, <2>5
<1>5. ASSUME NEW k \in DOMAIN jobs, StopAtDepth(k) PROVE Unrecorded
  <2>1. PICK x, e : \/ runs' = runs
                    \/ /\ x \notin DOMAIN runs
                       /\ runs' = Put(runs, x, [event |-> e, ver |-> None, actions |-> 0,
                                                 logs |-> {}, status |-> "SKIPPED"])
    BY <1>5 DEF StopAtDepth
  <2> QED  BY <1>1, <1>3, <2>1
<1>6. ASSUME NEW w \in Workers, Step(w) PROVE Unrecorded
  <2>1. CASE CloseStopped(w) \/ Skip(w) \/ Log(w) \/ Refuse(w) \/ Finish(w)
    BY <1>2, <2>1 DEF CloseStopped, Skip, Log, Refuse, Finish
  <2>2. CASE Collect(w) \/ Plan(w) \/ Act(w) \/ ScheduleDelays(w) \/ RulesThrough(w)
             \/ PublishNext(w) \/ Settle(w)
    BY <1>1, <2>2 DEF Collect, Plan, Act, ScheduleDelays, RulesThrough, PublishNext, Settle, db
  <2> QED  BY <1>4, <1>6, <2>1, <2>2 DEF Step
<1>7. CASE Take
  BY <1>1, <1>5, <1>7 DEF Take, Load, db
<1>8. CASE Clock \/ People \/ Misfortune \/ UNCHANGED vars
  BY <1>1, <1>8 DEF Clock, ClaimWait, ResumeWait, People, Complete, Change, Publish, Pause,
     Misfortune, Throw, Kill, Stall, LoseAdd, Expire, TickDies, vars, db
<1> QED  BY <1>6, <1>7, <1>8 DEF Next

\* What a worker does that is not midway, and does not plan.
LEMMA ApartFromRuns ==
    ASSUME Typed, Sparing, RunsStand, Unrecorded, NEW w \in Workers,
           \/ CloseStopped(w) \/ Collect(w) \/ Skip(w) \/ Refuse(w) \/ ScheduleDelays(w) \/ Finish(w)
           \/ RulesThrough(w) \/ PublishNext(w) \/ LoseAdd(w) \/ Settle(w)
           \/ ((Throw(w) \/ Kill(w)) /\ ~midway(w))
    PROVE  (\A v \in Workers : Proceeds(v)) /\ UNCHANGED acted
<1>1. workers \in [Workers -> Worker] /\ workers[w] \in Worker
  BY DEF Typed, TypeOK
<1>2. \A v \in Workers \ {w} : workers'[v] = workers[v]
  BY <1>1 DEF CloseStopped, Collect, Skip, Refuse, ScheduleDelays, Finish, RulesThrough,
              PublishNext, LoseAdd, Settle, Throw, Kill
<1>3. workers'[w].pc \notin Midway \cup {"plan"} /\ ~midway(w)
  <2>1. CASE CloseStopped(w) \/ Collect(w) \/ Skip(w) \/ Refuse(w) \/ ScheduleDelays(w)
             \/ Finish(w) \/ RulesThrough(w)
    <3>1. workers'[w].pc \in {"collect", "rules", "finish", "publish"}
      BY <2>1, WhereNext
    <3>2. workers[w].pc \in {"close", "collect", "plan", "refuse", "wait", "finish", "rules"}
      BY <2>1 DEF CloseStopped, Collect, Skip, Refuse, ScheduleDelays, Finish, RulesThrough
    <3> QED  BY <3>1, <3>2 DEF Midway, midway
  <2>2. CASE PublishNext(w) \/ LoseAdd(w)
    <3>1. workers[w].pc = "publish" /\ \E e : workers' = [workers EXCEPT ![w].out = @ \ {e}]
      BY <2>2 DEF PublishNext, LoseAdd
    <3>2. workers'[w].pc = "publish"
      BY <1>1, <3>1 DEF Worker
    <3> QED  BY <3>1, <3>2 DEF Midway, midway
  <2>3. CASE Settle(w) \/ ((Throw(w) \/ Kill(w)) /\ ~midway(w))
    <3>1. workers'[w] = Idle
      BY <1>1, <2>3 DEF Settle, Throw, Kill
    <3>2. ~midway(w)
      BY <2>3 DEF Settle, Midway, midway
    <3> QED  BY <3>1, <3>2 DEF Midway, Idle
  <2> QED  BY <2>1, <2>2, <2>3
<1>4. UNCHANGED acted
  BY DEF CloseStopped, Collect, Skip, Refuse, ScheduleDelays, Finish, RulesThrough,
         PublishNext, LoseAdd, Settle, Throw, Kill, seen
<1> QED  BY <1>2, <1>3, <1>4, RestProceed

\* A line is written for what was done: the worker counts it.
LEMMA LogProceeds ==
    ASSUME Typed, Sparing, RunsStand, Unrecorded, NEW w \in Workers, Log(w) \/ Stall(w)
    PROVE  (\A v \in Workers : Proceeds(v)) /\ UNCHANGED acted
<1>1. workers \in [Workers -> Worker] /\ workers[w] \in Worker
  BY DEF Typed, TypeOK
<1>2. \A v \in Workers \ {w} : Proceeds(v)
  <2>1. \A v \in Workers \ {w} : workers'[v] = workers[v]
    BY <1>1 DEF Log, Stall
  <2> QED  BY <2>1, RestProceed
<1>3. CASE Log(w)
  <2>1. /\ workers'[w].pc \in {"count", "act"} /\ workers'[w].did = workers[w].did + 1
        /\ workers'[w].todo = workers[w].todo
        /\ workers'[w].rule = workers[w].rule /\ workers'[w].event = workers[w].event
    BY <1>1, <1>3 DEF Log, Worker
  <2>2. workers[w].pc = "log" /\ workers[w].did \in Nat
    BY <1>1, <1>3 DEF Log, Worker
  <2>3. runOf(w)' = runOf(w)
    BY <2>1 DEF runOf
  <2>4. written(w) <= written(w)'
    BY <2>1, <2>2 DEF written
  <2>5. Proceeds(w)
    BY <2>1, <2>2, <2>3, <2>4 DEF Proceeds, midway, Midway
  <2> QED  BY <1>2, <1>3, <2>5 DEF Log, seen
<1>4. CASE Stall(w)
  <2>1. /\ workers'[w].pc = workers[w].pc /\ workers'[w].did = workers[w].did
        /\ workers'[w].todo = workers[w].todo
        /\ workers'[w].rule = workers[w].rule /\ workers'[w].event = workers[w].event
    BY <1>1, <1>4 DEF Stall, Worker
  <2>2. workers[w].did \in Nat
    BY <1>1 DEF Worker
  <2>3. runOf(w)' = runOf(w)
    BY <2>1 DEF runOf
  <2>4. written(w) <= written(w)'
    BY <2>1, <2>2 DEF written
  <2>5. workers[w].pc = "plan" => runOf(w) \in DOMAIN runs /\ runs[runOf(w)].actions = 0
    BY InHand DEF OnARule, PCs, Sparing, Counts
  <2>6. workers'[w].pc = "plan" => runs'[runOf(w)'].actions = 0
    BY <2>1, <2>3, <2>5 DEF Unrecorded, RunsStand
  <2>7. Proceeds(w)
    BY <2>1, <2>3, <2>4, <2>6 DEF Proceeds, midway
  <2> QED  BY <1>2, <1>4, <2>7 DEF Stall, seen
<1> QED  BY <1>3, <1>4

\* A rule is taken up: the run made has nothing on record.
LEMMA BeginProceeds ==
    ASSUME Typed, Sparing, RunsStand, Unrecorded, NEW w \in Workers, Begin(w)
    PROVE  (\A v \in Workers : Proceeds(v)) /\ UNCHANGED acted
<1> DEFINE me == workers[w]
           e == me.event
<1>1. me \in Worker /\ me.pc = "rules" /\ workers \in [Workers -> Worker]
  BY DEF Begin, Typed, TypeOK
<1>2. PICK p \in me.left :
        LET x == <<p[1], runKey(e)>> IN
        /\ workers' = [workers EXCEPT
               ![w].left = @ \ {p}, ![w].rule = p[1], ![w].ver = p[2],
               ![w].pc = IF ~made(x) THEN "plan"
                         ELSE IF runs[x].status = "RUNNING" THEN "close" ELSE "collect"]
        /\ runs' = IF made(x) THEN runs
                   ELSE Put(runs, x, [event |-> e, ver |-> p[2], actions |-> 0,
                                      logs |-> {}, status |-> "RUNNING"])
  BY DEF Begin
<1> DEFINE x == <<p[1], runKey(e)>>
           to == IF ~made(x) THEN "plan"
                 ELSE IF runs[x].status = "RUNNING" THEN "close" ELSE "collect"
<1>3. workers' = [workers EXCEPT ![w].left = @ \ {p}, ![w].rule = p[1], ![w].ver = p[2], ![w].pc = to]
  BY <1>2
<1>4. to \in {"plan", "close", "collect"} /\ (to = "plan" => ~made(x))
  OBVIOUS
<1> HIDE DEF to
<1>5. workers'[w].pc = to /\ workers'[w].rule = p[1] /\ workers'[w].event = e
  BY <1>1, <1>3 DEF Worker
<1>6. \A v \in Workers \ {w} : Proceeds(v)
  <2>1. \A v \in Workers \ {w} : workers'[v] = workers[v]
    BY <1>1, <1>3
  <2> QED  BY <2>1, RestProceed
<1>7. runOf(w)' = x
  BY <1>5 DEF runOf
<1>8. to = "plan" => runs'[x].actions = 0
  <2>1. SUFFICES ASSUME ~made(x) PROVE runs'[x].actions = 0
    BY <1>4
  <2>2. x \in DOMAIN runs' /\ x \notin DOMAIN runs
    BY <1>2, <2>1 DEF made, Put
  <2> QED  BY <2>2 DEF Unrecorded
<1>9. Proceeds(w)
  BY <1>1, <1>4, <1>5, <1>7, <1>8 DEF Proceeds, midway, Midway
<1> QED  BY <1>6, <1>9 DEF Begin, seen

\* The rest of the system does no step of a rule.
LEMMA ElsewhereProceeds ==
    ASSUME Typed, Sparing, RunsStand, Unrecorded,
           Take \/ Clock \/ People \/ (\E k : Expire(k))
                \/ (\E d \in waits : TickDies(d)) \/ UNCHANGED vars
    PROVE  (\A v \in Workers : Proceeds(v)) /\ UNCHANGED acted
<1>1. UNCHANGED acted
  BY DEF Take, Load, StopAtDepth, Clock, ClaimWait, ResumeWait, People, Complete, Change, Publish,
         Pause, Expire, TickDies, vars, seen
<1>2. CASE UNCHANGED workers
  BY <1>1, <1>2, RestProceed
<1>3. ASSUME NEW w \in Workers, NEW k \in DOMAIN jobs, Load(w, k) PROVE \A v \in Workers : Proceeds(v)
  <2>1. workers \in [Workers -> Worker]
    BY DEF Typed, TypeOK
  <2>2. /\ workers[w].pc = "idle" /\ workers'[w].pc = "rules"
        /\ \A v \in Workers \ {w} : workers'[v] = workers[v]
    BY <1>3, <2>1 DEF Load, Idle
  <2> QED  BY <2>2, RestProceed DEF Midway, midway
<1>4. UNCHANGED workers \/ \E w \in Workers, k \in DOMAIN jobs : Load(w, k)
  BY DEF Take, StopAtDepth, Clock, ClaimWait, ResumeWait, People, Complete, Change, Publish,
         Pause, Expire, TickDies, vars
<1> QED  BY <1>1, <1>2, <1>3, <1>4

\* A fault raises the cap by a run.
LEMMA FaultCounts ==
    ASSUME Typed, NEW w, Throw(w) \/ Kill(w)
    PROVE  /\ faults \in Nat /\ faults' = faults + 1
           /\ Cap(faults) \in Nat /\ Cap(faults') \in Nat /\ Cap(faults) <= Cap(faults')
           /\ PerRun * faults \in Nat /\ PerRun * faults' = PerRun * faults + PerRun
<1>1. PICK m \in Nat : m = faults
  BY DEF Typed, TypeOK
<1>2. faults' = m + 1
  BY <1>1 DEF Throw, Kill, Fault
<1>3. Cap(m) \in Nat /\ Cap(m + 1) \in Nat /\ Cap(m) <= Cap(m + 1)
  BY CapGrows
<1>4. PerRun * m \in Nat /\ PerRun * (m + 1) = PerRun * m + PerRun
  BY Limits
<1> QED  BY <1>1, <1>2, <1>3, <1>4

\* A worker is interrupted with a run in hand: what it has done nobody records.
LEMMA InterruptedSpares ==
    ASSUME Typed, Whole, Sparing, NEW w \in Workers, midway(w), Throw(w) \/ Kill(w)
    PROVE  Sparing'
<1>1. workers \in [Workers -> Worker]
  BY DEF Typed, TypeOK
<1>2. ~midway(w)' /\ workers'[w].pc # "plan" /\ \A v \in Workers \ {w} : workers'[v] = workers[v]
  BY <1>1 DEF Throw, Kill, Idle, midway, Midway
<1>3. UNCHANGED <<runs, acted>>
  BY DEF Throw, Kill, db, seen
<1>4. \A v \in Workers : midway(v)' => midway(v) /\ v # w
  BY <1>2 DEF midway
<1>5. ASSUME NEW v \in Workers PROVE Counts(v)'
  <2>1. CASE v = w
    BY <1>2, <2>1 DEF Counts, midway
  <2>2. CASE v # w
    <3>1. workers'[v] = workers[v]
      BY <1>2, <2>2
    <3> QED  BY <1>3, <3>1 DEF Sparing, Counts, midway, stepsOf, written, Placed, runOf
  <2> QED  BY <2>1, <2>2
<1>6. WithinRun'
  BY <1>3 DEF Sparing, WithinRun, Placed
<1>7. ASSUME NEW c PROVE over(c)' \subseteq over(c) \cup stepsOf(runOf(w))
  <2>1. ASSUME NEW a \in over(c)', of(a) # runOf(w) PROVE ~inHand(of(a))
    <3>1. \A v \in Workers : midway(v)' => runOf(v)' # of(a)
      BY DEF over, inHand
    <3>2. ASSUME NEW v \in Workers, midway(v), runOf(v) = of(a) PROVE FALSE
      <4>1. v # w
        BY <2>1, <3>2
      <4>2. workers'[v] = workers[v]
        BY <1>2, <4>1
      <4> QED  BY <3>1, <3>2, <4>2 DEF midway, runOf
    <3> QED  BY <3>2 DEF inHand
  <2>2. \A a \in over(c)' : a \in done(c)
    BY <1>3 DEF over, done, chainOf
  <2>3. \A a \in over(c)' : a \in acted
    BY <2>2 DEF done
  <2> QED  BY <2>1, <2>2, <2>3 DEF over, stepsOf
<1>8. /\ IsFiniteSet(stepsOf(runOf(w))) /\ Cardinality(stepsOf(runOf(w))) \in Nat
      /\ Cardinality(stepsOf(runOf(w))) <= PerRun
  BY OneRun
<1>9. Covered'
  <2>1. ASSUME NEW c
        PROVE  /\ IsFiniteSet(counted(c)') /\ IsFiniteSet(over(c)')
               /\ Cardinality(over(c)') <= Cardinality(counted(c)') + PerRun * faults'
    <3>1. counted(c)' = counted(c)
      BY <1>3 DEF counted, recorded, chainOf
    <3>2. /\ IsFiniteSet(counted(c)) /\ IsFiniteSet(over(c))
          /\ Cardinality(over(c)) <= Cardinality(counted(c)) + PerRun * faults
      BY DEF Sparing, Covered
    <3>3. Cardinality(counted(c)) \in Nat
      BY <3>2, FS_CardinalityType
    <3>4. /\ IsFiniteSet(over(c)') /\ {Cardinality(over(c)), Cardinality(over(c)')} \subseteq Nat
          /\ Cardinality(over(c)') <= Cardinality(over(c)) + Cardinality(stepsOf(runOf(w)))
      BY <1>7, <1>8, <3>2, CountBoth
    <3>5. PerRun * faults \in Nat /\ PerRun * faults' = PerRun * faults + PerRun
      BY FaultCounts
    <3> QED  BY <1>8, <3>1, <3>2, <3>3, <3>4, <3>5, Limits
  <2> QED  BY <2>1 DEF Covered
<1>10. Capped'
  <2>1. ASSUME NEW c
        PROVE  IsFiniteSet(done(c)' \cup coming(c)') /\ Cardinality(done(c)' \cup coming(c)') <= Cap(faults)'
    <3> DEFINE S == done(c) \cup coming(c)
               T == done(c)' \cup coming(c)'
    <3>1. IsFiniteSet(S) /\ Cardinality(S) <= Cap(faults)
      BY DEF Sparing, Capped
    <3>2. done(c)' = done(c)
      BY <1>3 DEF done, chainOf
    <3>3. coming(c)' \subseteq coming(c)
      <4>1. ASSUME NEW v \in Workers, midway(v)' PROVE workers'[v] = workers[v] /\ runOf(v)' = runOf(v) /\ midway(v)
        <5>1. workers'[v] = workers[v]
          BY <1>2, <1>4, <4>1
        <5> QED  BY <4>1, <5>1 DEF midway, runOf
      <4> QED  BY <1>3, <4>1 DEF coming, chainOf
    <3>4. T \subseteq S
      BY <3>2, <3>3
    <3>5. Cap(faults) <= Cap(faults') /\ Cap(faults) \in Nat /\ Cap(faults') \in Nat
      BY FaultCounts
    <3> HIDE DEF S, T
    <3>6. IsFiniteSet(T) /\ Cardinality(T) <= Cardinality(S) /\ {Cardinality(S), Cardinality(T)} \subseteq Nat
      BY <3>1, <3>4, CountPart
    <3>7. Cap(faults)' = Cap(faults')
      BY DEF Cap
    <3> QED  BY <3>1, <3>5, <3>6, <3>7 DEF T
  <2> QED  BY <2>1 DEF Capped
<1> QED  BY <1>5, <1>6, <1>9, <1>10 DEF Sparing

\* A step is done that was to come, in a run in hand.
LEMMA ActSpares ==
    ASSUME Typed, Typed', Whole, Sparing, NEW w \in Workers, Act(w)
    PROVE  Sparing'
<1>1. workers[w] \in Worker /\ workers[w].pc = "act" /\ workers \in [Workers -> Worker]
  BY DEF Act, Typed, TypeOK
<1>2. PICK i \in workers[w].todo, ok \in BOOLEAN, wrote \in BOOLEAN : ActWith(w, i, ok, wrote)
  BY DEF Act
<1>3. PICK x, a : x = runOf(w) /\ a = <<x[1], x[2], i>>
  OBVIOUS
<1>4. /\ acted' = acted \cup {a} /\ UNCHANGED <<runs, faults>>
  BY <1>2, <1>3 DEF ActWith, Act, runOf, bounds
<1>5. \A v \in Workers \ {w} : workers'[v] = workers[v]
  BY <1>1, <1>2 DEF ActWith
<1>6. /\ workers'[w].pc = "log" /\ workers'[w].todo = workers[w].todo \ {i}
      /\ workers'[w].rule = workers[w].rule /\ workers'[w].event = workers[w].event
      /\ workers'[w].did = workers[w].did
  <2> DEFINE completes == wrote /\ Kind[Steps[workers[w].ver][i]] = "complete"
             found == workers[w].found \/ completes
             line == [step |-> i, ok |-> ok,
                      events |-> raisedBy(workers[w], Steps[workers[w].ver][i], ok, completes)]
  <2>1. workers' = [workers EXCEPT ![w].pc = "log", ![w].todo = @ \ {i}, ![w].found = found, ![w].line = line]
    BY <1>2 DEF ActWith
  <2> HIDE DEF found, line
  <2> QED  BY <1>1, <2>1 DEF Worker
<1>7. runOf(w)' = x /\ of(a) = x /\ a[3] = i
  BY <1>3, <1>6 DEF runOf, of
<1>8. midway(w) /\ midway(w)'
  BY <1>1, <1>6 DEF midway, Midway
<1>9. \A v \in Workers : (midway(v)' <=> midway(v)) /\ runOf(v)' = runOf(v)
  <2>1. \A v \in Workers \ {w} : (midway(v)' <=> midway(v)) /\ runOf(v)' = runOf(v)
    BY <1>5 DEF midway, runOf
  <2> QED  BY <1>3, <1>7, <1>8, <2>1
<1>10. x \in DOMAIN runs /\ x \in Rules \X Keys /\ i \in Nat
  BY <1>1, <1>3, InHand DEF OnARule, PCs, Typed, TypeOK, Worker
<1>11. a \in Rules \X Keys \X Nat
  BY <1>3, <1>10
<1>12. Placed(x, i, PerRun)
  BY <1>3, <1>8 DEF Sparing, Counts
<1>13. \A v \in Workers \ {w} : workers[v].pc \in Making => runOf(v) # x
  BY <1>1, <1>3 DEF Whole, Apart, Making
<1>14. ASSUME NEW v \in Workers PROVE Counts(v)'
  <2>1. CASE v = w
    <3>1. runs[x].actions = 0 /\ IsFiniteSet(stepsOf(x)) /\ Cardinality(stepsOf(x)) <= workers[w].did
          /\ \A j \in workers[w].todo : Placed(x, j, PerRun)
      <4>1. written(w) = workers[w].did
        BY <1>1 DEF written, Worker
      <4> QED  BY <1>1, <1>3, <1>8, <4>1 DEF Sparing, Counts, Midway
    <3>2. stepsOf(x)' \subseteq stepsOf(x) \cup {a}
      BY <1>4 DEF stepsOf
    <3>3. PICK A : A = {a}
      OBVIOUS
    <3>4. IsFiniteSet(A) /\ Cardinality(A) = 1
      BY <3>3, FS_Singleton
    <3>5. /\ IsFiniteSet(stepsOf(x)') /\ {Cardinality(stepsOf(x)), Cardinality(stepsOf(x)')} \subseteq Nat
          /\ Cardinality(stepsOf(x)') <= Cardinality(stepsOf(x)) + Cardinality(A)
      BY <3>1, <3>2, <3>3, <3>4, CountBoth
    <3>6. written(w)' = workers[w].did + 1 /\ workers[w].did \in Nat
      BY <1>1, <1>6 DEF written, Worker
    <3>7. Cardinality(stepsOf(x)') <= written(w)'
      BY <3>1, <3>4, <3>5, <3>6
    <3>8. stepsOf(runOf(w))' = stepsOf(x)'
      BY <1>7 DEF stepsOf
    <3>9. \A j \in workers'[w].todo : Placed(x, j, PerRun)'
      BY <1>4, <1>6, <3>1 DEF Placed
    <3>10. runs'[runOf(w)'].actions = 0
      BY <1>4, <1>7, <3>1
    <3> QED  BY <1>7, <2>1, <3>5, <3>7, <3>8, <3>9, <3>10 DEF Counts
  <2>2. CASE v # w
    <3>1. workers'[v] = workers[v] /\ runOf(v)' = runOf(v)
      BY <1>5, <1>9, <2>2
    <3>2. midway(v) => stepsOf(runOf(v))' = stepsOf(runOf(v))
      <4>1. midway(v) => runOf(v) # x
        BY <1>13, <2>2 DEF midway, Midway, Making
      <4> QED  BY <1>4, <1>7, <3>1, <4>1 DEF stepsOf
    <3>3. Counts(v) /\ written(v)' = written(v) /\ (midway(v)' <=> midway(v))
      BY <1>9, <3>1 DEF Sparing, written
    <3>4. \A j : Placed(runOf(v), j, PerRun) => Placed(runOf(v), j, PerRun)'
      BY <1>4, <3>1 DEF Placed
    <3> QED  BY <1>4, <3>1, <3>2, <3>3, <3>4 DEF Counts
  <2> QED  BY <2>1, <2>2
<1>15. WithinRun'
  <2>1. \A b \in acted : Placed(of(b), b[3], PerRun)
    BY DEF Sparing, WithinRun
  <2>2. \A b \in acted' : Placed(of(b), b[3], PerRun)
    BY <1>4, <1>7, <1>12, <2>1
  <2> QED  BY <1>4, <2>2 DEF WithinRun, Placed
<1>16. ASSUME NEW c PROVE over(c)' \subseteq over(c) /\ counted(c)' = counted(c)
  <2>1. counted(c)' = counted(c)
    BY <1>4 DEF counted, recorded, chainOf
  <2>2. inHand(x) /\ \A y : inHand(y)' <=> inHand(y)
    BY <1>3, <1>8, <1>9 DEF inHand
  <2>3. \A b \in over(c)' : b # a
    BY <1>7, <2>2 DEF over
  <2> QED  BY <1>4, <2>1, <2>2, <2>3 DEF over, done, chainOf
<1>17. ASSUME NEW c PROVE done(c)' \cup coming(c)' \subseteq done(c) \cup coming(c)
  <2>1. coming(c)' \subseteq coming(c)
    <3>1. \A v \in Workers : workers'[v].todo \subseteq workers[v].todo
      BY <1>5, <1>6
    <3> QED  BY <1>4, <1>9, <3>1 DEF coming, chainOf
  <2>2. ASSUME NEW b \in done(c)' PROVE b \in done(c) \cup coming(c)
    <3>1. CASE b \in acted
      BY <1>4, <3>1 DEF done, chainOf
    <3>2. CASE b = a
      <4>1. chainOf(of(a)) = c
        BY <1>4, <3>2 DEF done, chainOf
      <4> QED  BY <1>3, <1>7, <1>8, <1>11, <3>2, <4>1 DEF coming
    <3>3. b \in acted'
      BY DEF done
    <3> QED  BY <1>4, <3>1, <3>2, <3>3
  <2> QED  BY <2>1, <2>2
<1>18. Covered'
  <2>1. ASSUME NEW c
        PROVE  /\ IsFiniteSet(counted(c)') /\ IsFiniteSet(over(c)')
               /\ Cardinality(over(c)') <= Cardinality(counted(c)') + PerRun * faults'
    <3>1. /\ IsFiniteSet(counted(c)) /\ IsFiniteSet(over(c))
          /\ Cardinality(over(c)) <= Cardinality(counted(c)) + PerRun * faults
      BY DEF Sparing, Covered
    <3>2. Cardinality(counted(c)) \in Nat /\ PerRun * faults \in Nat
      BY <3>1, FS_CardinalityType, Limits DEF Typed, TypeOK
    <3>3. /\ IsFiniteSet(over(c)') /\ Cardinality(over(c)') <= Cardinality(over(c))
          /\ Cardinality(over(c)') \in Nat /\ Cardinality(over(c)) \in Nat
      BY <1>16, <3>1, CountPart
    <3> QED  BY <1>4, <1>16, <3>1, <3>2, <3>3
  <2> QED  BY <2>1 DEF Covered
<1>19. Capped'
  <2>1. ASSUME NEW c
        PROVE  IsFiniteSet(done(c)' \cup coming(c)') /\ Cardinality(done(c)' \cup coming(c)') <= Cap(faults)'
    <3> DEFINE S == done(c) \cup coming(c)
               T == done(c)' \cup coming(c)'
    <3>1. IsFiniteSet(S) /\ Cardinality(S) <= Cap(faults)
      BY DEF Sparing, Capped
    <3>2. Cap(faults)' = Cap(faults) /\ Cap(faults) \in Nat
      BY <1>4, CapIs DEF Cap, Typed, TypeOK
    <3>3. T \subseteq S
      BY <1>17
    <3> HIDE DEF S, T
    <3>4. IsFiniteSet(T) /\ Cardinality(T) <= Cardinality(S) /\ {Cardinality(S), Cardinality(T)} \subseteq Nat
      BY <3>1, <3>3, CountPart
    <3> QED  BY <3>1, <3>2, <3>4 DEF T
  <2> QED  BY <2>1 DEF Capped
<1> QED  BY <1>14, <1>15, <1>18, <1>19 DEF Sparing

\* The count of a run no one else has in hand is recorded: what it has done is covered.
LEMMA CountSpares ==
    ASSUME Typed, Typed', Once, Whole, Sparing, RunsStand, NEW w \in Workers, Count(w)
    PROVE  Sparing'
<1>1. workers[w] \in Worker /\ workers[w].pc = "count" /\ workers \in [Workers -> Worker]
  BY DEF Count, Typed, TypeOK
<1>2. PICK x : x = runOf(w)
  OBVIOUS
<1>3. x \in DOMAIN runs /\ midway(w)
  BY <1>1, <1>2, InHand DEF OnARule, PCs, midway, Midway
<1>4. PICK n \in Nat : n = workers[w].did /\ runs' = [runs EXCEPT ![x].actions = n]
  BY <1>1, <1>2 DEF Count, Worker
<1>5. UNCHANGED <<acted, faults>>
  BY DEF Count, bounds, seen
<1>6. /\ DOMAIN runs' = DOMAIN runs /\ runs'[x].actions = n
      /\ \A y \in DOMAIN runs \ {x} : runs'[y] = runs[y]
  <2>1. runs[x] \in Run
    BY <1>3 DEF Typed, TypeOK
  <2> QED  BY <1>3, <1>4, <2>1 DEF Run
<1>7. \A v \in Workers \ {w} : workers'[v] = workers[v]
  BY <1>1 DEF Count
<1>8. ~midway(w)' /\ workers'[w].pc # "plan"
  <2> DEFINE to == IF workers[w].did = 0 /\ workers[w].cut THEN "refuse"
                   ELSE afterSteps(workers[w].ver, workers[w].event)
  <2>1. to \in {"refuse", "finish", "wait"}
    BY DEF afterSteps
  <2>2. workers' = [workers EXCEPT ![w].pc = to]
    BY DEF Count
  <2> HIDE DEF to
  <2>3. workers'[w].pc = to
    BY <1>1, <2>2 DEF Worker
  <2> QED  BY <2>1, <2>3 DEF midway, Midway
<1>9. \A v \in Workers : midway(v)' => v # w /\ midway(v) /\ runOf(v)' = runOf(v)
  BY <1>7, <1>8 DEF midway, runOf
<1>10. \A v \in Workers \ {w} : workers[v].pc \in Making => runOf(v) # x /\ runOf(v) \in DOMAIN runs
  BY <1>1, <1>2, InHand, MakingIsInHand DEF Whole, Apart, Making
<1>11. \A y \in DOMAIN runs : chainOf(y)' = chainOf(y)
  BY DEF RunsStand, chainOf
<1>12. \A y \in DOMAIN runs : \A i : Placed(y, i, PerRun) => Placed(y, i, PerRun)'
  BY DEF RunsStand, Placed
<1>13. ASSUME NEW v \in Workers PROVE Counts(v)'
  <2>1. CASE v = w
    BY <1>8, <2>1 DEF Counts, midway
  <2>2. CASE v # w
    <3>1. workers'[v] = workers[v] /\ runOf(v)' = runOf(v) /\ Counts(v)
      BY <1>7, <2>2 DEF runOf, Sparing
    <3>2. /\ (midway(v)' <=> midway(v)) /\ written(v)' = written(v)
          /\ stepsOf(runOf(v))' = stepsOf(runOf(v))
      BY <1>5, <3>1 DEF midway, written, stepsOf
    <3>3. workers[v].pc \in Midway \cup {"plan"} => runOf(v) # x /\ runOf(v) \in DOMAIN runs
      BY <1>10, <2>2 DEF Midway, Making
    <3>4. workers[v].pc \in Midway \cup {"plan"} => runs'[runOf(v)].actions = 0
      BY <1>6, <3>1, <3>3 DEF Counts
    <3>5. midway(v) => \A i \in workers[v].todo : Placed(runOf(v), i, PerRun)'
      <4>1. PICK y : y = runOf(v)
        OBVIOUS
      <4> QED  BY <1>12, <3>1, <3>3, <4>1 DEF Counts, midway
    <3> QED  BY <3>1, <3>2, <3>4, <3>5 DEF Counts
  <2> QED  BY <2>1, <2>2
<1>14. WithinRun'
  <2>1. \A a \in acted : of(a) \in DOMAIN runs
    BY DEF Once, of
  <2> QED  BY <1>5, <1>12, <2>1 DEF Sparing, WithinRun, of
<1>15. /\ runs[x].actions = 0 /\ IsFiniteSet(stepsOf(x)) /\ Cardinality(stepsOf(x)) \in Nat
       /\ Cardinality(stepsOf(x)) <= n
  <2>1. written(w) = n
    BY <1>1, <1>4 DEF written, Worker
  <2> QED  BY <1>1, <1>2, <1>3, <2>1, FS_CardinalityType DEF Sparing, Counts, Midway
<1>16. ASSUME NEW c PROVE done(c)' = done(c) /\ coming(c)' \subseteq coming(c)
  <2>1. done(c)' = done(c)
    BY <1>5, ChainsStand
  <2>2. ASSUME NEW a \in coming(c)' PROVE a \in coming(c)
    <3>1. PICK v \in Workers : midway(v)' /\ of(a) = runOf(v)' /\ a[3] \in workers'[v].todo
                               /\ runs'[of(a)].event.chain = c
      BY DEF coming, chainOf
    <3>2. v # w /\ midway(v) /\ of(a) = runOf(v) /\ a[3] \in workers[v].todo
      BY <1>7, <1>9, <3>1
    <3>3. runs[of(a)].event.chain = c
      <4>1. of(a) \in DOMAIN runs
        BY <1>10, <3>2 DEF midway, Midway, Making
      <4> QED  BY <3>1, <4>1 DEF RunsStand
    <3>4. a \in Rules \X Keys \X Nat
      BY DEF coming
    <3> QED  BY <3>2, <3>3, <3>4 DEF coming, chainOf
  <2> QED  BY <2>1, <2>2
<1>17. ASSUME NEW c PROVE over(c)' \subseteq over(c) \cup {a \in stepsOf(x) : chainOf(x) = c}
  <2>1. ASSUME NEW a \in over(c)', of(a) # x PROVE ~inHand(of(a))
    <3>1. \A v \in Workers : midway(v)' => runOf(v)' # of(a)
      BY DEF over, inHand
    <3>2. ASSUME NEW v \in Workers, midway(v), runOf(v) = of(a) PROVE FALSE
      <4>1. v # w
        BY <1>2, <2>1, <3>2
      <4>2. workers'[v] = workers[v]
        BY <1>7, <4>1
      <4> QED  BY <3>1, <3>2, <4>2 DEF midway, runOf
    <3> QED  BY <3>2 DEF inHand
  <2>2. \A a \in over(c)' : a \in done(c)
    BY <1>16 DEF over
  <2> QED  BY <2>1, <2>2 DEF over, stepsOf, done
<1>18. Covered'
  <2>1. ASSUME NEW c
        PROVE  /\ IsFiniteSet(counted(c)') /\ IsFiniteSet(over(c)')
               /\ Cardinality(over(c)') <= Cardinality(counted(c)') + PerRun * faults'
    <3>1. /\ IsFiniteSet(counted(c)) /\ IsFiniteSet(over(c))
          /\ Cardinality(over(c)) <= Cardinality(counted(c)) + PerRun * faults
      BY DEF Sparing, Covered
    <3>2. Cardinality(counted(c)) \in Nat /\ PerRun * faults \in Nat
      BY <3>1, FS_CardinalityType, Limits DEF Typed, TypeOK
    <3>3. CASE chainOf(x) # c
      <4>1. over(c)' \subseteq over(c)
        BY <1>17, <3>3
      <4>2. counted(c)' = counted(c)
        <5>1. ASSUME NEW y \in DOMAIN runs, chainOf(y) = c PROVE runs'[y].actions = runs[y].actions
          BY <1>6, <3>3, <5>1
        <5>2. ASSUME NEW p PROVE p \in counted(c)' <=> p \in counted(c)
          <6>1. p \in counted(c)' <=>
                  \E y \in DOMAIN runs' : chainOf(y)' = c /\ p \in {y} \X (1..runs'[y].actions)
            BY DEF counted, recorded
          <6> QED  BY <1>6, <1>11, <5>1, <6>1, RecordedIs
        <5> QED  BY <5>2
      <4>3. /\ IsFiniteSet(over(c)') /\ Cardinality(over(c)') <= Cardinality(over(c))
            /\ Cardinality(over(c)') \in Nat /\ Cardinality(over(c)) \in Nat
        BY <3>1, <4>1, CountPart
      <4> QED  BY <1>5, <3>1, <3>2, <4>2, <4>3
    <3>4. CASE chainOf(x) = c
      <4> DEFINE now == {x} \X (1..n)
      <4>1. over(c)' \subseteq over(c) \cup stepsOf(x)
        BY <1>17
      <4>2. counted(c)' = counted(c) \cup now
        <5>1. {x} \X (1..runs[x].actions) = {} /\ {x} \X (1..runs'[x].actions) = now
          BY <1>6, <1>15
        <5>2. ASSUME NEW p PROVE p \in counted(c)' <=> p \in counted(c) \/ p \in now
          <6>1. p \in counted(c)' <=>
                  \E y \in DOMAIN runs' : chainOf(y)' = c /\ p \in {y} \X (1..runs'[y].actions)
            BY DEF counted, recorded
          <6> HIDE DEF now
          <6> QED  BY <1>3, <1>6, <1>11, <3>4, <5>1, <6>1, RecordedIs
        <5> QED  BY <5>2
      <4>3. counted(c) \cap now = {}
        <5>1. ASSUME NEW p \in counted(c), p \in now PROVE FALSE
          <6>1. PICK y \in DOMAIN runs : p \in {y} \X (1..runs[y].actions)
            BY RecordedIs
          <6>2. y = x
            BY <5>1, <6>1
          <6> QED  BY <1>15, <6>1, <6>2
        <5> QED  BY <5>1
      <4>4. IsFiniteSet(now) /\ Cardinality(now) = n
        <5>1. PICK X : X = {x}
          OBVIOUS
        <5>2. IsFiniteSet(X) /\ Cardinality(X) = 1
          BY <5>1, FS_Singleton
        <5>3. IsFiniteSet(1..n) /\ Cardinality(1..n) = n
          BY FS_Interval
        <5>4. IsFiniteSet(X \X (1..n)) /\ Cardinality(X \X (1..n)) = Cardinality(X) * Cardinality(1..n)
          BY <5>2, <5>3, FS_Product
        <5> QED  BY <5>1, <5>2, <5>3, <5>4
      <4> HIDE DEF now
      <4>5. /\ IsFiniteSet(counted(c)')
            /\ Cardinality(counted(c)') = Cardinality(counted(c)) + n
        <5>1. /\ IsFiniteSet(counted(c) \cup now)
              /\ Cardinality(counted(c) \cup now)
                   = Cardinality(counted(c)) + Cardinality(now) - Cardinality(counted(c) \cap now)
          BY <3>1, <4>4, FS_Union
        <5>2. Cardinality(counted(c) \cap now) = 0
          BY <4>3, FS_EmptySet
        <5> QED  BY <3>2, <4>2, <4>4, <5>1, <5>2
      <4>6. /\ IsFiniteSet(over(c)') /\ {Cardinality(over(c)), Cardinality(over(c)')} \subseteq Nat
            /\ Cardinality(over(c)') <= Cardinality(over(c)) + Cardinality(stepsOf(x))
        BY <1>15, <3>1, <4>1, CountBoth
      <4> QED  BY <1>5, <1>15, <3>1, <3>2, <4>5, <4>6
    <3> QED  BY <3>3, <3>4
  <2> QED  BY <2>1 DEF Covered
<1>19. Capped'
  <2>1. ASSUME NEW c
        PROVE  IsFiniteSet(done(c)' \cup coming(c)') /\ Cardinality(done(c)' \cup coming(c)') <= Cap(faults)'
    <3> DEFINE S == done(c) \cup coming(c)
               T == done(c)' \cup coming(c)'
    <3>1. IsFiniteSet(S) /\ Cardinality(S) <= Cap(faults)
      BY DEF Sparing, Capped
    <3>2. Cap(faults)' = Cap(faults) /\ Cap(faults) \in Nat
      BY <1>5, CapIs DEF Cap, Typed, TypeOK
    <3>3. T \subseteq S
      BY <1>16
    <3> HIDE DEF S, T
    <3>4. IsFiniteSet(T) /\ Cardinality(T) <= Cardinality(S) /\ {Cardinality(S), Cardinality(T)} \subseteq Nat
      BY <3>1, <3>3, CountPart
    <3> QED  BY <3>1, <3>2, <3>4 DEF T
  <2> QED  BY <2>1 DEF Capped
<1> QED  BY <1>13, <1>14, <1>18, <1>19 DEF Sparing

\* A run with nothing on record is allowed what the chain has left, and no more than
\* a run's worth.
LEMMA AllowanceIs ==
    ASSUME Sparing, NEW x \in DOMAIN runs, runs[x].actions = 0
    PROVE  /\ allowance(x) \in Nat /\ allowance(x) <= PerRun /\ Cardinality(counted(chainOf(x))) \in Nat
           /\ allowance(x) = 0 \/ Cardinality(counted(chainOf(x))) + allowance(x) <= PerChain
<1> DEFINE others == {y \in DOMAIN runs : runs[y].event.chain = runs[x].event.chain /\ y # x}
<1>1. recorded(others) = counted(chainOf(x))
  <2>1. ASSUME NEW p PROVE p \in recorded(others) <=> p \in counted(chainOf(x))
    <3>1. p \in recorded(others) <=>
            \E y \in DOMAIN runs : chainOf(y) = chainOf(x) /\ y # x /\ p \in {y} \X (1..runs[y].actions)
      BY DEF recorded, chainOf
    <3>2. p \notin {x} \X (1..runs[x].actions)
      OBVIOUS
    <3> QED  BY <3>1, <3>2, RecordedIs
  <2> QED  BY <2>1
<1>2. PICK s \in Nat : s = Cardinality(counted(chainOf(x)))
  BY FS_CardinalityType DEF Sparing, Covered
<1>3. spent(x) = s
  BY <1>1, <1>2 DEF spent
<1> QED  BY <1>2, <1>3, Limits DEF allowance

\* What a worker has in hand once its plan is made.
LEMMA PlanMoves ==
    ASSUME Typed, Whole, Sparing, NEW w \in Workers, Plan(w)
    PROVE  LET x == runOf(w) IN
           /\ x \in DOMAIN runs /\ runs[x].ver \in Versions /\ runs[x].actions = 0
           /\ workers[w].pc = "plan" /\ workers'[w].pc # "plan" /\ workers'[w].pc # "log"
           /\ runOf(w)' = x /\ workers'[w].did = 0
           /\ workers'[w].todo \in SUBSET Nat
           /\ \A i \in workers'[w].todo : Placed(x, i, allowance(x))
           /\ \A v \in Workers \ {w} : workers'[v] = workers[v]
<1> DEFINE me == workers[w]
           seg == segment(me.ver, me.event)
           do == {i \in seg : Cardinality({j \in seg : j < i}) < allowance(runOf(w))}
           to == IF seg = {} THEN afterSteps(me.ver, me.event)
                 ELSE IF do = {} THEN "count" ELSE "act"
           cut == do # seg
<1>1. me \in Worker /\ me.pc = "plan" /\ workers \in [Workers -> Worker]
  BY DEF Plan, Typed, TypeOK
<1>2. workers' = [workers EXCEPT ![w].todo = do, ![w].cut = cut, ![w].did = 0,
                                 ![w].bad = 0, ![w].pc = to]
  BY DEF Plan
<1>3. to \in {"finish", "wait", "count", "act"}
  BY DEF afterSteps
<1>4. me.ver \in Versions /\ runOf(w) \in DOMAIN runs
  BY <1>1, InHand DEF OnARule, PCs
<1>5. runs[runOf(w)].ver = me.ver /\ runs[runOf(w)].event = me.event
  BY <1>1 DEF Whole, Tells, Making
<1>6. do \in SUBSET Nat /\ \A i \in do : Placed(runOf(w), i, allowance(runOf(w)))
  <2>1. seg \subseteq Nat
    BY <1>4, StepsAreNumbers
  <2> QED  BY <1>5, <2>1 DEF Placed, place
<1> HIDE DEF do, to, cut
<1>7. /\ workers'[w].pc = to /\ workers'[w].todo = do /\ workers'[w].did = 0
      /\ workers'[w].rule = me.rule /\ workers'[w].event = me.event
  BY <1>1, <1>2 DEF Worker
<1>8. \A v \in Workers \ {w} : workers'[v] = workers[v]
  BY <1>1, <1>2
<1>9. runOf(w)' = runOf(w)
  BY <1>7 DEF runOf
<1>10. runs[runOf(w)].actions = 0
  BY <1>1 DEF Sparing, Counts
<1> QED  BY <1>1, <1>3, <1>4, <1>5, <1>6, <1>7, <1>8, <1>9, <1>10

\* A worker reads its allowance: with the steps it allows itself the chain is at its
\* cap, but for a run to every other worker and every fault.
LEMMA PlanSpares ==
    ASSUME Typed, Typed', Once, Whole, Sparing, NEW w \in Workers, Plan(w)
    PROVE  Sparing'
<1>1. PICK x : x = runOf(w)
  OBVIOUS
<1>2. /\ x \in DOMAIN runs /\ runs[x].ver \in Versions /\ runs[x].actions = 0
      /\ workers[w].pc = "plan" /\ workers'[w].pc # "plan" /\ workers'[w].pc # "log"
      /\ runOf(w)' = x /\ workers'[w].did = 0 /\ workers'[w].todo \in SUBSET Nat
      /\ \A i \in workers'[w].todo : Placed(x, i, allowance(x))
      /\ \A v \in Workers \ {w} : workers'[v] = workers[v]
  BY <1>1, PlanMoves
<1>3. UNCHANGED <<runs, acted, faults>>
  BY DEF Plan, db, bounds, seen
<1>4. x \in Rules \X Keys
  BY <1>2 DEF Typed, TypeOK
<1>5. PICK n \in Nat : n = allowance(x)
  BY <1>2, AllowanceIs
<1>6. n <= PerRun
  BY <1>2, <1>5, AllowanceIs
<1>7. \A i : Placed(x, i, n) => Placed(x, i, PerRun)
  <2>1. ASSUME NEW i, Placed(x, i, n) PROVE place(runs[x].ver, runs[x].event, i) \in Nat
    <3> DEFINE before == {j \in segment(runs[x].ver, runs[x].event) : j < i}
    <3>1. before \in SUBSET Nat /\ i \in Nat /\ \A j \in before : j <= i
      BY <1>2, <2>1, StepsAreNumbers DEF Placed
    <3>2. IsFiniteSet(before)
      BY <3>1, FS_BoundedSetOfNaturals
    <3> QED  BY <3>2, FS_CardinalityType DEF place
  <2> QED  BY <1>6, <2>1, Limits DEF Placed
<1>8. stepsOf(x) = {}
  <2>1. ASSUME NEW a \in acted, of(a) = x PROVE FALSE
    <3>1. a[3] \in Nat /\ a = <<a[1], a[2], a[3]>>
      BY DEF Typed, TypeOK
    <3>2. <<workers[w].rule, runKey(workers[w].event), a[3]>> \notin acted
      BY <1>2, <3>1 DEF Once, Performing, ahead
    <3> QED  BY <1>1, <2>1, <3>1, <3>2 DEF of, runOf
  <2> QED  BY <2>1 DEF stepsOf
<1>9. \A v \in Workers \ {w} : (midway(v)' <=> midway(v)) /\ runOf(v)' = runOf(v) /\ written(v)' = written(v)
  BY <1>2 DEF midway, runOf, written
<1>10. \A y, i : Placed(y, i, PerRun)' <=> Placed(y, i, PerRun)
  BY <1>3 DEF Placed
<1>11. ASSUME NEW v \in Workers PROVE Counts(v)'
  <2>1. CASE v = w
    <3>1. stepsOf(runOf(w))' = {}
      BY <1>2, <1>3, <1>8 DEF stepsOf
    <3>2. IsFiniteSet(stepsOf(runOf(w))') /\ Cardinality(stepsOf(runOf(w))') = 0
      BY <3>1, FS_EmptySet
    <3>3. written(w)' = 0
      BY <1>2 DEF written
    <3>4. \A i \in workers'[w].todo : Placed(x, i, PerRun)'
      BY <1>2, <1>5, <1>7, <1>10
    <3>5. runs'[runOf(w)'].actions = 0
      BY <1>2, <1>3
    <3> QED  BY <1>2, <2>1, <3>2, <3>3, <3>4, <3>5 DEF Counts
  <2>2. CASE v # w
    <3>1. Counts(v) /\ workers'[v] = workers[v] /\ stepsOf(runOf(v))' = stepsOf(runOf(v))
      BY <1>2, <1>3, <1>9, <2>2 DEF Sparing, stepsOf
    <3> QED  BY <1>3, <1>9, <1>10, <2>2, <3>1 DEF Counts
  <2> QED  BY <2>1, <2>2
<1>12. WithinRun'
  BY <1>3, <1>10 DEF Sparing, WithinRun
<1>13. ~midway(w)
  BY <1>2 DEF midway, Midway
<1>14. ASSUME NEW c PROVE done(c)' = done(c) /\ counted(c)' = counted(c) /\ over(c)' \subseteq over(c)
  <2>1. \A y : inHand(y) => inHand(y)'
    BY <1>9, <1>13 DEF inHand
  <2>2. \A y : chainOf(y)' = chainOf(y)
    BY <1>3 DEF chainOf
  <2>3. done(c)' = done(c)
    BY <1>3, <2>2 DEF done
  <2>4. counted(c)' = counted(c)
    <3>1. {y \in DOMAIN runs' : chainOf(y)' = c} = {y \in DOMAIN runs : chainOf(y) = c}
      BY <1>3, <2>2
    <3> QED  BY <1>3, <3>1 DEF counted, recorded
  <2> QED  BY <2>1, <2>3, <2>4 DEF over
<1>15. Covered'
  <2>1. ASSUME NEW c
        PROVE  /\ IsFiniteSet(counted(c)') /\ IsFiniteSet(over(c)')
               /\ Cardinality(over(c)') <= Cardinality(counted(c)') + PerRun * faults'
    <3>1. /\ IsFiniteSet(counted(c)) /\ IsFiniteSet(over(c))
          /\ Cardinality(over(c)) <= Cardinality(counted(c)) + PerRun * faults
      BY DEF Sparing, Covered
    <3>2. Cardinality(counted(c)) \in Nat /\ PerRun * faults \in Nat
      BY <3>1, FS_CardinalityType, Limits DEF Typed, TypeOK
    <3>3. /\ IsFiniteSet(over(c)') /\ Cardinality(over(c)') <= Cardinality(over(c))
          /\ Cardinality(over(c)') \in Nat /\ Cardinality(over(c)) \in Nat
      BY <1>14, <3>1, CountPart
    <3> QED  BY <1>3, <1>14, <3>1, <3>2, <3>3
  <2> QED  BY <2>1 DEF Covered
<1> DEFINE new == {a \in Rules \X Keys \X Nat : of(a) = x /\ a[3] \in workers'[w].todo}
<1>16. IsFiniteSet(new) /\ Cardinality(new) \in Nat /\ Cardinality(new) <= n
  <2>1. PICK M : M = {w}
    OBVIOUS
  <2>2. IsFiniteSet(M) /\ Cardinality(M) = 1
    BY <2>1, FS_Singleton
  <2>3. new \in SUBSET (Rules \X Keys \X Nat)
    OBVIOUS
  <2>4. \A a \in new : (\E v \in M : of(a) = runOf(v)) /\ Placed(of(a), a[3], n)
    BY <1>1, <1>2, <1>5, <2>1
  <2>5. \A v \in M : runs[runOf(v)].ver \in Versions
    BY <1>1, <1>2, <2>1
  <2> HIDE DEF new
  <2>6. IsFiniteSet(new) /\ Cardinality(new) <= n * Cardinality(M)
    BY <2>2, <2>3, <2>4, <2>5, Slots
  <2> QED  BY <2>2, <2>6, FS_CardinalityType
<1>17. ASSUME NEW c PROVE coming(c)' \subseteq coming(c) \cup {a \in new : chainOf(x) = c}
  <2>1. ASSUME NEW a \in coming(c)' PROVE a \in coming(c) \/ (a \in new /\ chainOf(x) = c)
    <3>1. PICK v \in Workers : midway(v)' /\ of(a) = runOf(v)' /\ a[3] \in workers'[v].todo
                               /\ runs[of(a)].event.chain = c
      BY <1>3 DEF coming, chainOf
    <3>2. a \in Rules \X Keys \X Nat
      BY DEF coming
    <3>3. CASE v = w
      BY <1>2, <3>1, <3>2, <3>3 DEF chainOf
    <3>4. CASE v # w
      BY <1>2, <1>9, <3>1, <3>2, <3>4 DEF coming, chainOf
    <3> QED  BY <3>3, <3>4
  <2> QED  BY <2>1
<1> HIDE DEF new
<1>18. Capped'
  <2>1. ASSUME NEW c
        PROVE  IsFiniteSet(done(c)' \cup coming(c)') /\ Cardinality(done(c)' \cup coming(c)') <= Cap(faults)'
    <3> DEFINE S == done(c) \cup coming(c)
               T == done(c)' \cup coming(c)'
    <3>1. IsFiniteSet(S) /\ Cardinality(S) <= Cap(faults)
      BY DEF Sparing, Capped
    <3>2. Cap(faults)' = Cap(faults) /\ Cap(faults) \in Nat
      BY <1>3, CapIs DEF Cap, Typed, TypeOK
    <3>3. CASE chainOf(x) # c \/ n = 0
      <4>1. n = 0 => new = {}
        BY <1>16, FS_EmptySet
      <4>2. T \subseteq S
        BY <1>14, <1>17, <3>3, <4>1
      <4> HIDE DEF S, T
      <4>3. IsFiniteSet(T) /\ Cardinality(T) <= Cardinality(S) /\ {Cardinality(S), Cardinality(T)} \subseteq Nat
        BY <3>1, <4>2, CountPart
      <4> QED  BY <3>1, <3>2, <4>3 DEF T
    <3>4. CASE chainOf(x) = c /\ n # 0
      <4>1. T \subseteq S \cup new
        BY <1>14, <1>17
      <4>2. Cardinality(counted(c)) \in Nat /\ Cardinality(counted(c)) + n <= PerChain
        BY <1>2, <1>5, <3>4, AllowanceIs
      <4>3. PICK M : M = Workers \ {w}
        OBVIOUS
      <4>4. IsFiniteSet(M) /\ Cardinality(M) = Cardinality(Workers) - 1
        BY <4>3, Limits, FS_RemoveElement
      <4>5. \A v \in Workers : midway(v) => v \in M
        BY <1>13, <4>3
      <4>6. /\ Cardinality(S) <= Cardinality(over(c)) + PerRun * Cardinality(M)
            /\ {Cardinality(over(c)), PerRun * Cardinality(M)} \subseteq Nat
        BY <4>4, <4>5, SoFar
      <4>7. Cardinality(over(c)) <= Cardinality(counted(c)) + PerRun * faults
        BY DEF Sparing, Covered
      <4> HIDE DEF S, T
      <4>8. /\ IsFiniteSet(T) /\ {Cardinality(S), Cardinality(T)} \subseteq Nat
            /\ Cardinality(T) <= Cardinality(S) + Cardinality(new)
        BY <1>16, <3>1, <4>1, CountBoth
      <4>9. /\ Cap(faults) = PerChain + PerRun * Cardinality(M) + PerRun * faults
            /\ PerRun * faults \in Nat
        <5>1. faults \in Nat
          BY DEF Typed, TypeOK
        <5>2. PICK f \in Nat : f = faults
          BY <5>1
        <5>3. Cap(f) = PerChain + PerRun * Cardinality(M) + PerRun * f /\ PerRun * f \in Nat
          BY <4>4, CapIs
        <5> QED  BY <5>2, <5>3
      <4>10. Cardinality(T) <= Cap(faults)
        BY <1>16, <4>2, <4>6, <4>7, <4>8, <4>9, Limits
      <4> QED  BY <3>2, <4>8, <4>10 DEF T
    <3> QED  BY <3>3, <3>4
  <2> QED  BY <2>1 DEF Capped
<1> QED  BY <1>11, <1>12, <1>15, <1>18 DEF Sparing

\* A fault is never taken back.
LEMMA FaultsGrow == ASSUME Typed, [Next]_vars PROVE faults <= faults'
<1>1. faults \in Nat
  BY DEF Typed, TypeOK
<1>2. ASSUME NEW w \in Workers, Step(w) PROVE faults' = faults
  BY <1>2 DEF Step, Begin, CloseStopped, Collect, Skip, Plan, Act, Log, Count, Refuse, ScheduleDelays,
              Finish, RulesThrough, PublishNext, Settle, bounds
<1>3. CASE Take \/ Clock \/ People \/ UNCHANGED vars
  <2>1. faults' = faults
    BY <1>3 DEF Take, Load, StopAtDepth, Clock, ClaimWait, ResumeWait, People, Complete, Change, Publish,
                Pause, vars, bounds
  <2> QED  BY <1>1, <2>1
<1>4. CASE Misfortune
  <2>1. faults' = faults + 1
    BY <1>4 DEF Misfortune, Fault, Throw, Kill, Stall, LoseAdd, Expire, TickDies
  <2> QED  BY <1>1, <2>1
<1> QED  BY <1>1, <1>2, <1>3, <1>4 DEF Next

\* Every step keeps Sparing.
LEMMA SparingStep == Typed /\ Typed' /\ Once /\ Whole /\ Sparing /\ [Next]_vars => Sparing'
<1> SUFFICES ASSUME Typed, Typed', Once, Whole, Sparing, [Next]_vars PROVE Sparing'
  OBVIOUS
<1>1. RunsStand
  BY RunsStep
<1>2. CASE \E w \in Workers : Count(w)
  BY <1>1, <1>2, CountSpares
<1>3. CASE \A w \in Workers : ~Count(w)
  <2>1. Unrecorded
    BY <1>3, UnrecordedBut
  <2>2. ASSUME \A v \in Workers : Proceeds(v), UNCHANGED acted PROVE Sparing'
    <3>1. faults <= faults'
      BY FaultsGrow
    <3> QED  BY <1>1, <2>1, <2>2, <3>1, SparingKept
  <2>3. ASSUME NEW w \in Workers, Step(w) PROVE Sparing'
    <3>1. CASE Begin(w)
      BY <1>1, <2>1, <2>2, <3>1, BeginProceeds
    <3>2. CASE Plan(w)
      BY <3>2, PlanSpares
    <3>3. CASE Act(w)
      BY <3>3, ActSpares
    <3>4. CASE Log(w)
      BY <1>1, <2>1, <2>2, <3>4, LogProceeds
    <3>5. CASE CloseStopped(w) \/ Collect(w) \/ Skip(w) \/ Refuse(w) \/ ScheduleDelays(w) \/ Finish(w)
               \/ RulesThrough(w) \/ PublishNext(w) \/ Settle(w)
      BY <1>1, <2>1, <2>2, <3>5, ApartFromRuns
    <3> QED  BY <1>3, <2>3, <3>1, <3>2, <3>3, <3>4, <3>5 DEF Step
  <2>4. CASE Take \/ Clock \/ People \/ (\E k : Expire(k)) \/ (\E d \in waits : TickDies(d)) \/ UNCHANGED vars
    BY <1>1, <2>1, <2>2, <2>4, ElsewhereProceeds
  <2>5. ASSUME NEW w \in Workers, Throw(w) \/ Kill(w) PROVE Sparing'
    <3>1. CASE midway(w)
      BY <2>5, <3>1, InterruptedSpares
    <3>2. CASE ~midway(w)
      BY <1>1, <2>1, <2>2, <2>5, <3>2, ApartFromRuns
    <3> QED  BY <3>1, <3>2
  <2>6. ASSUME NEW w \in Workers, LoseAdd(w) PROVE Sparing'
    BY <1>1, <2>1, <2>2, <2>6, ApartFromRuns
  <2>7. ASSUME NEW w \in Workers, Stall(w) PROVE Sparing'
    BY <1>1, <2>1, <2>2, <2>7, LogProceeds
  <2>8. CASE Misfortune
    BY <2>4, <2>5, <2>6, <2>7, <2>8 DEF Misfortune
  <2> QED  BY <2>3, <2>4, <2>8 DEF Next
<1> QED  BY <1>2, <1>3

\* Nothing is done at first.
LEMMA SparingInit == Init => Sparing
<1> SUFFICES ASSUME Init PROVE Sparing
  OBVIOUS
<1>1. \A w \in Workers : workers[w].pc = "idle"
  BY DEF Init, Idle
<1>2. \A w \in Workers : Counts(w)
  BY <1>1 DEF Counts, midway, Midway
<1>3. WithinRun
  BY DEF Init, WithinRun
<1>4. \A c : done(c) = {} /\ over(c) = {} /\ coming(c) = {} /\ counted(c) = {}
  <2>1. DOMAIN runs = {}
    BY DEF Init
  <2> QED  BY <1>1, <2>1 DEF Init, done, over, coming, counted, recorded, midway, Midway
<1>5. faults = 0 /\ Cap(0) \in Nat /\ PerRun * 0 = 0
  BY CapIs, Limits DEF Init
<1>6. Covered
  <2>1. ASSUME NEW c PROVE IsFiniteSet(over(c)) /\ IsFiniteSet(counted(c))
                           /\ Cardinality(over(c)) = 0 /\ Cardinality(counted(c)) = 0
    BY <1>4, FS_EmptySet
  <2>2. PerRun * faults = 0
    BY <1>5
  <2> QED  BY <2>1, <2>2 DEF Covered
<1>7. Capped
  BY <1>4, <1>5, FS_EmptySet DEF Capped
<1> QED  BY <1>2, <1>3, <1>6, <1>7 DEF Sparing

\* One change sets no more steps off than the chain's cap, however the rules set each
\* other off, but for a run to each other worker (which read what was spent before this
\* one recorded its count) and a run to each fault (whose count nobody recorded).
THEOREM ChainsEnd == Spec => []ChainWithinCap
<1>1. Init => Filed /\ Whole /\ Once
  BY DEF Init, Filed, Whole, Apart, Making, Idle, Once, Performing
<1>2. Typed /\ Sparing => ChainWithinCap
  <2> SUFFICES ASSUME Typed, Sparing, NEW x \in DOMAIN runs
               PROVE  performedInChain(runs[x].event.chain)
                        <= PerChain + PerRun * (Cardinality(Workers) - 1 + faults)
    BY DEF ChainWithinCap
  <2>1. PICK c : c = runs[x].event.chain
    OBVIOUS
  <2>2. IsFiniteSet(done(c) \cup coming(c)) /\ Cardinality(done(c) \cup coming(c)) <= Cap(faults)
    BY DEF Sparing, Capped
  <2>3. PICK S : S = done(c) \cup coming(c)
    OBVIOUS
  <2>4. /\ Cardinality(done(c)) <= Cardinality(S) /\ {Cardinality(done(c)), Cardinality(S)} \subseteq Nat
    BY <2>2, <2>3, CountPart
  <2>5. performedInChain(c) = Cardinality(done(c))
    BY DEF performedInChain, done, of, chainOf
  <2>6. Cap(faults) \in Nat
    BY CapIs DEF Typed, TypeOK
  <2> QED  BY <2>1, <2>2, <2>3, <2>4, <2>5, <2>6 DEF Cap
<1> QED  BY TypedInit, TypedStep, FiledStep, WholeStep, OnceStep, SparingInit, SparingStep, <1>1, <1>2, PTL DEF Spec

=============================================================================
