----------------------- MODULE WebhookDeliveryProofs -----------------------
(* Webhook delivery for every number of workers, endpoints, retries,       *)
(* redeliveries and interruptions: an endpoint that has failed too often   *)
(* is off; the state keeps its types; a delivery that is pending has a job *)
(* as long as nothing was interrupted; no attempt is written over in the   *)
(* history of a row that two did not come to be at; and a receiver accepts *)
(* a delivery no more often than it was due.                               *)
(*                                                                         *)
(* The argument climbs from Typed, what a worker holds at each of its      *)
(* steps; over Numbered, that a job's number is not above its row's; to    *)
(* Calm, who has a job in hand while nothing was interrupted and that      *)
(* whatever is to be settled is queued, held or asked for.  Beside it,     *)
(* under every interruption, Uncrossed: a job in hand has one owner, at    *)
(* the job's attempt, and a row that nobody crossed has one at a time that *)
(* is to settle it, with the history as it stands.                         *)
(*                                                                         *)
(* Bounded counts the acceptances still to come, whatever is interrupted:  *)
(* Ways, all that may bring a row one more, is paid for by raises, pushes  *)
(* and interruptions; Chances, with no push, by interruptions alone.       *)
EXTENDS WebhookDelivery, FiniteSetTheorems, TLAPS

End == [enabled : BOOLEAN, failures : Nat]

\* What the endpoints' rows hold; the rest of the state does not matter here.
EndsOK == ends \in [Endpoints -> End]

Health == EndsOK /\ HealthyWhileEnabled

InOrder(end) == end \in End /\ (end.enabled => end.failures < AutoDisableAfter)

\* A final failure is counted before the limit is looked at.
LEMMA FailingInOrder ==
    ASSUME NEW end \in End, InOrder(end)
    PROVE  InOrder(failing(end))
<1> DEFINE n == end.failures + 1
<1>0. n \in Nat
  BY DEF End
<1>1. AutoDisableAfter \in Nat \ {0}
  BY WebhookAssumption
<1>2. CASE end.enabled /\ n < AutoDisableAfter
  <2>1. failing(end) = [failures |-> n, enabled |-> TRUE]
    BY <1>2, Zenon DEF failing
  <2> QED  BY <1>0, <1>1, <1>2, <2>1 DEF InOrder, End
<1>3. CASE ~(end.enabled /\ n < AutoDisableAfter)
  <2>1. failing(end) = [failures |-> n, enabled |-> FALSE]
    BY <1>3, Zenon DEF failing
  <2> QED  BY <1>0, <1>1, <1>3, <2>1 DEF InOrder, End
<1> QED  BY <1>2, <1>3

\* Whatever an attempt ended in, the endpoint's row stays in order.
LEMMA HealthAfterInOrder ==
    ASSUME NEW end \in End, InOrder(end), NEW outcome, NEW attempt
    PROVE  InOrder(healthAfter(end, outcome, attempt))
<1>1. AutoDisableAfter \in Nat \ {0}
  BY WebhookAssumption
<1>2. InOrder([end EXCEPT !.failures = 0])
  BY <1>1 DEF InOrder, End
<1> QED  BY <1>2, FailingInOrder DEF healthAfter

\* Endpoints begin enabled, with no failures.
LEMMA HealthInit == Init => Health
<1> SUFFICES ASSUME Init PROVE Health
  OBVIOUS
<1>1. AutoDisableAfter \in Nat \ {0}
  BY WebhookAssumption
<1> QED  BY <1>1 DEF Init, Health, EndsOK, End, HealthyWhileEnabled

\* Only settling an attempt and switching an endpoint touch its row.
LEMMA HealthStep == Health /\ [Next]_vars => Health'
<1> SUFFICES ASSUME Health, [Next]_vars PROVE Health'
  OBVIOUS
<1> USE DEF Health
<1>0. ASSUME UNCHANGED ends PROVE Health'
  BY <1>0 DEF EndsOK, HealthyWhileEnabled
<1>1. ASSUME NEW w \in Workers, Settle(w) PROVE Health'
  <2> DEFINE x == workers[w].job[1][2]
             after == healthAfter(ends[x], workers[w].outcome, workers[w].attempt)
  <2>1. ends' = [ends EXCEPT ![x] = after]
    BY <1>1 DEF Settle
  <2>2. x \in Endpoints => InOrder(after)
    BY HealthAfterInOrder DEF EndsOK, HealthyWhileEnabled, InOrder
  <2> HIDE DEF after
  <2>3. EndsOK'
    BY <2>1, <2>2 DEF EndsOK, InOrder
  <2>4. \A y \in Endpoints : ends'[y] = IF y = x THEN after ELSE ends[y]
    BY <2>1 DEF EndsOK
  <2> QED  BY <2>2, <2>3, <2>4 DEF HealthyWhileEnabled, InOrder
<1>2. ASSUME NEW x \in Endpoints, Toggle(x) PROVE Health'
  <2> DEFINE off == [ends[x] EXCEPT !.enabled = FALSE]
             on == [enabled |-> TRUE, failures |-> 0]
             after == IF ends[x].enabled THEN off ELSE on
  <2>1. ends' = [ends EXCEPT ![x] = after]
    BY <1>2 DEF Toggle
  <2>2. InOrder(off)
    BY DEF EndsOK, End, InOrder
  <2>3. InOrder(on)
    <3>1. AutoDisableAfter \in Nat \ {0}
      BY WebhookAssumption
    <3> QED  BY <3>1 DEF End, InOrder
  <2>4. InOrder(after)
    BY <2>2, <2>3
  <2> HIDE DEF after
  <2>5. EndsOK'
    BY <2>1, <2>4 DEF EndsOK, InOrder
  <2>6. \A y \in Endpoints : ends'[y] = IF y = x THEN after ELSE ends[y]
    BY <2>1 DEF EndsOK
  <2> QED  BY <2>4, <2>5, <2>6 DEF HealthyWhileEnabled, InOrder
<1>3. ASSUME NEW w \in Workers,
             UpsertRow(w) \/ EnqueueRow(w) \/ FannedOut(w) \/ Post(w) \/ Report(w)
      PROVE  UNCHANGED ends
  BY <1>3 DEF UpsertRow, EnqueueRow, FannedOut, Post, Report
<1>4. ASSUME Take \/ Request PROVE UNCHANGED ends
  BY <1>4 DEF Take, Request, LoadFanOut, LoadDelivery, ResetRow, EnqueueAgain
<1>5. ASSUME NEW w \in Workers, Throw(w) \/ Kill(w) \/ Stall(w) \/ LoseRow(w)
      PROVE  UNCHANGED ends
  BY <1>5 DEF Throw, Kill, Stall, LoseRow, Interrupted
<1>6. ASSUME \/ \E e \in Events : Raise(e)
             \/ \E d \in Deliveries : AskRedelivery(d)
             \/ \E e \in DOMAIN fans : ExpireFanOut(e)
             \/ \E j \in DOMAIN jobs : ExpireDelivery(j)
             \/ \E q \in requests : LoseAgain(q)
             \/ UNCHANGED vars
      PROVE  UNCHANGED ends
  BY <1>6 DEF Raise, AskRedelivery, ExpireFanOut, ExpireDelivery, LoseAgain, vars
<1> QED
  BY <1>0, <1>1, <1>2, <1>3, <1>4, <1>5, <1>6 DEF Next, Step

\* An endpoint whose consecutive final failures reach the limit is disabled,
\* however many attempts fail at once (settle's increment and disable).
THEOREM EndpointHealth == Spec => []HealthyWhileEnabled
<1>1. Health => HealthyWhileEnabled
  BY DEF Health
<1> QED  BY HealthInit, HealthStep, <1>1, PTL DEF Spec


----------------------------------------------------------------------------
(* Typing: what a worker holds depends on where it is.                     *)

Fanning(w) == workers[w].pc \in {"fan", "enqueue"}
Delivering(w) == workers[w].pc \in {"post", "settle", "report"}

Holding(w) ==
    LET me == workers[w] IN
    /\ Fanning(w) => me.event \in Events
    /\ me.pc = "enqueue" => me.job[1] \in DOMAIN rows /\ me.job = <<me.job[1], 0>>
                            /\ me.job[1][1] = me.event
    /\ Delivering(w) => me.event = None /\ me.job[1] \in DOMAIN rows
                        /\ me.job \in Deliveries \X Nat
    /\ me.pc \in {"settle", "report"} => me.outcome \in Outcomes

Typed ==
    /\ TypeOK
    /\ \A w \in Workers : Holding(w)
    /\ \A j \in DOMAIN jobs : j[1] \in DOMAIN rows
    /\ \A q \in requests : q.of \in DOMAIN rows


LEMMA AddedTyped ==
    ASSUME NEW queue, queue \in [DOMAIN queue -> Job], NEW id
    PROVE  /\ Added(queue, id) \in [DOMAIN Added(queue, id) -> Job]
           /\ DOMAIN Added(queue, id) = DOMAIN queue \cup {id}
BY DEF Added, Put, FreshJob, Job

LEMMA RetriedTyped ==
    ASSUME NEW job \in Job, NEW attempts
    PROVE  Retried(job, attempts) \in Job /\ Redelivered(job) \in Job
<1>0. job.made + 1 \in Nat /\ job.stalls + 1 \in Nat
  BY DEF Job
<1>1. ASSUME NEW state \in {"waiting", "failed"}
      PROVE  /\ [job EXCEPT !.made = @ + 1, !.state = state] \in Job
             /\ [job EXCEPT !.stalls = @ + 1, !.state = state] \in Job
  <2>1. ASSUME NEW n \in Nat PROVE [job EXCEPT !.made = n, !.state = state] \in Job
    BY DEF Job
  <2>2. ASSUME NEW n \in Nat PROVE [job EXCEPT !.stalls = n, !.state = state] \in Job
    BY DEF Job
  <2> QED  BY <1>0, <2>1, <2>2
<1>2. (IF job.made + 1 >= attempts THEN "failed" ELSE "waiting") \in {"waiting", "failed"}
  OBVIOUS
<1>3. (IF job.stalls >= MaxStalls THEN "failed" ELSE "waiting") \in {"waiting", "failed"}
  OBVIOUS
<1> QED  BY <1>1, <1>2, <1>3 DEF Retried, Redelivered

\* The rows are typed, and are never deleted.
RowsKept ==
    /\ DOMAIN rows' \subseteq Deliveries /\ rows' \in [DOMAIN rows' -> Row]
    /\ DOMAIN rows \subseteq DOMAIN rows'

LEMMA RowsStep == Typed /\ [Next]_vars => RowsKept
<1> SUFFICES ASSUME Typed, [Next]_vars PROVE RowsKept
  OBVIOUS
<1>0. DOMAIN rows \subseteq Deliveries /\ rows \in [DOMAIN rows -> Row] /\ workers \in [Workers -> Worker]
  BY DEF Typed, TypeOK
<1>1. ASSUME rows' = rows PROVE RowsKept
  BY <1>0, <1>1 DEF RowsKept
<1>2. ASSUME NEW w \in Workers, UpsertRow(w) PROVE RowsKept
  <2>1. PICK x \in workers[w].left :
          \/ rows' = rows
          \/ rows' = Put(rows, <<workers[w].event, x>>, [status |-> "PENDING", history |-> 0])
    BY <1>2 DEF UpsertRow
  <2>2. <<workers[w].event, x>> \in Deliveries
    BY <1>0, <1>2, <2>1 DEF Typed, Holding, Fanning, UpsertRow, Worker, Deliveries
  <2>3. [status |-> "PENDING", history |-> 0] \in Row
    BY DEF Row
  <2> QED  BY <1>0, <1>1, <2>1, <2>2, <2>3 DEF RowsKept, Put
<1>3. ASSUME NEW w \in Workers, Settle(w) PROVE RowsKept
  <2> DEFINE row == [status |-> statusAfter(workers[w].outcome, workers[w].attempt),
                     history |-> workers[w].history + 1]
  <2>1. row \in Row
    BY <1>0 DEF Worker, Row, statusAfter
  <2>2. rows' = [rows EXCEPT ![workers[w].job[1]] = row]
    BY <1>3 DEF Settle
  <2> HIDE DEF row
  <2> QED  BY <1>0, <2>1, <2>2 DEF RowsKept
<1>4. ASSUME NEW q \in requests, ResetRow(q) PROVE RowsKept
  BY <1>0, <1>4 DEF ResetRow, Row, RowsKept
<1>5. ASSUME NEW w \in Workers, Step(w) PROVE RowsKept
  BY <1>1, <1>2, <1>3, <1>5 DEF Step, EnqueueRow, FannedOut, Post, Report
<1>6. CASE Take \/ Request
  BY <1>1, <1>4, <1>6 DEF Take, Request, LoadFanOut, LoadDelivery, EnqueueAgain
<1>7. ASSUME NEW w \in Workers, Throw(w) \/ Kill(w) \/ Stall(w) \/ LoseRow(w) PROVE RowsKept
  BY <1>1, <1>7 DEF Throw, Kill, Stall, LoseRow, Interrupted
<1>8. ASSUME \/ \E e \in Events : Raise(e)
             \/ \E d \in Deliveries : AskRedelivery(d)
             \/ \E x \in Endpoints : Toggle(x)
             \/ \E e \in DOMAIN fans : ExpireFanOut(e)
             \/ \E j \in DOMAIN jobs : ExpireDelivery(j)
             \/ \E q \in requests : LoseAgain(q)
             \/ UNCHANGED vars
      PROVE  RowsKept
  BY <1>1, <1>8 DEF Raise, AskRedelivery, Toggle, ExpireFanOut, ExpireDelivery, LoseAgain, vars
<1> QED  BY <1>5, <1>6, <1>7, <1>8 DEF Next

\* The fan-out jobs are typed.
FansOK == DOMAIN fans \subseteq Events /\ fans \in [DOMAIN fans -> Job]

LEMMA FansStep == Typed /\ [Next]_vars => FansOK'
<1> SUFFICES ASSUME Typed, [Next]_vars PROVE FansOK'
  OBVIOUS
<1>0. FansOK
  BY DEF Typed, TypeOK, FansOK
<1>1. ASSUME fans' = fans PROVE FansOK'
  BY <1>0, <1>1 DEF FansOK
<1>2. ASSUME NEW e, NEW job, e \in DOMAIN fans => job \in Job, fans' = [fans EXCEPT ![e] = job]
      PROVE  FansOK'
  BY <1>0, <1>2 DEF FansOK
<1>3. ASSUME NEW e \in Events, Raise(e) PROVE FansOK'
  <2>1. Added(fans, e) \in [DOMAIN Added(fans, e) -> Job] /\ DOMAIN Added(fans, e) = DOMAIN fans \cup {e}
    BY <1>0, AddedTyped DEF FansOK
  <2>2. fans' = Added(fans, e)
    BY <1>3 DEF Raise
  <2> QED  BY <1>0, <2>1, <2>2 DEF FansOK
<1>4. ASSUME NEW w \in Workers, NEW e \in DOMAIN fans, LoadFanOut(w, e) PROVE FansOK'
  BY <1>0, <1>4 DEF LoadFanOut, FansOK, Job
<1>5. ASSUME NEW w \in Workers, FannedOut(w) PROVE FansOK'
  BY <1>0, <1>1, <1>5 DEF FannedOut, FansOK, Job
<1>6. ASSUME NEW w \in Workers, NEW threw, NEW goesOn, Interrupted(w, threw, goesOn) PROVE FansOK'
  <2> DEFINE e == workers[w].event
  <2>1. fans' = fans \/ fans' = [fans EXCEPT ![e] = Retried(fans[e], FanAttempts)]
                     \/ fans' = [fans EXCEPT ![e] = Redelivered(fans[e])]
    BY <1>6 DEF Interrupted
  <2>2. e \in DOMAIN fans => Retried(fans[e], FanAttempts) \in Job /\ Redelivered(fans[e]) \in Job
    BY <1>0, RetriedTyped DEF FansOK
  <2> QED  BY <1>1, <1>2, <2>1, <2>2
<1>7. ASSUME NEW e, ExpireFanOut(e) PROVE FansOK'
  BY <1>0, <1>7 DEF ExpireFanOut, FansOK
<1>8. ASSUME NEW w \in Workers, Step(w) PROVE FansOK'
  BY <1>1, <1>5, <1>8 DEF Step, UpsertRow, EnqueueRow, Post, Settle, Report
<1>9. CASE Take \/ Request
  BY <1>1, <1>4, <1>9 DEF Take, Request, LoadDelivery, ResetRow, EnqueueAgain
<1>10. ASSUME NEW w \in Workers, Throw(w) \/ Kill(w) \/ Stall(w) \/ LoseRow(w) PROVE FansOK'
  BY <1>1, <1>6, <1>10 DEF Throw, Kill, Stall, LoseRow
<1>11. ASSUME \/ \E d \in Deliveries : AskRedelivery(d)
              \/ \E x \in Endpoints : Toggle(x)
              \/ \E j \in DOMAIN jobs : ExpireDelivery(j)
              \/ \E q \in requests : LoseAgain(q)
              \/ UNCHANGED vars
       PROVE  FansOK'
  BY <1>1, <1>11 DEF AskRedelivery, Toggle, ExpireDelivery, LoseAgain, vars
<1> QED  BY <1>3, <1>7, <1>8, <1>9, <1>10, <1>11 DEF Next

\* The deliver jobs are typed, and each is for a row there is.
JobsOK ==
    /\ DOMAIN jobs \subseteq Deliveries \X Nat /\ jobs \in [DOMAIN jobs -> Job]
    /\ \A j \in DOMAIN jobs : j[1] \in DOMAIN rows

LEMMA JobsStep == Typed /\ [Next]_vars => JobsOK'
<1> SUFFICES ASSUME Typed, [Next]_vars PROVE JobsOK'
  OBVIOUS
<1>0. JobsOK /\ RowsKept
  BY RowsStep DEF Typed, TypeOK, JobsOK
<1>1. ASSUME jobs' = jobs PROVE JobsOK'
  BY <1>0, <1>1 DEF JobsOK, RowsKept
<1>2. ASSUME NEW j, NEW job, j \in DOMAIN jobs => job \in Job, jobs' = [jobs EXCEPT ![j] = job]
      PROVE  JobsOK'
  BY <1>0, <1>2 DEF JobsOK, RowsKept
<1>3. ASSUME NEW j \in Deliveries \X Nat, j[1] \in DOMAIN rows, jobs' = Added(jobs, j) PROVE JobsOK'
  <2>1. Added(jobs, j) \in [DOMAIN Added(jobs, j) -> Job] /\ DOMAIN Added(jobs, j) = DOMAIN jobs \cup {j}
    BY <1>0, AddedTyped DEF JobsOK
  <2> QED  BY <1>0, <1>3, <2>1 DEF JobsOK, RowsKept
<1>4. ASSUME NEW w \in Workers, EnqueueRow(w) PROVE JobsOK'
  <2>1. workers[w].job \in Deliveries \X Nat /\ workers[w].job[1] \in DOMAIN rows
    BY <1>4, SMTT(30) DEF EnqueueRow, Typed, TypeOK, Holding, Deliveries
  <2> QED  BY <1>3, <1>4, <2>1 DEF EnqueueRow
<1>5. ASSUME NEW w \in Workers, NEW j \in DOMAIN jobs, LoadDelivery(w, j) PROVE JobsOK'
  <2>1. jobs' = [jobs EXCEPT ![j] = [jobs[j] EXCEPT !.state = "done"]]
        \/ jobs' = [jobs EXCEPT ![j] = [jobs[j] EXCEPT !.state = "active"]]
    BY <1>5 DEF LoadDelivery
  <2>2. [jobs[j] EXCEPT !.state = "done"] \in Job /\ [jobs[j] EXCEPT !.state = "active"] \in Job
    BY <1>0 DEF JobsOK, Job
  <2> QED  BY <1>2, <2>1, <2>2
<1>6. ASSUME NEW w \in Workers, Report(w) PROVE JobsOK'
  <2> DEFINE j == workers[w].job
  <2>1. \/ jobs' = jobs
        \/ jobs' = [jobs EXCEPT ![j] = [jobs[j] EXCEPT !.state = "done"]]
        \/ jobs' = [jobs EXCEPT ![j] = [jobs[j] EXCEPT !.state = "failed"]]
        \/ jobs' = [jobs EXCEPT ![j] = Retried(jobs[j], MaxAttempts)]
    <3>1. workers[w].outcome \in Outcomes
      BY <1>6 DEF Report, Typed, Holding
    <3> QED  BY <1>6, <3>1 DEF Report, Outcomes
  <2>2. j \in DOMAIN jobs => /\ [jobs[j] EXCEPT !.state = "done"] \in Job
                             /\ [jobs[j] EXCEPT !.state = "failed"] \in Job
                             /\ Retried(jobs[j], MaxAttempts) \in Job
    <3>1. \A job \in Job : [job EXCEPT !.state = "done"] \in Job /\ [job EXCEPT !.state = "failed"] \in Job
      BY DEF Job
    <3> QED  BY <1>0, <3>1, RetriedTyped DEF JobsOK
  <2> QED  BY <1>1, <1>2, <2>1, <2>2
<1>7. ASSUME NEW q \in requests, EnqueueAgain(q) PROVE JobsOK'
  <2>1. <<q.of, q.n>> \in Deliveries \X Nat /\ q.of \in DOMAIN rows
    BY DEF Typed, TypeOK
  <2> QED  BY <1>3, <1>7, <2>1 DEF EnqueueAgain
<1>8. ASSUME NEW j, ExpireDelivery(j) PROVE JobsOK'
  BY <1>0, <1>8 DEF ExpireDelivery, JobsOK
<1>9. ASSUME NEW w \in Workers, NEW threw, NEW goesOn, Interrupted(w, threw, goesOn) PROVE JobsOK'
  <2> DEFINE j == workers[w].job
  <2>1. jobs' = jobs \/ jobs' = [jobs EXCEPT ![j] = Retried(jobs[j], MaxAttempts)]
                     \/ jobs' = [jobs EXCEPT ![j] = Redelivered(jobs[j])]
    BY <1>9 DEF Interrupted
  <2>2. j \in DOMAIN jobs => Retried(jobs[j], MaxAttempts) \in Job /\ Redelivered(jobs[j]) \in Job
    BY <1>0, RetriedTyped DEF JobsOK
  <2> QED  BY <1>1, <1>2, <2>1, <2>2
<1>10. ASSUME NEW w \in Workers, Step(w) PROVE JobsOK'
  BY <1>1, <1>4, <1>6, <1>10 DEF Step, UpsertRow, FannedOut, Post, Settle
<1>11. CASE Take \/ Request
  BY <1>1, <1>5, <1>7, <1>11 DEF Take, Request, LoadFanOut, ResetRow
<1>12. ASSUME NEW w \in Workers, Throw(w) \/ Kill(w) \/ Stall(w) \/ LoseRow(w) PROVE JobsOK'
  BY <1>1, <1>9, <1>12 DEF Throw, Kill, Stall, LoseRow
<1>13. ASSUME \/ \E e \in Events : Raise(e)
              \/ \E d \in Deliveries : AskRedelivery(d)
              \/ \E x \in Endpoints : Toggle(x)
              \/ \E e \in DOMAIN fans : ExpireFanOut(e)
              \/ \E q \in requests : LoseAgain(q)
              \/ UNCHANGED vars
       PROVE  JobsOK'
  BY <1>1, <1>13 DEF Raise, AskRedelivery, Toggle, ExpireFanOut, LoseAgain, vars
<1> QED  BY <1>8, <1>10, <1>11, <1>12, <1>13 DEF Next


\* The workers hold what fits where they are.
WorkersOK == workers \in [Workers -> Worker] /\ \A w \in Workers : Holding(w)

LEMMA OneMoves ==
    ASSUME Typed, RowsKept, NEW w \in Workers, workers' \in [Workers -> Worker],
           \A v \in Workers \ {w} : workers'[v] = workers[v], Holding(w)'
    PROVE  WorkersOK'
<1>1. ASSUME NEW v \in Workers, v # w PROVE Holding(v)'
  BY <1>1 DEF Typed, RowsKept, Holding, Fanning, Delivering
<1> QED  BY <1>1 DEF WorkersOK

LEMMA GoesIdle ==
    ASSUME Typed, RowsKept, NEW w \in Workers, workers' = [workers EXCEPT ![w] = Idle]
    PROVE  WorkersOK'
<1>1. workers \in [Workers -> Worker] /\ Idle \in Worker
  BY DEF Typed, TypeOK, Idle, Worker
<1>2. workers' \in [Workers -> Worker] /\ workers'[w].pc = "idle"
  BY <1>1 DEF Idle
<1>3. Holding(w)'
  BY <1>2 DEF Holding, Fanning, Delivering
<1> QED  BY <1>1, <1>2, <1>3, OneMoves

LEMMA WorkersStep == Typed /\ [Next]_vars => WorkersOK'
<1> SUFFICES ASSUME Typed, [Next]_vars PROVE WorkersOK'
  OBVIOUS
<1>0. WorkersOK /\ RowsKept /\ workers \in [Workers -> Worker]
  BY RowsStep DEF Typed, TypeOK, WorkersOK
<1>1. ASSUME workers' = workers PROVE WorkersOK'
  BY <1>0, <1>1 DEF WorkersOK, RowsKept, Holding, Fanning, Delivering
<1>2. ASSUME NEW w \in Workers, UpsertRow(w) PROVE WorkersOK'
  <2> DEFINE now == workers'[w]
  <2>1. PICK x \in workers[w].left :
          /\ workers' = [workers EXCEPT ![w].pc = "enqueue", ![w].job = <<<<workers[w].event, x>>, 0>>,
                                        ![w].left = @ \ {x}]
          /\ \/ rows' = Put(rows, <<workers[w].event, x>>, [status |-> "PENDING", history |-> 0])
             \/ rows' = rows /\ <<workers[w].event, x>> \in DOMAIN rows
    BY <1>2 DEF UpsertRow
  <2>2. workers[w].event \in Events /\ x \in Endpoints
    BY <1>0, <1>2 DEF UpsertRow, WorkersOK, Holding, Fanning, Worker
  <2>3. <<<<workers[w].event, x>>, 0>> \in Deliveries \X Nat
    BY <2>2 DEF Deliveries
  <2>4. workers' \in [Workers -> Worker] /\ \A v \in Workers \ {w} : workers'[v] = workers[v]
    BY <1>0, <2>1, <2>3 DEF Worker
  <2>5. now.pc = "enqueue" /\ now.event = workers[w].event /\ now.job = <<<<workers[w].event, x>>, 0>>
    BY <1>0, <2>1 DEF Worker
  <2>6. <<workers[w].event, x>> \in DOMAIN rows'
    BY <2>1 DEF Put
  <2>7. Holding(w)'
    BY <2>2, <2>5, <2>6 DEF Holding, Fanning, Delivering
  <2> QED  BY <1>0, <2>4, <2>7, OneMoves
<1>3. ASSUME NEW w \in Workers, EnqueueRow(w) \/ LoseRow(w) PROVE WorkersOK'
  <2>1. workers' = [workers EXCEPT ![w].pc = "fan", ![w].job = None] /\ workers[w].pc = "enqueue"
    BY <1>3 DEF EnqueueRow, LoseRow
  <2>2. workers' \in [Workers -> Worker]
    <3>1. [workers[w] EXCEPT !.pc = "fan", !.job = None] \in Worker
      BY <1>0 DEF Worker
    <3>2. workers' = [workers EXCEPT ![w] = [workers[w] EXCEPT !.pc = "fan", !.job = None]]
      BY <1>0, <2>1
    <3> QED  BY <1>0, <3>1, <3>2
  <2>4. /\ \A v \in Workers \ {w} : workers'[v] = workers[v]
        /\ workers'[w].pc = "fan" /\ workers'[w].event = workers[w].event
    BY <1>0, <2>1 DEF Worker
  <2>3. Holding(w)'
    BY <1>0, <2>1, <2>4 DEF WorkersOK, Holding, Fanning, Delivering
  <2> QED  BY <1>0, <2>2, <2>3, <2>4, OneMoves
<1>4. ASSUME NEW w \in Workers, FannedOut(w) \/ Report(w) \/ Throw(w) \/ Kill(w) PROVE WorkersOK'
  BY <1>0, <1>4, GoesIdle DEF FannedOut, Report, Throw, Kill
<1>5. ASSUME NEW w \in Workers, Post(w) \/ Settle(w) PROVE WorkersOK'
  <2>1. \/ /\ workers[w].pc = "post"
           /\ \E answer \in Outcomes : workers' = [workers EXCEPT ![w].pc = "settle", ![w].outcome = answer]
        \/ workers[w].pc = "settle" /\ workers' = [workers EXCEPT ![w].pc = "report"]
    BY <1>5 DEF Post, Settle, Outcomes
  <2>2. /\ workers' \in [Workers -> Worker] /\ \A v \in Workers \ {w} : workers'[v] = workers[v]
        /\ workers'[w].pc \in {"settle", "report"} /\ workers'[w].event = workers[w].event
        /\ workers'[w].job = workers[w].job
        /\ workers'[w].outcome \in Outcomes \/ workers'[w].outcome = workers[w].outcome
    BY <1>0, <2>1 DEF Worker
  <2>3. workers'[w].outcome \in Outcomes
    BY <1>0, <2>1, <2>2 DEF WorkersOK, Holding, Worker
  <2>4. Holding(w)'
    BY <1>0, <2>1, <2>2, <2>3 DEF WorkersOK, RowsKept, Holding, Fanning, Delivering
  <2> QED  BY <1>0, <2>2, <2>4, OneMoves
<1>6. ASSUME NEW w \in Workers, NEW e \in DOMAIN fans, LoadFanOut(w, e) PROVE WorkersOK'
  <2>1. PICK left \in SUBSET Endpoints : workers' = [workers EXCEPT ![w] =
           [Idle EXCEPT !.pc = "fan", !.event = e, !.owns = TRUE, !.left = left]]
    BY <1>6 DEF LoadFanOut
  <2>2. e \in Events
    BY DEF Typed, TypeOK
  <2>3. [Idle EXCEPT !.pc = "fan", !.event = e, !.owns = TRUE, !.left = left] \in Worker
    BY <2>2 DEF Idle, Worker
  <2>4. /\ workers' \in [Workers -> Worker] /\ \A v \in Workers \ {w} : workers'[v] = workers[v]
        /\ workers'[w].pc = "fan" /\ workers'[w].event = e
    BY <1>0, <2>1, <2>3 DEF Idle
  <2>5. Holding(w)'
    BY <2>2, <2>4 DEF Holding, Fanning, Delivering
  <2> QED  BY <1>0, <2>4, <2>5, OneMoves
<1>7. ASSUME NEW w \in Workers, NEW j \in DOMAIN jobs, LoadDelivery(w, j) PROVE WorkersOK'
  <2>1. CASE workers' = workers
    BY <1>1, <2>1
  <2>2. CASE workers' # workers
    <3> DEFINE taken(place, outcome, n, history) ==
          [Idle EXCEPT !.pc = place, !.outcome = outcome, !.job = j, !.attempt = n, !.owns = TRUE,
                       !.history = history]
    <3>1. \/ workers' = [workers EXCEPT ![w] = taken("post", None, jobs[j].made + 1, rows[j[1]].history)]
          \/ workers' = [workers EXCEPT ![w] = taken("settle", "disabled", jobs[j].made + 1, rows[j[1]].history)]
      BY <1>7, <2>2 DEF LoadDelivery
    <3>2. jobs[j].made \in Nat /\ rows[j[1]].history \in Nat /\ j \in Deliveries \X Nat /\ j[1] \in DOMAIN rows
      BY DEF Typed, TypeOK, Job, Row
    <3>3. ASSUME NEW place \in {"post", "settle"}, NEW outcome \in Outcomes \cup {None},
                 NEW n \in Nat, NEW history \in Nat
          PROVE  /\ taken(place, outcome, n, history) \in Worker
                 /\ taken(place, outcome, n, history).pc = place
                 /\ taken(place, outcome, n, history).event = None
                 /\ taken(place, outcome, n, history).job = j
                 /\ taken(place, outcome, n, history).outcome = outcome
      BY <3>2 DEF Idle, Worker
    <3> HIDE DEF taken
    <3>4. PICK place \in {"post", "settle"}, outcome \in Outcomes \cup {None}, n \in Nat, history \in Nat :
            /\ workers' = [workers EXCEPT ![w] = taken(place, outcome, n, history)]
            /\ place = "settle" => outcome \in Outcomes
      BY <3>1, <3>2 DEF Outcomes
    <3>5. /\ workers' \in [Workers -> Worker] /\ \A v \in Workers \ {w} : workers'[v] = workers[v]
          /\ workers'[w].pc = place /\ workers'[w].event = None /\ workers'[w].job = j
          /\ workers'[w].outcome = outcome
      BY <1>0, <3>3, <3>4
    <3>6. Holding(w)'
      BY <1>0, <3>2, <3>4, <3>5 DEF Holding, Fanning, Delivering, RowsKept
    <3> QED  BY <1>0, <3>5, <3>6, OneMoves
  <2> QED  BY <2>1, <2>2
<1>8. ASSUME NEW w \in Workers, Stall(w) PROVE WorkersOK'
  <2>1. workers[w] \in Worker
    BY <1>0
  <2>2. PICK bereft : bereft = [workers[w] EXCEPT !.owns = FALSE]
    OBVIOUS
  <2>3. /\ bereft \in Worker
        /\ bereft.pc = workers[w].pc /\ bereft.event = workers[w].event
        /\ bereft.job = workers[w].job /\ bereft.outcome = workers[w].outcome
    BY <2>1, <2>2 DEF Worker
  <2>4. workers' = [workers EXCEPT ![w] = bereft]
    BY <1>8, <2>2 DEF Stall
  <2>5. /\ workers' \in [Workers -> Worker] /\ \A v \in Workers \ {w} : workers'[v] = workers[v]
        /\ workers'[w] = bereft
    BY <1>0, <2>3, <2>4
  <2>6. Holding(w)'
    BY <1>0, <2>3, <2>5 DEF WorkersOK, RowsKept, Holding, Fanning, Delivering
  <2> QED  BY <1>0, <2>5, <2>6, OneMoves
<1>9. CASE Take \/ Request
  BY <1>1, <1>6, <1>7, <1>9 DEF Take, Request, ResetRow, EnqueueAgain
<1>10. ASSUME \/ \E e \in Events : Raise(e)
              \/ \E d \in Deliveries : AskRedelivery(d)
              \/ \E x \in Endpoints : Toggle(x)
              \/ \E e \in DOMAIN fans : ExpireFanOut(e)
              \/ \E j \in DOMAIN jobs : ExpireDelivery(j)
              \/ \E q \in requests : LoseAgain(q)
              \/ UNCHANGED vars
       PROVE  WorkersOK'
  BY <1>1, <1>10 DEF Raise, AskRedelivery, Toggle, ExpireFanOut, ExpireDelivery, LoseAgain, vars
<1> QED  BY <1>2, <1>3, <1>4, <1>5, <1>8, <1>9, <1>10 DEF Next, Step


\* The requests are typed, and each is for a row there is.
RequestsOK ==
    /\ requests \in SUBSET [of : Deliveries, n : Nat, at : {"checked", "reset"}]
    /\ \A q \in requests : q.of \in DOMAIN rows

LEMMA RequestsStep == Typed /\ [Next]_vars => RequestsOK'
<1> SUFFICES ASSUME Typed, [Next]_vars PROVE RequestsOK'
  OBVIOUS
<1>0. RequestsOK /\ RowsKept /\ redeliveries \in Nat
  BY RowsStep DEF Typed, TypeOK, RequestsOK
<1>1. ASSUME requests' \subseteq requests PROVE RequestsOK'
  BY <1>0, <1>1 DEF RequestsOK, RowsKept
<1>2. ASSUME NEW q \in [of : Deliveries, n : Nat, at : {"checked", "reset"}], q.of \in DOMAIN rows,
             requests' \subseteq requests \cup {q}
      PROVE  RequestsOK'
  BY <1>0, <1>2 DEF RequestsOK, RowsKept
<1>3. ASSUME NEW d \in Deliveries, AskRedelivery(d) PROVE RequestsOK'
  <2> DEFINE q == [of |-> d, n |-> redeliveries + 1, at |-> "checked"]
  <2>1. q \in [of : Deliveries, n : Nat, at : {"checked", "reset"}] /\ q.of = d
    BY <1>0
  <2>2. d \in DOMAIN rows /\ requests' = requests \cup {q}
    BY <1>3 DEF AskRedelivery, mayAsk
  <2> HIDE DEF q
  <2> QED  BY <1>2, <2>1, <2>2
<1>4. ASSUME NEW q \in requests, ResetRow(q) PROVE RequestsOK'
  <2> DEFINE p == [q EXCEPT !.at = "reset"]
  <2>1. p \in [of : Deliveries, n : Nat, at : {"checked", "reset"}] /\ p.of = q.of
    BY <1>0 DEF RequestsOK
  <2>2. requests' = (requests \ {q}) \cup {p}
    BY <1>4 DEF ResetRow
  <2> HIDE DEF p
  <2> QED  BY <1>0, <1>2, <2>1, <2>2 DEF RequestsOK
<1>5. ASSUME NEW q, EnqueueAgain(q) \/ LoseAgain(q) PROVE RequestsOK'
  BY <1>1, <1>5 DEF EnqueueAgain, LoseAgain
<1>6. ASSUME NEW w \in Workers, Step(w) PROVE RequestsOK'
  BY <1>1, <1>6 DEF Step, UpsertRow, EnqueueRow, FannedOut, Post, Settle, Report
<1>7. CASE Take \/ Request
  BY <1>1, <1>4, <1>5, <1>7 DEF Take, Request, LoadFanOut, LoadDelivery
<1>8. ASSUME NEW w \in Workers, Throw(w) \/ Kill(w) \/ Stall(w) \/ LoseRow(w) PROVE RequestsOK'
  BY <1>1, <1>8 DEF Throw, Kill, Stall, LoseRow, Interrupted
<1>9. ASSUME \/ \E e \in Events : Raise(e)
             \/ \E x \in Endpoints : Toggle(x)
             \/ \E e \in DOMAIN fans : ExpireFanOut(e)
             \/ \E j \in DOMAIN jobs : ExpireDelivery(j)
             \/ UNCHANGED vars
      PROVE  RequestsOK'
  BY <1>1, <1>9 DEF Raise, Toggle, ExpireFanOut, ExpireDelivery, vars
<1> QED  BY <1>3, <1>5, <1>6, <1>7, <1>8, <1>9 DEF Next

\* Only rows are ever crossed, and for good.
LEMMA CrossedGrows == Typed /\ [Next]_vars => crossed \subseteq crossed' /\ crossed' \subseteq Deliveries
<1> SUFFICES ASSUME Typed, [Next]_vars PROVE crossed \subseteq crossed' /\ crossed' \subseteq Deliveries
  OBVIOUS
<1>0. crossed \subseteq Deliveries
  BY DEF Typed, TypeOK
<1>1. ASSUME crossed' = crossed PROVE crossed \subseteq crossed' /\ crossed' \subseteq Deliveries
  BY <1>0, <1>1
<1>2. ASSUME NEW d \in Deliveries, crossed' \in {crossed, crossed \cup {d}}
      PROVE  crossed \subseteq crossed' /\ crossed' \subseteq Deliveries
  BY <1>0, <1>2
<1>3. ASSUME NEW w \in Workers, EnqueueRow(w) PROVE crossed \subseteq crossed' /\ crossed' \subseteq Deliveries
  <2>1. workers[w].job[1] \in Deliveries
    BY <1>3 DEF EnqueueRow, Typed, TypeOK, Holding
  <2> QED  BY <1>2, <1>3, <2>1 DEF EnqueueRow
<1>4. ASSUME NEW w \in Workers, NEW threw, NEW goesOn, Interrupted(w, threw, goesOn)
      PROVE  crossed \subseteq crossed' /\ crossed' \subseteq Deliveries
  <2>1. CASE workers[w].event = None
    <3>1. workers[w].job[1] \in Deliveries
      BY <1>4, <2>1, WebhookAssumption
      DEF Interrupted, Typed, TypeOK, Holding, Fanning, Delivering, Worker
    <3>2. crossed' \in {crossed, crossed \cup {workers[w].job[1]}}
      BY <1>4 DEF Interrupted
    <3> QED  BY <1>2, <3>1, <3>2
  <2>2. CASE workers[w].event # None
    BY <1>1, <1>4, <2>2 DEF Interrupted
  <2> QED  BY <2>1, <2>2
<1>5. ASSUME NEW w \in Workers, Step(w) PROVE crossed \subseteq crossed' /\ crossed' \subseteq Deliveries
  BY <1>1, <1>3, <1>5 DEF Step, UpsertRow, FannedOut, Post, Settle, Report, seen
<1>6. ASSUME NEW w \in Workers, Throw(w) \/ Kill(w) \/ Stall(w) \/ LoseRow(w)
      PROVE  crossed \subseteq crossed' /\ crossed' \subseteq Deliveries
  BY <1>1, <1>4, <1>6 DEF Throw, Kill, Stall, LoseRow, seen
<1>7. ASSUME NEW d \in Deliveries, AskRedelivery(d)
      PROVE  crossed \subseteq crossed' /\ crossed' \subseteq Deliveries
  BY <1>2, <1>7 DEF AskRedelivery
<1>8. CASE \/ Take \/ Request
           \/ \E e \in Events : Raise(e)
           \/ \E x \in Endpoints : Toggle(x)
           \/ \E e \in DOMAIN fans : ExpireFanOut(e)
           \/ \E j \in DOMAIN jobs : ExpireDelivery(j)
           \/ \E q \in requests : LoseAgain(q)
           \/ UNCHANGED vars
  BY <1>1, <1>8 DEF Take, Request, LoadFanOut, LoadDelivery, ResetRow, EnqueueAgain, Raise, Toggle,
                   ExpireFanOut, ExpireDelivery, LoseAgain, seen, vars
<1> QED  BY <1>5, <1>6, <1>7, <1>8 DEF Next

\* The counts are numbers, and so are the observations.
CountsOK ==
    /\ raises \in Nat /\ redeliveries \in Nat /\ toggles \in Nat /\ faults \in Nat
    /\ settled \in [Deliveries -> Nat] /\ successes \in [Deliveries -> Nat]

LEMMA CountsStep == Typed /\ [Next]_vars => CountsOK'
<1> SUFFICES ASSUME Typed, [Next]_vars PROVE CountsOK'
  OBVIOUS
<1>0. CountsOK
  BY DEF Typed, TypeOK, CountsOK
<1>1. ASSUME UNCHANGED <<counts, faults, settled, successes>> PROVE CountsOK'
  BY <1>0, <1>1 DEF CountsOK, counts
<1>2. ASSUME NEW w \in Workers, Step(w) PROVE CountsOK'
  <2>1. CASE Post(w)
    <3>1. UNCHANGED <<raises, redeliveries, toggles, faults, settled>>
      BY <2>1 DEF Post, counts
    <3>2. \E d : successes' = successes \/ successes' = [successes EXCEPT ![d] = @ + 1]
      BY <2>1 DEF Post
    <3> QED  BY <1>0, <3>1, <3>2 DEF CountsOK
  <2>2. CASE Settle(w)
    <3>1. UNCHANGED <<raises, redeliveries, toggles, faults, successes>>
      BY <2>2 DEF Settle, counts
    <3>2. PICK d : settled' = [settled EXCEPT ![d] = settled[d] + 1]
      BY <2>2 DEF Settle
    <3>3. settled' \in [Deliveries -> Nat]
      <4>1. PICK n : n = settled[d] + 1
        OBVIOUS
      <4>2. settled' = [settled EXCEPT ![d] = n] /\ (d \in Deliveries => n \in Nat)
        BY <1>0, <3>2, <4>1 DEF CountsOK
      <4> QED  BY <1>0, <4>2 DEF CountsOK
    <3> QED  BY <1>0, <3>1, <3>3 DEF CountsOK
  <2>3. CASE UpsertRow(w) \/ EnqueueRow(w) \/ FannedOut(w) \/ Report(w)
    BY <1>1, <2>3 DEF UpsertRow, EnqueueRow, FannedOut, Report, seen
  <2> QED  BY <1>2, <2>1, <2>2, <2>3 DEF Step
<1>3. ASSUME NEW w \in Workers, Throw(w) \/ Kill(w) \/ Stall(w) \/ LoseRow(w) PROVE CountsOK'
  <2>1. UNCHANGED <<raises, redeliveries, toggles, settled, successes>> /\ faults' = faults + 1
    BY <1>3 DEF Throw, Kill, Stall, LoseRow, Interrupted, Fault, counts, seen
  <2> QED  BY <1>0, <2>1 DEF CountsOK
<1>4. CASE Take \/ Request
  BY <1>1, <1>4 DEF Take, Request, LoadFanOut, LoadDelivery, ResetRow, EnqueueAgain, seen
<1>5. CASE \/ \E e \in Events : Raise(e)
           \/ \E d \in Deliveries : AskRedelivery(d)
           \/ \E x \in Endpoints : Toggle(x)
           \/ \E q \in requests : LoseAgain(q)
  <2>1. /\ raises' \in {raises, raises + 1} /\ redeliveries' \in {redeliveries, redeliveries + 1}
        /\ toggles' \in {toggles, toggles + 1} /\ faults' \in {faults, faults + 1}
        /\ UNCHANGED <<settled, successes>>
    BY <1>5 DEF Raise, AskRedelivery, Toggle, LoseAgain, Fault, counts, seen
  <2> QED  BY <1>0, <2>1 DEF CountsOK
<1>6. CASE \/ \E e \in DOMAIN fans : ExpireFanOut(e)
           \/ \E j \in DOMAIN jobs : ExpireDelivery(j)
           \/ UNCHANGED vars
  BY <1>1, <1>6 DEF ExpireFanOut, ExpireDelivery, vars, counts, seen
<1> QED  BY <1>2, <1>3, <1>4, <1>5, <1>6 DEF Next

\* Every step keeps the typing.
LEMMA TypedStep == Typed /\ Health /\ [Next]_vars => Typed'
<1> SUFFICES ASSUME Typed, Health, [Next]_vars PROVE Typed'
  OBVIOUS
<1>1. RowsKept /\ FansOK' /\ JobsOK' /\ WorkersOK' /\ RequestsOK' /\ CountsOK'
  BY RowsStep, FansStep, JobsStep, WorkersStep, RequestsStep, CountsStep
<1>0. crossed' \subseteq Deliveries
  BY CrossedGrows
<1>2. EndsOK'
  BY HealthStep DEF Health
<1>3. TypeOK'
  BY <1>0, <1>1, <1>2 DEF TypeOK, RowsKept, FansOK, JobsOK, WorkersOK, RequestsOK, CountsOK, EndsOK, End
<1> QED  BY <1>1, <1>3 DEF Typed, JobsOK, WorkersOK, RequestsOK

LEMMA TypedInit == Init => Typed
BY DEF Init, Typed, TypeOK, Row, Job, Worker, Idle, Holding, Fanning, Delivering

\* The module's types hold, whatever is interrupted.
THEOREM WebhooksTyped == Spec => []TypeOK
<1>1. Typed => TypeOK
  BY DEF Typed
<1> QED  BY HealthInit, HealthStep, TypedInit, TypedStep, <1>1, PTL DEF Spec

----------------------------------------------------------------------------
(* PendingHasJob: what is to be settled is in somebody's hand or queued.   *)

\* The queue's record of what is in hand, as long as nothing was interrupted.
HasJob(w) ==
    LET me == workers[w] IN
    Delivering(w) => /\ me.owns /\ me.job \in DOMAIN jobs
                     /\ jobs[me.job].state = "active" /\ me.attempt = jobs[me.job].made + 1
HasFan(w) ==
    LET me == workers[w] IN
    Fanning(w) => me.owns /\ me.event \in DOMAIN fans /\ fans[me.event].state = "active"
Apart(w, v) ==
    /\ Delivering(w) /\ Delivering(v) => workers[w].job # workers[v].job
    /\ Fanning(w) /\ Fanning(v) => workers[w].event # workers[v].event
InHand ==
    /\ \A w \in Workers : HasJob(w) /\ HasFan(w)
    /\ \A w, v \in Workers : w # v => Apart(w, v)

\* Each request has a number of its own, and its job a name nobody has.
Numbered ==
    /\ \A q \in requests : 0 < q.n /\ q.n <= redeliveries /\ <<q.of, q.n>> \notin DOMAIN jobs
    /\ \A q, p \in requests : q.n = p.n => q = p
    /\ \A j \in DOMAIN jobs : j[2] <= redeliveries

\* A worker will settle its row, or settled it and goes for another attempt.
Unsettled(w) ==
    \/ workers[w].pc \in {"post", "settle"}
    \/ /\ workers[w].pc = "report" /\ workers[w].outcome = "retryable"
       /\ workers[w].attempt < MaxAttempts

\* What will settle row d: a job that waits, a worker at it, or one about to be queued.
WaitsFor(j, d) == j \in DOMAIN jobs /\ j[1] = d /\ jobs[j].state = "waiting"
IsAt(w, d) == Unsettled(w) /\ workers[w].job[1] = d
Resets(q, d) == q.of = d /\ q.at = "reset"
Queues(w, d) ==
    workers[w].pc = "enqueue" /\ workers[w].job[1] = d /\ workers[w].job \notin DOMAIN jobs
Coming(d) ==
    \/ \E j \in DOMAIN jobs : WaitsFor(j, d)
    \/ \E w \in Workers : IsAt(w, d) \/ Queues(w, d)
    \/ \E q \in requests : Resets(q, d)

Covered == \A d \in DOMAIN rows : rows[d].status = "PENDING" => Coming(d)

\* Numbers.
LEMMA NumberedStep == Typed /\ Numbered /\ [Next]_vars => Numbered'
<1> SUFFICES ASSUME Typed, Numbered, [Next]_vars PROVE Numbered'
  OBVIOUS
<1>0. /\ redeliveries \in Nat /\ \A j \in DOMAIN jobs : j \in Deliveries \X Nat
      /\ \A q \in requests : q.n \in Nat /\ q.of \in Deliveries
  BY DEF Typed, TypeOK
<1>1. ASSUME requests' \subseteq requests, redeliveries' = redeliveries, DOMAIN jobs' \subseteq DOMAIN jobs
      PROVE  Numbered'
  BY <1>1 DEF Numbered
<1>2. ASSUME NEW w \in Workers, EnqueueRow(w) PROVE Numbered'
  <2>1. requests' = requests /\ redeliveries' = redeliveries
    BY <1>2 DEF EnqueueRow, counts
  <2>2. PICK d : workers[w].job = <<d, 0>>
    BY <1>2 DEF EnqueueRow, Typed, Holding
  <2>3. DOMAIN jobs' = DOMAIN jobs \cup {<<d, 0>>}
    BY <1>2, <2>2 DEF EnqueueRow, Added, Put
  <2> QED  BY <1>0, <2>1, <2>3 DEF Numbered
<1>3. ASSUME NEW q \in requests, EnqueueAgain(q) PROVE Numbered'
  <2>1. requests' = requests \ {q} /\ redeliveries' = redeliveries
    BY <1>3 DEF EnqueueAgain, counts
  <2>2. DOMAIN jobs' = DOMAIN jobs \cup {<<q.of, q.n>>}
    BY <1>3 DEF EnqueueAgain, Added, Put
  <2> QED  BY <1>0, <2>1, <2>2 DEF Numbered
<1>4. ASSUME NEW d \in Deliveries, AskRedelivery(d) PROVE Numbered'
  <2> DEFINE q == [of |-> d, n |-> redeliveries + 1, at |-> "checked"]
  <2>1. requests' = requests \cup {q} /\ redeliveries' = redeliveries + 1 /\ jobs' = jobs
    BY <1>4 DEF AskRedelivery
  <2>2. q.n = redeliveries + 1
    OBVIOUS
  <2> HIDE DEF q
  <2>3. <<q.of, q.n>> \notin DOMAIN jobs
    BY <1>0, <2>2 DEF Numbered
  <2>4. \A p \in requests : p.n # q.n
    <3>1. ASSUME NEW p \in requests PROVE p.n # redeliveries + 1
      <4>1. p.n \in Nat /\ p.n <= redeliveries
        BY <1>0 DEF Numbered
      <4> QED  BY <1>0, <4>1
    <3> QED  BY <2>2, <3>1
  <2> QED  BY <1>0, <2>1, <2>2, <2>3, <2>4 DEF Numbered
<1>5. ASSUME NEW q \in requests, ResetRow(q) PROVE Numbered'
  <2>1. PICK p : p = [q EXCEPT !.at = "reset"]
    OBVIOUS
  <2>2. p.n = q.n /\ p.of = q.of
    BY <2>1 DEF Typed, TypeOK
  <2>3. requests' = (requests \ {q}) \cup {p} /\ redeliveries' = redeliveries /\ jobs' = jobs
    BY <1>5, <2>1 DEF ResetRow, counts
  <2> QED  BY <2>2, <2>3 DEF Numbered
<1>6. ASSUME NEW w \in Workers, Step(w) PROVE Numbered'
  BY <1>1, <1>2, <1>6 DEF Step, UpsertRow, FannedOut, Post, Settle, Report, counts
<1>7. CASE Take \/ Request
  BY <1>1, <1>3, <1>5, <1>7 DEF Take, Request, LoadFanOut, LoadDelivery, counts
<1>8. ASSUME NEW w \in Workers, Throw(w) \/ Kill(w) \/ Stall(w) \/ LoseRow(w) PROVE Numbered'
  <2>1. requests' = requests /\ redeliveries' = redeliveries /\ DOMAIN jobs' = DOMAIN jobs
    BY <1>8 DEF Throw, Kill, Stall, LoseRow, Interrupted, counts
  <2> QED  BY <1>1, <2>1
<1>9. CASE \/ \E e \in Events : Raise(e)
           \/ \E x \in Endpoints : Toggle(x)
           \/ \E e \in DOMAIN fans : ExpireFanOut(e)
           \/ \E j \in DOMAIN jobs : ExpireDelivery(j)
           \/ \E q \in requests : LoseAgain(q)
           \/ UNCHANGED vars
  BY <1>1, <1>9 DEF Raise, Toggle, ExpireFanOut, ExpireDelivery, LoseAgain, vars, counts
<1> QED  BY <1>4, <1>6, <1>7, <1>8, <1>9 DEF Next

\* A step is a fault's, and counted, or it is one of these.
LEMMA Calmly ==
    ASSUME Typed, [Next]_vars, faults' = 0
    PROVE  /\ faults = 0
           /\ \/ \E w \in Workers : Step(w)
              \/ Take \/ Request
              \/ \E e \in Events : Raise(e)
              \/ \E d \in Deliveries : AskRedelivery(d)
              \/ \E x \in Endpoints : Toggle(x)
              \/ \E e \in DOMAIN fans : ExpireFanOut(e)
              \/ \E j \in DOMAIN jobs : ExpireDelivery(j)
              \/ UNCHANGED vars
<1>1. faults \in Nat
  BY DEF Typed, TypeOK
<1>2. \A kind : ~Fault(kind)
  BY <1>1 DEF Fault
<1>3. (\A w \in Workers : ~Throw(w) /\ ~Kill(w) /\ ~Stall(w) /\ ~LoseRow(w)) /\ \A q \in requests : ~LoseAgain(q)
  BY <1>2 DEF Throw, Kill, Stall, LoseRow, LoseAgain
<1>4. ASSUME NEW w \in Workers, Step(w) PROVE faults' = faults
  BY <1>4 DEF Step, UpsertRow, EnqueueRow, FannedOut, Post, Settle, Report
<1>5. CASE Take \/ Request
  BY <1>5 DEF Take, Request, LoadFanOut, LoadDelivery, ResetRow, EnqueueAgain
<1>6. ASSUME \/ \E e \in Events : Raise(e)
             \/ \E d \in Deliveries : AskRedelivery(d)
             \/ \E x \in Endpoints : Toggle(x)
             \/ \E e \in DOMAIN fans : ExpireFanOut(e)
             \/ \E j \in DOMAIN jobs : ExpireDelivery(j)
             \/ UNCHANGED vars
      PROVE  faults' = faults
  BY <1>6 DEF Raise, AskRedelivery, Toggle, ExpireFanOut, ExpireDelivery, vars
<1> QED  BY <1>3, <1>4, <1>5, <1>6 DEF Next


\* A worker keeps its job and its place in it.
Keeps(v) ==
    /\ Delivering(v)' => Delivering(v) /\ UNCHANGED <<workers[v].job, workers[v].owns, workers[v].attempt>>
    /\ Fanning(v)' => Fanning(v) /\ UNCHANGED <<workers[v].event, workers[v].owns>>

\* InHand is kept where a job that was in hand is as it was, or nobody's any more.
LEMMA InHandKept ==
    ASSUME InHand, \A v \in Workers : Keeps(v),
           \A v \in Workers : Delivering(v)' =>
               LET j == workers[v].job IN j \in DOMAIN jobs' /\ jobs'[j] = jobs[j],
           \A v \in Workers : Fanning(v)' =>
               LET e == workers[v].event IN e \in DOMAIN fans' /\ fans'[e] = fans[e]
    PROVE  InHand'
<1>1. ASSUME NEW v \in Workers PROVE HasJob(v)' /\ HasFan(v)'
  BY DEF InHand, HasJob, HasFan, Keeps
<1>2. ASSUME NEW v \in Workers, NEW u \in Workers, v # u PROVE Apart(v, u)'
  BY <1>2 DEF InHand, Apart, Keeps
<1> QED  BY <1>1, <1>2 DEF InHand

\* The jobs and fan-outs somebody has in hand stay as they are.
LEMMA QueueKept ==
    ASSUME InHand, \A v \in Workers : Keeps(v),
           \A j \in DOMAIN jobs : jobs[j].state = "active" => j \in DOMAIN jobs' /\ jobs'[j] = jobs[j],
           \A e \in DOMAIN fans : fans[e].state = "active" => e \in DOMAIN fans' /\ fans'[e] = fans[e]
    PROVE  InHand'
<1>1. ASSUME NEW v \in Workers, Delivering(v)'
      PROVE  workers[v].job \in DOMAIN jobs' /\ jobs'[workers[v].job] = jobs[workers[v].job]
  BY <1>1 DEF Keeps, InHand, HasJob
<1>2. ASSUME NEW v \in Workers, Fanning(v)'
      PROVE  workers[v].event \in DOMAIN fans' /\ fans'[workers[v].event] = fans[workers[v].event]
  BY <1>2 DEF Keeps, InHand, HasFan
<1> QED  BY <1>1, <1>2, InHandKept

LEMMA SameKeeps ==
    ASSUME NEW v \in Workers, workers'[v] = workers[v]
    PROVE  Keeps(v)
BY DEF Keeps, Delivering, Fanning

\* A worker's own steps.
LEMMA StepInHand ==
    ASSUME Typed, InHand, NEW w \in Workers, Step(w)
    PROVE  InHand'
<1> DEFINE me == workers[w]
           now == workers'[w]
<1>0. workers \in [Workers -> Worker] /\ me \in Worker
  BY DEF Typed, TypeOK
<1>1. CASE UpsertRow(w)
  <2>1. PICK j, x : me.pc = "fan" /\ workers' = [workers EXCEPT ![w].pc = "enqueue", ![w].job = j, ![w].left = @ \ {x}]
    BY <1>1 DEF UpsertRow
  <2>2. now.pc = "enqueue" /\ now.event = me.event /\ now.owns = me.owns
    BY <1>0, <2>1 DEF Worker
  <2>3. \A v \in Workers \ {w} : workers'[v] = workers[v]
    BY <1>0, <2>1
  <2>4. \A v \in Workers : Keeps(v)
    BY <2>1, <2>2, <2>3, SameKeeps DEF Keeps, Delivering, Fanning
  <2> QED  BY <1>1, <2>4, QueueKept DEF UpsertRow
<1>2. CASE EnqueueRow(w)
  <2>1. me.pc = "enqueue" /\ workers' = [workers EXCEPT ![w].pc = "fan", ![w].job = None]
    BY <1>2 DEF EnqueueRow
  <2>2. now.pc = "fan" /\ now.event = me.event /\ now.owns = me.owns
    BY <1>0, <2>1 DEF Worker
  <2>3. \A v \in Workers \ {w} : workers'[v] = workers[v]
    BY <1>0, <2>1
  <2>4. \A v \in Workers : Keeps(v)
    BY <2>1, <2>2, <2>3, SameKeeps DEF Keeps, Delivering, Fanning
  <2>5. \A j \in DOMAIN jobs : j \in DOMAIN jobs' /\ jobs'[j] = jobs[j]
    BY <1>2 DEF EnqueueRow, Added, Put
  <2> QED  BY <1>2, <2>4, <2>5, QueueKept DEF EnqueueRow
<1>3. CASE Post(w) \/ Settle(w)
  <2>1. /\ me.pc \in {"post", "settle"}
        /\ \/ \E answer : workers' = [workers EXCEPT ![w].pc = "settle", ![w].outcome = answer]
           \/ workers' = [workers EXCEPT ![w].pc = "report"]
    BY <1>3 DEF Post, Settle
  <2>2. now.pc \in {"settle", "report"} /\ now.job = me.job /\ now.owns = me.owns /\ now.attempt = me.attempt
    BY <1>0, <2>1 DEF Worker
  <2>3. \A v \in Workers \ {w} : workers'[v] = workers[v]
    BY <1>0, <2>1
  <2>4. \A v \in Workers : Keeps(v)
    BY <2>1, <2>2, <2>3, SameKeeps DEF Keeps, Delivering, Fanning
  <2> QED  BY <1>3, <2>4, QueueKept DEF Post, Settle
<1>4. CASE FannedOut(w) \/ Report(w)
  <2>1. now.pc = "idle" /\ \A v \in Workers \ {w} : workers'[v] = workers[v]
    BY <1>0, <1>4 DEF FannedOut, Report, Idle
  <2>2. \A v \in Workers : Keeps(v)
    BY <2>1, SameKeeps DEF Keeps, Delivering, Fanning
  <2>3. \A v \in Workers : Delivering(v)' \/ Fanning(v)' => v # w
    BY <2>1 DEF Delivering, Fanning
  <2>4. CASE FannedOut(w)
    <3>1. /\ jobs' = jobs /\ Fanning(w)
          /\ DOMAIN fans' = DOMAIN fans /\ \A e \in DOMAIN fans \ {me.event} : fans'[e] = fans[e]
      BY <2>4 DEF FannedOut, Fanning
    <3>2. ASSUME NEW v \in Workers, Fanning(v)'
          PROVE  workers[v].event \in DOMAIN fans' /\ fans'[workers[v].event] = fans[workers[v].event]
      BY <2>2, <2>3, <3>1, <3>2 DEF InHand, HasFan, Apart, Keeps
    <3>3. ASSUME NEW v \in Workers, Delivering(v)'
          PROVE  workers[v].job \in DOMAIN jobs' /\ jobs'[workers[v].job] = jobs[workers[v].job]
      BY <2>2, <3>1, <3>3 DEF InHand, HasJob, Keeps
    <3> QED  BY <2>2, <3>2, <3>3, InHandKept
  <2>5. CASE Report(w)
    <3>1. /\ fans' = fans /\ Delivering(w)
          /\ DOMAIN jobs' = DOMAIN jobs /\ \A j \in DOMAIN jobs \ {me.job} : jobs'[j] = jobs[j]
      BY <2>5 DEF Report, Delivering
    <3>2. ASSUME NEW v \in Workers, Fanning(v)'
          PROVE  workers[v].event \in DOMAIN fans' /\ fans'[workers[v].event] = fans[workers[v].event]
      BY <2>2, <3>1, <3>2 DEF InHand, HasFan, Keeps
    <3>3. ASSUME NEW v \in Workers, Delivering(v)'
          PROVE  workers[v].job \in DOMAIN jobs' /\ jobs'[workers[v].job] = jobs[workers[v].job]
      BY <2>2, <2>3, <3>1, <3>3 DEF InHand, HasJob, Apart, Keeps
    <3> QED  BY <2>2, <3>2, <3>3, InHandKept
  <2> QED  BY <1>4, <2>4, <2>5
<1> QED  BY <1>1, <1>2, <1>3, <1>4 DEF Step

\* What taking a delivery does.
LEMMA TakesDelivery ==
    ASSUME Typed, NEW w \in Workers, NEW j \in DOMAIN jobs, LoadDelivery(w, j), ~alreadyDelivered(j[1])
    PROVE  /\ workers'[w].pc \in {"post", "settle"} /\ workers'[w].job = j /\ workers'[w].owns
           /\ workers'[w].attempt = jobs[j].made + 1 /\ workers'[w].history = rows[j[1]].history
           /\ \A v \in Workers \ {w} : workers'[v] = workers[v]
           /\ jobs[j].state = "waiting" /\ DOMAIN jobs' = DOMAIN jobs
           /\ jobs'[j].state = "active" /\ jobs'[j].made = jobs[j].made
           /\ \A k \in DOMAIN jobs \ {j} : jobs'[k] = jobs[k]
<1>1. workers \in [Workers -> Worker] /\ jobs[j] \in Job
  BY DEF Typed, TypeOK
<1>2. PICK place \in {"post", "settle"}, outcome \in {None, "disabled"} :
        workers' = [workers EXCEPT ![w] =
          [Idle EXCEPT !.pc = place, !.outcome = outcome, !.job = j, !.attempt = jobs[j].made + 1,
                       !.owns = TRUE, !.history = rows[j[1]].history]]
  <2>1. CASE ends[j[1][2]].enabled
    BY <2>1 DEF LoadDelivery
  <2>2. CASE ~ends[j[1][2]].enabled
    BY <2>2 DEF LoadDelivery
  <2> QED  BY <2>1, <2>2
<1>3. /\ workers'[w].pc = place /\ workers'[w].job = j /\ workers'[w].owns
      /\ workers'[w].attempt = jobs[j].made + 1 /\ workers'[w].history = rows[j[1]].history
      /\ \A v \in Workers \ {w} : workers'[v] = workers[v]
  BY <1>1, <1>2 DEF Idle
<1>4. jobs[j].state = "waiting" /\ jobs' = [jobs EXCEPT ![j].state = "active"]
  BY DEF LoadDelivery
<1> QED  BY <1>1, <1>3, <1>4 DEF Job

\* A worker that takes a job, which waited, so that nobody had it.
LEMMA TakeInHand ==
    ASSUME Typed, InHand, Take
    PROVE  InHand'
<1>0. workers \in [Workers -> Worker]
  BY DEF Typed, TypeOK
<1>1. ASSUME NEW w \in Workers, NEW e \in DOMAIN fans, LoadFanOut(w, e) PROVE InHand'
  <2> DEFINE now == workers'[w]
  <2>1. /\ now.pc = "fan" /\ now.event = e /\ now.owns
        /\ \A v \in Workers \ {w} : workers'[v] = workers[v]
    BY <1>0, <1>1 DEF LoadFanOut, Idle
  <2>2. /\ jobs' = jobs /\ fans[e].state = "waiting" /\ DOMAIN fans' = DOMAIN fans
        /\ fans'[e].state = "active" /\ \A f \in DOMAIN fans \ {e} : fans'[f] = fans[f]
    <3>1. fans[e] \in Job
      BY DEF Typed, TypeOK
    <3> QED  BY <1>1, <3>1 DEF LoadFanOut, Job
  <2>3. ASSUME NEW v \in Workers, v # w
        PROVE  HasJob(v)' /\ HasFan(v)' /\ Apart(v, w)' /\ Apart(w, v)'
    <3>1. HasJob(v)'
      BY <2>1, <2>2, <2>3 DEF InHand, HasJob, Delivering
    <3>2. Fanning(v) => workers[v].event # e /\ workers[v].event \in DOMAIN fans
      BY <2>2 DEF InHand, HasFan
    <3>3. HasFan(v)'
      BY <2>1, <2>2, <2>3, <3>2 DEF InHand, HasFan, Fanning
    <3>4. Apart(v, w)' /\ Apart(w, v)'
      BY <2>1, <2>3, <3>2 DEF Apart, Fanning, Delivering
    <3> QED  BY <3>1, <3>3, <3>4
  <2>4. HasJob(w)' /\ HasFan(w)'
    BY <2>1, <2>2 DEF HasJob, HasFan, Delivering, Fanning
  <2>5. ASSUME NEW v \in Workers, NEW u \in Workers, v # w, u # w, v # u PROVE Apart(v, u)'
    BY <2>1, <2>5 DEF InHand, Apart, Fanning, Delivering
  <2> QED  BY <2>3, <2>4, <2>5 DEF InHand
<1>2. ASSUME NEW w \in Workers, NEW j \in DOMAIN jobs, LoadDelivery(w, j) PROVE InHand'
  <2> DEFINE now == workers'[w]
  <2>0. jobs[j] \in Job
    BY DEF Typed, TypeOK
  <2>1. CASE alreadyDelivered(j[1])
    <3>1. workers' = workers /\ fans' = fans /\ jobs[j].state = "waiting"
          /\ jobs' = [jobs EXCEPT ![j].state = "done"]
      BY <1>2, <2>1 DEF LoadDelivery
    <3>2. \A v \in Workers : Keeps(v)
      BY <3>1, SameKeeps
    <3> QED  BY <3>1, <3>2, QueueKept
  <2>2. CASE ~alreadyDelivered(j[1])
    <3>1. /\ now.pc \in {"post", "settle"} /\ now.job = j /\ now.owns /\ now.attempt = jobs[j].made + 1
          /\ \A v \in Workers \ {w} : workers'[v] = workers[v]
      BY <1>2, <2>2, TakesDelivery
    <3>2. /\ fans' = fans /\ jobs[j].state = "waiting" /\ DOMAIN jobs' = DOMAIN jobs
          /\ jobs'[j].state = "active" /\ jobs'[j].made = jobs[j].made
          /\ \A k \in DOMAIN jobs \ {j} : jobs'[k] = jobs[k]
      BY <1>2, <2>2, TakesDelivery DEF LoadDelivery
    <3>3. ASSUME NEW v \in Workers, v # w
          PROVE  HasJob(v)' /\ HasFan(v)' /\ Apart(v, w)' /\ Apart(w, v)'
      <4>1. HasFan(v)'
        BY <3>1, <3>2, <3>3 DEF InHand, HasFan, Fanning
      <4>2. Delivering(v) => workers[v].job # j /\ workers[v].job \in DOMAIN jobs
        BY <3>2 DEF InHand, HasJob
      <4>3. HasJob(v)'
        BY <3>1, <3>2, <3>3, <4>2 DEF InHand, HasJob, Delivering
      <4>4. Apart(v, w)' /\ Apart(w, v)'
        BY <3>1, <3>3, <4>2 DEF Apart, Fanning, Delivering
      <4> QED  BY <4>1, <4>3, <4>4
    <3>4. HasJob(w)' /\ HasFan(w)'
      BY <3>1, <3>2 DEF HasJob, HasFan, Delivering, Fanning
    <3>5. ASSUME NEW v \in Workers, NEW u \in Workers, v # w, u # w, v # u PROVE Apart(v, u)'
      BY <3>1, <3>5 DEF InHand, Apart, Fanning, Delivering
    <3> QED  BY <3>3, <3>4, <3>5 DEF InHand
  <2> QED  BY <2>1, <2>2
<1> QED  BY <1>1, <1>2 DEF Take

\* Every step that is no fault.
LEMMA InHandStep ==
    ASSUME Typed, InHand, [Next]_vars, faults' = 0
    PROVE  InHand'
<1>1. ASSUME UNCHANGED <<workers, fans, jobs>> PROVE InHand'
  <2>1. \A v \in Workers : Keeps(v)
    BY <1>1, SameKeeps
  <2> QED  BY <1>1, <2>1, QueueKept
<1>2. ASSUME workers' = workers, NEW id, jobs' = Added(jobs, id), fans' = fans PROVE InHand'
  <2>1. \A v \in Workers : Keeps(v)
    BY <1>2, SameKeeps
  <2>2. \A j \in DOMAIN jobs : j \in DOMAIN jobs' /\ jobs'[j] = jobs[j]
    BY <1>2 DEF Added, Put
  <2> QED  BY <1>2, <2>1, <2>2, QueueKept
<1>3. ASSUME NEW e \in Events, Raise(e) PROVE InHand'
  <2>1. \A v \in Workers : Keeps(v)
    BY <1>3, SameKeeps DEF Raise
  <2>2. jobs' = jobs /\ \A f \in DOMAIN fans : f \in DOMAIN fans' /\ fans'[f] = fans[f]
    BY <1>3 DEF Raise, Added, Put
  <2> QED  BY <2>1, <2>2, QueueKept
<1>4. ASSUME NEW e \in DOMAIN fans, ExpireFanOut(e) PROVE InHand'
  <2>1. \A v \in Workers : Keeps(v)
    BY <1>4, SameKeeps DEF ExpireFanOut
  <2>2. jobs' = jobs /\ \A f \in DOMAIN fans : fans[f].state = "active" => f \in DOMAIN fans' /\ fans'[f] = fans[f]
    BY <1>4 DEF ExpireFanOut
  <2> QED  BY <2>1, <2>2, QueueKept
<1>5. ASSUME NEW j \in DOMAIN jobs, ExpireDelivery(j) PROVE InHand'
  <2>1. \A v \in Workers : Keeps(v)
    BY <1>5, SameKeeps DEF ExpireDelivery
  <2>2. fans' = fans /\ \A k \in DOMAIN jobs : jobs[k].state = "active" => k \in DOMAIN jobs' /\ jobs'[k] = jobs[k]
    BY <1>5 DEF ExpireDelivery
  <2> QED  BY <2>1, <2>2, QueueKept
<1>6. CASE Request
  BY <1>1, <1>2, <1>6 DEF Request, ResetRow, EnqueueAgain
<1>7. CASE \/ \E d \in Deliveries : AskRedelivery(d)
           \/ \E x \in Endpoints : Toggle(x)
           \/ UNCHANGED vars
  BY <1>1, <1>7 DEF AskRedelivery, Toggle, vars
<1> QED  BY <1>3, <1>4, <1>5, <1>6, <1>7, Calmly, StepInHand, TakeInHand


\* What is coming for a row still comes, where nothing that would bring it is gone.
LEMMA ComingKept ==
    ASSUME NEW d, Coming(d),
           \A j \in DOMAIN jobs : WaitsFor(j, d) => WaitsFor(j, d)' \/ Coming(d)',
           \A w \in Workers : IsAt(w, d) => IsAt(w, d)' \/ Coming(d)',
           \A w \in Workers : Queues(w, d) => Queues(w, d)' \/ Coming(d)',
           \A q \in requests : Resets(q, d) => q \in requests' \/ Coming(d)'
    PROVE  Coming(d)'
BY DEF Coming, WaitsFor, IsAt, Queues, Resets

\* The same, for a step of worker w.
LEMMA ComingBut ==
    ASSUME NEW d, Coming(d), NEW w \in Workers,
           \A v \in Workers \ {w} : workers'[v] = workers[v],
           \A j \in DOMAIN jobs : WaitsFor(j, d) => WaitsFor(j, d)' \/ Coming(d)',
           \A v \in Workers \ {w} : Queues(v, d) /\ workers[v].job \in DOMAIN jobs' => Coming(d)',
           IsAt(w, d) => IsAt(w, d)' \/ Coming(d)',
           Queues(w, d) => Coming(d)',
           requests' = requests
    PROVE  Coming(d)'
<1>1. \A v \in Workers : IsAt(v, d) => IsAt(v, d)' \/ Coming(d)'
  BY DEF IsAt, Unsettled
<1>2. \A v \in Workers : Queues(v, d) => Queues(v, d)' \/ Coming(d)'
  BY DEF Queues
<1> QED  BY <1>1, <1>2, ComingKept

LEMMA AttemptsNumber == MaxAttempts \in Nat
BY WebhookAssumption

\* A worker's own steps.
LEMMA StepCovered ==
    ASSUME Typed, InHand, Covered, NEW w \in Workers, Step(w)
    PROVE  Covered'
<1> DEFINE me == workers[w]
           now == workers'[w]
<1>0. workers \in [Workers -> Worker] /\ me \in Worker
  BY DEF Typed, TypeOK
<1>1. CASE UpsertRow(w)
  <2>1. PICK x \in me.left :
          /\ me.pc = "fan"
          /\ workers' = [workers EXCEPT ![w].pc = "enqueue", ![w].job = <<<<me.event, x>>, 0>>,
                                        ![w].left = @ \ {x}]
          /\ rows' = IF <<me.event, x>> \in DOMAIN rows THEN rows
                     ELSE Put(rows, <<me.event, x>>, [status |-> "PENDING", history |-> 0])
    BY <1>1 DEF UpsertRow
  <2>2. PICK d : d = <<me.event, x>>
    OBVIOUS
  <2>3. now.pc = "enqueue" /\ now.job = <<d, 0>> /\ \A v \in Workers \ {w} : workers'[v] = workers[v]
    BY <1>0, <2>1, <2>2 DEF Worker
  <2>4. jobs' = jobs /\ requests' = requests
    BY <1>1 DEF UpsertRow
  <2>5. ASSUME NEW c \in DOMAIN rows, rows[c].status = "PENDING" PROVE Coming(c)'
    <3>1. Coming(c)
      BY <2>5 DEF Covered
    <3>2. ~IsAt(w, c) /\ ~Queues(w, c)
      BY <2>1 DEF IsAt, Unsettled, Queues
    <3>3. \A v \in Workers : Queues(v, c) => workers[v].job \notin DOMAIN jobs'
      BY <2>4 DEF Queues
    <3> QED  BY <2>3, <2>4, <3>1, <3>2, <3>3, ComingBut DEF WaitsFor
  <2>6. ASSUME d \notin DOMAIN rows PROVE Coming(d)'
    <3>1. <<d, 0>> \notin DOMAIN jobs'
      BY <2>4, <2>6 DEF Typed
    <3> QED  BY <2>3, <3>1 DEF Coming, Queues
  <2>7. \A c \in DOMAIN rows' : (c \in DOMAIN rows /\ rows'[c] = rows[c]) \/ (c = d /\ d \notin DOMAIN rows)
    BY <2>1, <2>2 DEF Put
  <2> QED  BY <2>5, <2>6, <2>7 DEF Covered
<1>2. CASE EnqueueRow(w)
  <2>1. /\ me.pc = "enqueue" /\ workers' = [workers EXCEPT ![w].pc = "fan", ![w].job = None]
        /\ rows' = rows /\ requests' = requests /\ jobs' = Added(jobs, me.job)
    BY <1>2 DEF EnqueueRow
  <2>2. \A v \in Workers \ {w} : workers'[v] = workers[v]
    BY <1>0, <2>1 DEF Worker
  <2>3. ASSUME NEW c \in DOMAIN rows, Coming(c) PROVE Coming(c)'
    <3>1. \A j \in DOMAIN jobs : WaitsFor(j, c) => WaitsFor(j, c)'
      BY <2>1 DEF WaitsFor, Added, Put
    <3>2. ~IsAt(w, c)
      BY <2>1 DEF IsAt, Unsettled
    <3>3. Queues(w, c) => Coming(c)'
      <4>1. Queues(w, c) => me.job \in DOMAIN jobs' /\ jobs'[me.job] = FreshJob /\ me.job[1] = c
        BY <2>1 DEF Queues, Added, Put
      <4> QED  BY <4>1 DEF Coming, WaitsFor, FreshJob
    <3>4. ASSUME NEW v \in Workers, v # w, Queues(v, c) PROVE workers[v].job \notin DOMAIN jobs'
      <4>1. Fanning(w) /\ Fanning(v) /\ workers[v].event # me.event
        BY <2>1, <3>4 DEF InHand, Apart, Fanning, Queues
      <4>2. workers[v].job # me.job
        BY <2>1, <3>4, <4>1 DEF Typed, Holding, Queues
      <4> QED  BY <2>1, <3>4, <4>2 DEF Queues, Added, Put
    <3> QED  BY <2>1, <2>2, <2>3, <3>1, <3>2, <3>3, <3>4, ComingBut
  <2> QED  BY <2>1, <2>3 DEF Covered
<1>3. CASE FannedOut(w)
  <2>1. /\ me.pc = "fan" /\ rows' = rows /\ requests' = requests /\ jobs' = jobs
        /\ \A v \in Workers \ {w} : workers'[v] = workers[v]
    BY <1>0, <1>3 DEF FannedOut
  <2>2. \A c : ~IsAt(w, c) /\ ~Queues(w, c)
    BY <2>1 DEF IsAt, Unsettled, Queues
  <2>3. ASSUME NEW c, Coming(c) PROVE Coming(c)'
    BY <2>1, <2>2, <2>3, ComingBut DEF WaitsFor, Queues
  <2> QED  BY <2>1, <2>3 DEF Covered
<1>4. CASE Post(w)
  <2>1. PICK answer : /\ me.pc = "post" /\ rows' = rows /\ requests' = requests /\ jobs' = jobs
                      /\ workers' = [workers EXCEPT ![w].pc = "settle", ![w].outcome = answer]
    BY <1>4 DEF Post
  <2>2. now.pc = "settle" /\ now.job = me.job /\ \A v \in Workers \ {w} : workers'[v] = workers[v]
    BY <1>0, <2>1 DEF Worker
  <2>3. \A c : (IsAt(w, c) => IsAt(w, c)') /\ ~Queues(w, c)
    BY <2>1, <2>2 DEF IsAt, Unsettled, Queues
  <2>4. ASSUME NEW c, Coming(c) PROVE Coming(c)'
    BY <2>1, <2>2, <2>3, <2>4, ComingBut DEF WaitsFor, Queues
  <2> QED  BY <2>1, <2>4 DEF Covered
<1>5. CASE Settle(w)
  <2>1. PICK d : d = me.job[1]
    OBVIOUS
  <2>2. PICK row : row = [status |-> statusAfter(me.outcome, me.attempt), history |-> me.history + 1]
    OBVIOUS
  <2>3. /\ me.pc = "settle" /\ requests' = requests /\ jobs' = jobs
        /\ rows' = [rows EXCEPT ![d] = row] /\ workers' = [workers EXCEPT ![w].pc = "report"]
    BY <1>5, <2>1, <2>2 DEF Settle
  <2>4. /\ now.pc = "report" /\ now.job = me.job /\ now.outcome = me.outcome /\ now.attempt = me.attempt
        /\ \A v \in Workers \ {w} : workers'[v] = workers[v]
    BY <1>0, <2>3 DEF Worker
  <2>5. ASSUME row.status = "PENDING" PROVE Coming(d)'
    <3>1. me.outcome = "retryable" /\ ~(me.attempt >= MaxAttempts)
      BY <2>2, <2>5 DEF statusAfter, final
    <3>2. me.attempt < MaxAttempts
      BY <1>0, <3>1, AttemptsNumber DEF Worker
    <3> QED  BY <2>1, <2>4, <3>1, <3>2 DEF Coming, IsAt, Unsettled
  <2>6. ASSUME NEW c, c # d, Coming(c) PROVE Coming(c)'
    <3>1. ~IsAt(w, c) /\ ~Queues(w, c)
      BY <2>1, <2>3, <2>6 DEF IsAt, Queues
    <3> QED  BY <2>3, <2>4, <2>6, <3>1, ComingBut DEF WaitsFor, Queues
  <2> QED  BY <2>3, <2>5, <2>6 DEF Covered
<1>6. CASE Report(w)
  <2>1. /\ me.pc = "report" /\ rows' = rows /\ requests' = requests
        /\ \A v \in Workers \ {w} : workers'[v] = workers[v]
    BY <1>0, <1>6 DEF Report
  <2>2. /\ me.owns /\ me.job \in DOMAIN jobs /\ jobs[me.job].state = "active"
        /\ me.attempt = jobs[me.job].made + 1
    BY <2>1 DEF InHand, HasJob, Delivering
  <2>3. DOMAIN jobs' = DOMAIN jobs /\ \A j \in DOMAIN jobs \ {me.job} : jobs'[j] = jobs[j]
    BY <1>6 DEF Report
  <2>4. ASSUME NEW c, Coming(c) PROVE Coming(c)'
    <3>1. \A j \in DOMAIN jobs : WaitsFor(j, c) => WaitsFor(j, c)'
      BY <2>2, <2>3 DEF WaitsFor
    <3>2. IsAt(w, c) => Coming(c)'
      <4> SUFFICES ASSUME IsAt(w, c) PROVE Coming(c)'
        OBVIOUS
      <4>1. me.outcome = "retryable" /\ me.attempt < MaxAttempts /\ me.job[1] = c
        BY <2>1 DEF IsAt, Unsettled
      <4>2. jobs'[me.job] = Retried(jobs[me.job], MaxAttempts)
        BY <1>6, <2>2, <4>1 DEF Report
      <4>3. jobs[me.job] \in Job /\ ~(jobs[me.job].made + 1 >= MaxAttempts)
        <5>1. jobs[me.job] \in Job
          BY <2>2 DEF Typed, TypeOK
        <5> QED  BY <2>2, <4>1, <5>1, AttemptsNumber DEF Job
      <4>4. jobs'[me.job].state = "waiting"
        BY <4>2, <4>3 DEF Retried, Job
      <4> QED  BY <2>2, <2>3, <4>1, <4>4 DEF Coming, WaitsFor
    <3>3. ~Queues(w, c)
      BY <2>1 DEF Queues
    <3> QED  BY <2>1, <2>3, <2>4, <3>1, <3>2, <3>3, ComingBut DEF Queues
  <2> QED  BY <2>1, <2>4 DEF Covered
<1> QED  BY <1>1, <1>2, <1>3, <1>4, <1>5, <1>6 DEF Step


\* Every step that is no fault.
LEMMA CoveredStep ==
    ASSUME Typed, Numbered, InHand, Covered, [Next]_vars, faults' = 0
    PROVE  Covered'
<1>0. workers \in [Workers -> Worker]
  BY DEF Typed, TypeOK
<1>1. ASSUME rows' = rows, workers' = workers, jobs' = jobs, requests \subseteq requests' PROVE Covered'
  BY <1>1 DEF Covered, Coming, WaitsFor, IsAt, Unsettled, Queues, Resets
<1>2. ASSUME NEW w \in Workers, NEW e \in DOMAIN fans, LoadFanOut(w, e) PROVE Covered'
  <2>1. workers[w].pc = "idle" /\ rows' = rows /\ requests' = requests /\ jobs' = jobs
        /\ \A v \in Workers \ {w} : workers'[v] = workers[v]
    BY <1>0, <1>2 DEF LoadFanOut
  <2>2. \A c : ~IsAt(w, c) /\ ~Queues(w, c)
    BY <2>1 DEF IsAt, Unsettled, Queues
  <2>3. ASSUME NEW c, Coming(c) PROVE Coming(c)'
    BY <2>1, <2>2, <2>3, ComingBut DEF WaitsFor, Queues
  <2> QED  BY <2>1, <2>3 DEF Covered
<1>3. ASSUME NEW w \in Workers, NEW j \in DOMAIN jobs, LoadDelivery(w, j) PROVE Covered'
  <2>0. rows' = rows /\ requests' = requests /\ workers[w].pc = "idle"
    BY <1>3 DEF LoadDelivery
  <2>1. CASE alreadyDelivered(j[1])
    <3>1. workers' = workers /\ DOMAIN jobs' = DOMAIN jobs /\ \A k \in DOMAIN jobs \ {j} : jobs'[k] = jobs[k]
      BY <1>3, <2>1 DEF LoadDelivery
    <3>2. ASSUME NEW c \in DOMAIN rows, rows[c].status = "PENDING" PROVE Coming(c)'
      <4>1. Coming(c) /\ c # j[1]
        BY <2>1, <3>2 DEF Covered, alreadyDelivered
      <4> QED  BY <2>0, <3>1, <4>1, ComingKept DEF WaitsFor, IsAt, Unsettled, Queues, Resets
    <3> QED  BY <2>0, <3>2 DEF Covered
  <2>2. CASE ~alreadyDelivered(j[1])
    <3>1. /\ workers'[w].pc \in {"post", "settle"} /\ workers'[w].job = j
          /\ \A v \in Workers \ {w} : workers'[v] = workers[v]
          /\ DOMAIN jobs' = DOMAIN jobs /\ \A k \in DOMAIN jobs \ {j} : jobs'[k] = jobs[k]
      BY <1>3, <2>2, TakesDelivery
    <3>2. Coming(j[1])'
      BY <3>1 DEF Coming, IsAt, Unsettled
    <3>3. ASSUME NEW c, Coming(c) PROVE Coming(c)'
      <4>1. \A k \in DOMAIN jobs : WaitsFor(k, c) => WaitsFor(k, c)' \/ Coming(c)'
        BY <3>1, <3>2 DEF WaitsFor
      <4>2. ~IsAt(w, c) /\ ~Queues(w, c)
        BY <2>0 DEF IsAt, Unsettled, Queues
      <4> QED  BY <2>0, <3>1, <3>3, <4>1, <4>2, ComingBut DEF Queues
    <3> QED  BY <2>0, <3>3 DEF Covered
  <2> QED  BY <2>1, <2>2
<1>4. ASSUME NEW q \in requests, ResetRow(q) PROVE Covered'
  <2>1. PICK p : p = [q EXCEPT !.at = "reset"]
    OBVIOUS
  <2>2. p.at = "reset" /\ p.of = q.of
    BY <2>1 DEF Typed, TypeOK
  <2>3. /\ q.at = "checked" /\ requests' = (requests \ {q}) \cup {p}
        /\ rows' = [rows EXCEPT ![q.of].status = "PENDING"] /\ workers' = workers /\ jobs' = jobs
    BY <1>4, <2>1 DEF ResetRow
  <2>4. Coming(q.of)'
    BY <2>2, <2>3 DEF Coming, Resets
  <2>5. ASSUME NEW c, Coming(c) PROVE Coming(c)'
    BY <2>3, <2>5, ComingKept DEF WaitsFor, IsAt, Unsettled, Queues, Resets
  <2> QED  BY <2>3, <2>4, <2>5 DEF Covered
<1>5. ASSUME NEW q \in requests, EnqueueAgain(q) PROVE Covered'
  <2>1. PICK id : id = <<q.of, q.n>>
    OBVIOUS
  <2>2. rows' = rows /\ workers' = workers /\ requests' = requests \ {q} /\ jobs' = Added(jobs, id)
    BY <1>5, <2>1 DEF EnqueueAgain
  <2>3. id \notin DOMAIN jobs /\ 0 < q.n
    BY <2>1 DEF Numbered
  <2>4. jobs'[id].state = "waiting" /\ DOMAIN jobs' = DOMAIN jobs \cup {id}
        /\ \A j \in DOMAIN jobs : jobs'[j] = jobs[j]
    BY <2>2, <2>3 DEF Added, Put, FreshJob
  <2>5. Coming(q.of)'
    BY <2>1, <2>4 DEF Coming, WaitsFor
  <2>6. ASSUME NEW c, Coming(c) PROVE Coming(c)'
    <3>1. \A w \in Workers : Queues(w, c) => Queues(w, c)'
      <4>1. \A w \in Workers : workers[w].pc = "enqueue" => workers[w].job # id
        BY <2>1, <2>3 DEF Typed, Holding
      <4> QED  BY <2>2, <2>4, <4>1 DEF Queues
    <3>2. \A w \in Workers : IsAt(w, c) => IsAt(w, c)'
      BY <2>2 DEF IsAt, Unsettled
    <3>3. \A j \in DOMAIN jobs : WaitsFor(j, c) => WaitsFor(j, c)'
      BY <2>4 DEF WaitsFor
    <3>4. \A p \in requests : Resets(p, c) => p \in requests' \/ Coming(c)'
      BY <2>2, <2>5 DEF Resets
    <3> QED  BY <2>6, <3>1, <3>2, <3>3, <3>4, ComingKept
  <2> QED  BY <2>2, <2>6 DEF Covered
<1>6. ASSUME NEW j \in DOMAIN jobs, ExpireDelivery(j) PROVE Covered'
  <2>1. /\ rows' = rows /\ workers' = workers /\ requests' = requests
        /\ jobs[j].state # "waiting" /\ DOMAIN jobs' = DOMAIN jobs \ {j}
        /\ \A k \in DOMAIN jobs \ {j} : jobs'[k] = jobs[k]
    BY <1>6 DEF ExpireDelivery
  <2>2. ASSUME NEW c, Coming(c) PROVE Coming(c)'
    BY <2>1, <2>2, ComingKept DEF WaitsFor, IsAt, Unsettled, Queues, Resets
  <2> QED  BY <2>1, <2>2 DEF Covered
<1>7. CASE Take \/ Request
  BY <1>2, <1>3, <1>4, <1>5, <1>7 DEF Take, Request
<1>8. CASE \/ \E e \in Events : Raise(e)
           \/ \E d \in Deliveries : AskRedelivery(d)
           \/ \E x \in Endpoints : Toggle(x)
           \/ \E e \in DOMAIN fans : ExpireFanOut(e)
           \/ UNCHANGED vars
  BY <1>1, <1>8 DEF Raise, AskRedelivery, Toggle, ExpireFanOut, vars
<1> QED  BY <1>6, <1>7, <1>8, Calmly, StepCovered

Calm == faults = 0 => InHand /\ Covered

LEMMA CalmStep == Typed /\ Numbered /\ Calm /\ [Next]_vars => Calm'
<1> SUFFICES ASSUME Typed, Numbered, Calm, [Next]_vars, faults' = 0 PROVE (InHand /\ Covered)'
  BY DEF Calm
<1>1. InHand /\ Covered
  BY Calmly DEF Calm
<1> QED  BY <1>1, InHandStep, CoveredStep

LEMMA NumberedInit == Init => Numbered /\ Calm
BY DEF Init, Numbered, Calm, InHand, HasJob, HasFan, Apart, Covered, Idle, Fanning, Delivering

\* What is coming for a row is a job, a request or a fan-out.
LEMMA ComingHasJob ==
    ASSUME Typed, InHand, Covered
    PROVE  PendingHasJob
<1> SUFFICES ASSUME NEW d \in Deliveries, pending(d)
             PROVE  \/ \E j \in DOMAIN jobs : j[1] = d /\ jobs[j].state \in {"waiting", "active"}
                    \/ \E q \in requests : q.of = d /\ q.at = "reset"
                    \/ \E e \in DOMAIN fans : e = d[1] /\ fans[e].state \in {"waiting", "active"}
  BY DEF PendingHasJob
<1>1. Coming(d)
  BY DEF Covered, pending
<1>2. ASSUME NEW w \in Workers, IsAt(w, d)
      PROVE  workers[w].job \in DOMAIN jobs /\ workers[w].job[1] = d /\ jobs[workers[w].job].state = "active"
  BY <1>2 DEF InHand, HasJob, Delivering, IsAt, Unsettled
<1>3. ASSUME NEW w \in Workers, Queues(w, d)
      PROVE  workers[w].event \in DOMAIN fans /\ workers[w].event = d[1] /\ fans[workers[w].event].state = "active"
  BY <1>3 DEF InHand, HasFan, Fanning, Queues, Typed, Holding
<1> QED  BY <1>1, <1>2, <1>3 DEF Coming, WaitsFor, Resets

\* As long as nothing is interrupted or lost, a pending delivery has a job, or
\* somebody about to queue one: under any number of raises, redeliveries and workers.
THEOREM PendingIsCarried == Spec => [](faults = 0 => PendingHasJob)
<1>1. Typed /\ Calm => (faults = 0 => PendingHasJob)
  BY ComingHasJob DEF Calm
<1> QED  BY HealthInit, HealthStep, TypedInit, TypedStep, NumberedInit, NumberedStep, CalmStep,
            <1>1, PTL DEF Spec

----------------------------------------------------------------------------
(* Who has a job in hand, whatever is interrupted.                         *)

\* The worker whose job it is; one that lost its lock goes on, but owns nothing.
Owner(w, j) == Delivering(w) /\ workers[w].owns /\ workers[w].job = j
Spreads(w, e) == Fanning(w) /\ workers[w].owns /\ workers[w].event = e

\* Whatever is interrupted, a job in hand is active and has one owner.
Owned ==
    /\ \A w \in Workers : \A j : Owner(w, j) => j \in DOMAIN jobs /\ jobs[j].state = "active"
    /\ \A w \in Workers : \A e : Spreads(w, e) => e \in DOMAIN fans /\ fans[e].state = "active"
    /\ \A w, v \in Workers : \A j : Owner(w, j) /\ Owner(v, j) => w = v
    /\ \A w, v \in Workers : \A e : Spreads(w, e) /\ Spreads(v, e) => w = v

Others(w) == \A v \in Workers \ {w} : workers'[v] = workers[v]

\* What each step does to the worker that takes it.
LEMMA UpsertMoves ==
    ASSUME Typed, NEW w \in Workers, UpsertRow(w)
    PROVE  /\ Others(w) /\ workers[w].pc = "fan" /\ workers'[w].pc = "enqueue"
           /\ workers'[w].owns = workers[w].owns /\ workers'[w].event = workers[w].event
           /\ \E x \in workers[w].left :
                /\ workers'[w].left = workers[w].left \ {x}
                /\ workers'[w].job = <<<<workers[w].event, x>>, 0>>
                /\ rows' = IF <<workers[w].event, x>> \in DOMAIN rows THEN rows
                           ELSE Put(rows, <<workers[w].event, x>>, [status |-> "PENDING", history |-> 0])
<1>1. workers \in [Workers -> Worker] /\ workers[w] \in Worker
  BY DEF Typed, TypeOK
<1>2. PICK x \in workers[w].left :
        /\ workers' = [workers EXCEPT ![w].pc = "enqueue", ![w].job = <<<<workers[w].event, x>>, 0>>,
                                      ![w].left = @ \ {x}]
        /\ rows' = IF <<workers[w].event, x>> \in DOMAIN rows THEN rows
                   ELSE Put(rows, <<workers[w].event, x>>, [status |-> "PENDING", history |-> 0])
  BY DEF UpsertRow
<1>3. workers[w].pc = "fan"
  BY DEF UpsertRow
<1>4. /\ workers'[w].pc = "enqueue" /\ workers'[w].owns = workers[w].owns
      /\ workers'[w].event = workers[w].event /\ workers'[w].left = workers[w].left \ {x}
      /\ workers'[w].job = <<<<workers[w].event, x>>, 0>>
  BY <1>1, <1>2 DEF Worker
<1>5. Others(w)
  BY <1>1, <1>2 DEF Others
<1> QED  BY <1>2, <1>3, <1>4, <1>5

LEMMA LeaveMoves ==
    ASSUME Typed, NEW w \in Workers, EnqueueRow(w) \/ LoseRow(w)
    PROVE  /\ Others(w) /\ workers[w].pc = "enqueue" /\ workers'[w].pc = "fan"
           /\ workers'[w].owns = workers[w].owns /\ workers'[w].event = workers[w].event
           /\ workers'[w].left = workers[w].left
<1>1. workers \in [Workers -> Worker] /\ workers[w] \in Worker
  BY DEF Typed, TypeOK
<1>2. workers' = [workers EXCEPT ![w].pc = "fan", ![w].job = None] /\ workers[w].pc = "enqueue"
  BY DEF EnqueueRow, LoseRow
<1> QED  BY <1>1, <1>2 DEF Worker, Others

LEMMA IdleMoves ==
    ASSUME Typed, NEW w \in Workers, FannedOut(w) \/ Report(w) \/ Throw(w) \/ Kill(w)
    PROVE  Others(w) /\ workers[w].pc # "idle" /\ workers'[w].pc = "idle" /\ ~workers'[w].owns
<1>1. workers \in [Workers -> Worker]
  BY DEF Typed, TypeOK
<1>2. workers' = [workers EXCEPT ![w] = Idle] /\ workers[w].pc # "idle"
  BY DEF FannedOut, Report, Throw, Kill, Interrupted
<1> QED  BY <1>1, <1>2 DEF Idle, Others

LEMMA FanMoves ==
    ASSUME Typed, NEW w \in Workers, NEW e \in DOMAIN fans, LoadFanOut(w, e)
    PROVE  /\ Others(w) /\ workers[w].pc = "idle" /\ workers'[w].pc = "fan"
           /\ workers'[w].owns /\ workers'[w].event = e
           /\ fans[e].state = "waiting" /\ DOMAIN fans' = DOMAIN fans /\ fans'[e].state = "active"
           /\ \A f \in DOMAIN fans \ {e} : fans'[f] = fans[f]
<1>1. workers \in [Workers -> Worker] /\ fans[e] \in Job
  BY DEF Typed, TypeOK
<1> QED  BY <1>1 DEF LoadFanOut, Idle, Others, Job

LEMMA PostMoves ==
    ASSUME Typed, NEW w \in Workers, Post(w)
    PROVE  /\ Others(w) /\ workers[w].pc = "post" /\ workers'[w].pc = "settle"
           /\ workers'[w].owns = workers[w].owns /\ workers'[w].job = workers[w].job
           /\ \/ workers'[w].outcome # "accepted" /\ successes' = successes
              \/ workers'[w].outcome = "accepted" /\ successes' = [successes EXCEPT ![workers[w].job[1]] = @ + 1]
<1>1. workers \in [Workers -> Worker] /\ workers[w] \in Worker
  BY DEF Typed, TypeOK
<1>2. PICK answer \in {"accepted", "retryable", "refused"} :
        /\ workers' = [workers EXCEPT ![w].pc = "settle", ![w].outcome = answer]
        /\ successes' = IF answer # "accepted" THEN successes
                        ELSE [successes EXCEPT ![workers[w].job[1]] = @ + 1]
  BY DEF Post
<1>3. /\ workers'[w].pc = "settle" /\ workers'[w].owns = workers[w].owns
      /\ workers'[w].job = workers[w].job /\ workers'[w].outcome = answer
  BY <1>1, <1>2 DEF Worker
<1>4. Others(w) /\ workers[w].pc = "post"
  BY <1>1, <1>2 DEF Others, Post
<1> QED  BY <1>2, <1>3, <1>4

LEMMA SettleMoves ==
    ASSUME Typed, NEW w \in Workers, Settle(w)
    PROVE  /\ Others(w) /\ workers[w].pc = "settle" /\ workers'[w].pc = "report"
           /\ workers'[w].owns = workers[w].owns /\ workers'[w].job = workers[w].job
           /\ workers'[w].outcome = workers[w].outcome
           /\ DOMAIN rows' = DOMAIN rows
           /\ workers[w].outcome = "accepted" => rows'[workers[w].job[1]].status = "SUCCEEDED"
           /\ \A d \in DOMAIN rows \ {workers[w].job[1]} : rows'[d] = rows[d]
<1>1. workers \in [Workers -> Worker] /\ workers[w] \in Worker
  BY DEF Typed, TypeOK
<1>2. workers' = [workers EXCEPT ![w].pc = "report"] /\ workers[w].pc = "settle"
  BY DEF Settle
<1>3. PICK row : row = [status |-> statusAfter(workers[w].outcome, workers[w].attempt),
                        history |-> workers[w].history + 1]
  OBVIOUS
<1>4. rows' = [rows EXCEPT ![workers[w].job[1]] = row]
  BY <1>3 DEF Settle
<1>5. workers[w].job[1] \in DOMAIN rows
  BY <1>2 DEF Typed, Holding, Delivering
<1>6. workers[w].outcome = "accepted" => row.status = "SUCCEEDED"
  BY <1>3 DEF statusAfter
<1>7. DOMAIN rows' = DOMAIN rows /\ rows'[workers[w].job[1]] = row
  BY <1>4, <1>5
<1>8. \A d \in DOMAIN rows \ {workers[w].job[1]} : rows'[d] = rows[d]
  BY <1>4
<1>9. /\ workers'[w].pc = "report" /\ workers'[w].owns = workers[w].owns
      /\ workers'[w].job = workers[w].job /\ workers'[w].outcome = workers[w].outcome
  BY <1>1, <1>2 DEF Worker
<1>10. Others(w)
  BY <1>1, <1>2 DEF Others
<1> QED  BY <1>2, <1>6, <1>7, <1>8, <1>9, <1>10

LEMMA StallMoves ==
    ASSUME Typed, NEW w \in Workers, Stall(w)
    PROVE  /\ Others(w) /\ workers[w].owns /\ ~workers'[w].owns
           /\ workers'[w].pc = workers[w].pc /\ workers'[w].event = workers[w].event
           /\ workers'[w].left = workers[w].left /\ workers'[w].job = workers[w].job
           /\ workers'[w].outcome = workers[w].outcome
<1>1. workers \in [Workers -> Worker] /\ workers[w] \in Worker
  BY DEF Typed, TypeOK
<1>2. workers' = [workers EXCEPT ![w].owns = FALSE] /\ workers[w].owns
  BY DEF Stall
<1> QED  BY <1>1, <1>2 DEF Worker, Others

\* What an interruption does to the queue: the job of the worker it hits, no other.
LEMMA InterruptMoves ==
    ASSUME Typed, NEW w \in Workers, Throw(w) \/ Kill(w) \/ Stall(w)
    PROVE  /\ faults' = faults + 1 /\ UNCHANGED <<rows, requests, raises, redeliveries, successes>>
           /\ DOMAIN jobs' = DOMAIN jobs /\ DOMAIN fans' = DOMAIN fans
           /\ \A j \in DOMAIN jobs : ~Owner(w, j) => jobs'[j] = jobs[j]
           /\ \A e \in DOMAIN fans : ~Spreads(w, e) => fans'[e] = fans[e]
<1> DEFINE me == workers[w]
<1>1. PICK threw \in BOOLEAN, goesOn \in BOOLEAN : Interrupted(w, threw, goesOn)
  BY DEF Throw, Kill, Stall
<1>2. faults' = faults + 1 /\ UNCHANGED <<rows, requests, raises, redeliveries, successes>>
  BY <1>1 DEF Throw, Kill, Stall, Fault, Interrupted, counts, seen
<1>3. me.pc # "idle" /\ me \in Worker /\ None \notin Events
  BY <1>1, WebhookAssumption DEF Interrupted, Typed, TypeOK
<1>4. \/ fans' = fans
      \/ Spreads(w, me.event) /\ \E job : fans' = [fans EXCEPT ![me.event] = job]
  BY <1>1, <1>3 DEF Interrupted, Typed, Holding, Fanning, Delivering, Spreads, Worker
<1>5. \/ jobs' = jobs
      \/ Owner(w, me.job) /\ \E job : jobs' = [jobs EXCEPT ![me.job] = job]
  BY <1>1, <1>3 DEF Interrupted, Typed, Holding, Fanning, Delivering, Owner, Worker
<1> QED  BY <1>2, <1>4, <1>5

\* Owned is kept where every job and fan-out that is still in hand is as it was.
LEMMA OwnedKept ==
    ASSUME Owned,
           \A v \in Workers : \A j : Owner(v, j)' => Owner(v, j),
           \A v \in Workers : \A e : Spreads(v, e)' => Spreads(v, e),
           \A v \in Workers : \A j \in DOMAIN jobs :
               Owner(v, j)' /\ jobs[j].state = "active" => j \in DOMAIN jobs' /\ jobs'[j] = jobs[j],
           \A v \in Workers : \A e \in DOMAIN fans :
               Spreads(v, e)' /\ fans[e].state = "active" => e \in DOMAIN fans' /\ fans'[e] = fans[e]
    PROVE  Owned'
<1>1. ASSUME NEW v \in Workers, NEW j, Owner(v, j)' PROVE j \in DOMAIN jobs' /\ jobs'[j].state = "active"
  BY <1>1 DEF Owned
<1>2. ASSUME NEW v \in Workers, NEW e, Spreads(v, e)' PROVE e \in DOMAIN fans' /\ fans'[e].state = "active"
  BY <1>2 DEF Owned
<1>3. ASSUME NEW v \in Workers, NEW u \in Workers, NEW j, Owner(v, j)', Owner(u, j)' PROVE v = u
  BY <1>3 DEF Owned
<1>4. ASSUME NEW v \in Workers, NEW u \in Workers, NEW e, Spreads(v, e)', Spreads(u, e)' PROVE v = u
  BY <1>4 DEF Owned
<1> QED  BY <1>1, <1>2, <1>3, <1>4 DEF Owned

\* A worker that goes on with what it holds.
LEMMA OwnedOn ==
    ASSUME Owned, NEW w \in Workers, Others(w),
           \A j : Owner(w, j)' => Owner(w, j), \A e : Spreads(w, e)' => Spreads(w, e),
           \A j \in DOMAIN jobs : j \in DOMAIN jobs' /\ jobs'[j] = jobs[j],
           \A e \in DOMAIN fans : e \in DOMAIN fans' /\ fans'[e] = fans[e]
    PROVE  Owned'
<1>1. ASSUME NEW v \in Workers \ {w} PROVE /\ \A j : Owner(v, j)' => Owner(v, j)
                                          /\ \A e : Spreads(v, e)' => Spreads(v, e)
  BY DEF Others, Owner, Spreads, Delivering, Fanning
<1> QED  BY <1>1, OwnedKept

\* A worker that lets go of what it holds.
LEMMA OwnedOff ==
    ASSUME Owned, NEW w \in Workers, Others(w), ~workers'[w].owns,
           \A j \in DOMAIN jobs : ~Owner(w, j) => j \in DOMAIN jobs' /\ jobs'[j] = jobs[j],
           \A e \in DOMAIN fans : ~Spreads(w, e) => e \in DOMAIN fans' /\ fans'[e] = fans[e]
    PROVE  Owned'
<1>1. ASSUME NEW v \in Workers \ {w} PROVE /\ \A j : Owner(v, j)' => Owner(v, j) /\ ~Owner(w, j)
                                          /\ \A e : Spreads(v, e)' => Spreads(v, e) /\ ~Spreads(w, e)
  <2>1. /\ \A j : Owner(v, j)' => Owner(v, j)
        /\ \A e : Spreads(v, e)' => Spreads(v, e)
    BY DEF Others, Owner, Spreads, Delivering, Fanning
  <2> QED  BY <2>1 DEF Owned
<1>2. (\A j : ~Owner(w, j)') /\ \A e : ~Spreads(w, e)'
  BY DEF Owner, Spreads
<1> QED  BY <1>1, <1>2, OwnedKept

\* A job is taken that waited, so that nobody had it.
LEMMA OwnedTake ==
    ASSUME Typed, Owned, Take
    PROVE  Owned'
<1>1. ASSUME NEW w \in Workers, NEW e \in DOMAIN fans, LoadFanOut(w, e) PROVE Owned'
  <2>1. jobs' = jobs
    BY <1>1 DEF LoadFanOut
  <2>2. \A v \in Workers : ~Spreads(v, e)
    BY <1>1, FanMoves DEF Owned
  <2>3. ASSUME NEW v \in Workers \ {w}
        PROVE  /\ \A j : Owner(v, j)' = Owner(v, j)
               /\ \A f : Spreads(v, f)' = Spreads(v, f)
    BY <1>1, FanMoves DEF Others, Owner, Spreads, Delivering, Fanning
  <2>4. /\ \A j : ~Owner(w, j)'
        /\ \A f : Spreads(w, f)' <=> f = e
    BY <1>1, FanMoves DEF Owner, Spreads, Delivering, Fanning
  <2>5. ASSUME NEW v \in Workers, NEW j, Owner(v, j)'
        PROVE  Owner(v, j) /\ j \in DOMAIN jobs' /\ jobs'[j].state = "active"
    BY <2>1, <2>3, <2>4, <2>5 DEF Owned
  <2>6. ASSUME NEW v \in Workers, NEW f, Spreads(v, f)'
        PROVE  /\ f \in DOMAIN fans' /\ fans'[f].state = "active"
               /\ (v = w /\ f = e) \/ (v # w /\ f # e /\ Spreads(v, f))
    <3>1. CASE v = w
      BY <1>1, <2>4, <2>6, <3>1, FanMoves
    <3>2. CASE v # w
      <4>1. Spreads(v, f) /\ f # e
        BY <2>2, <2>3, <2>6, <3>2
      <4>2. f \in DOMAIN fans /\ fans[f].state = "active"
        BY <4>1 DEF Owned
      <4> QED  BY <1>1, <3>2, <4>1, <4>2, FanMoves
    <3> QED  BY <3>1, <3>2
  <2>7. ASSUME NEW v \in Workers, NEW u \in Workers, NEW j, Owner(v, j)', Owner(u, j)' PROVE v = u
    BY <2>5, <2>7 DEF Owned
  <2>8. ASSUME NEW v \in Workers, NEW u \in Workers, NEW f, Spreads(v, f)', Spreads(u, f)' PROVE v = u
    BY <2>6, <2>8 DEF Owned
  <2> QED  BY <2>5, <2>6, <2>7, <2>8 DEF Owned
<1>2. ASSUME NEW w \in Workers, NEW j \in DOMAIN jobs, LoadDelivery(w, j) PROVE Owned'
  <2>0. fans' = fans /\ jobs[j].state = "waiting" /\ workers[w].pc = "idle"
    BY <1>2 DEF LoadDelivery
  <2>1. CASE alreadyDelivered(j[1])
    <3>1. workers' = workers /\ jobs' = [jobs EXCEPT ![j].state = "done"]
      BY <1>2, <2>1 DEF LoadDelivery
    <3>2. /\ \A v \in Workers : \A k : Owner(v, k)' => Owner(v, k)
          /\ \A v \in Workers : \A e : Spreads(v, e)' => Spreads(v, e)
      BY <3>1 DEF Owner, Spreads, Delivering, Fanning
    <3> QED  BY <2>0, <3>1, <3>2, OwnedKept
  <2>2. CASE ~alreadyDelivered(j[1])
    <3>1. \A v \in Workers : ~Owner(v, j)
      BY <2>0 DEF Owned
    <3>2. /\ workers'[w].pc \in {"post", "settle"} /\ workers'[w].job = j /\ workers'[w].owns
          /\ Others(w) /\ DOMAIN jobs' = DOMAIN jobs /\ jobs'[j].state = "active"
          /\ \A k \in DOMAIN jobs \ {j} : jobs'[k] = jobs[k]
      BY <1>2, <2>2, TakesDelivery DEF Others
    <3>3. ASSUME NEW v \in Workers \ {w}
          PROVE  /\ \A k : Owner(v, k)' = Owner(v, k)
                 /\ \A f : Spreads(v, f)' = Spreads(v, f)
      BY <3>2 DEF Others, Owner, Spreads, Delivering, Fanning
    <3>4. /\ \A k : Owner(w, k)' <=> k = j
          /\ \A f : ~Spreads(w, f)'
      BY <3>2 DEF Owner, Spreads, Delivering, Fanning
    <3>5. ASSUME NEW v \in Workers, NEW f, Spreads(v, f)'
          PROVE  Spreads(v, f) /\ f \in DOMAIN fans' /\ fans'[f].state = "active"
      BY <2>0, <3>3, <3>4, <3>5 DEF Owned
    <3>6. ASSUME NEW v \in Workers, NEW k, Owner(v, k)'
          PROVE  /\ k \in DOMAIN jobs' /\ jobs'[k].state = "active"
                 /\ (v = w /\ k = j) \/ (v # w /\ k # j /\ Owner(v, k))
      <4>1. CASE v = w
        BY <3>2, <3>4, <3>6, <4>1
      <4>2. CASE v # w
        <5>1. Owner(v, k) /\ k # j
          BY <3>1, <3>3, <3>6, <4>2
        <5>2. k \in DOMAIN jobs /\ jobs[k].state = "active"
          BY <5>1 DEF Owned
        <5> QED  BY <3>2, <4>2, <5>1, <5>2
      <4> QED  BY <4>1, <4>2
    <3>7. ASSUME NEW v \in Workers, NEW u \in Workers, NEW k, Owner(v, k)', Owner(u, k)' PROVE v = u
      BY <3>6, <3>7 DEF Owned
    <3>8. ASSUME NEW v \in Workers, NEW u \in Workers, NEW f, Spreads(v, f)', Spreads(u, f)' PROVE v = u
      BY <3>5, <3>8 DEF Owned
    <3> QED  BY <3>5, <3>6, <3>7, <3>8 DEF Owned
  <2> QED  BY <2>1, <2>2
<1> QED  BY <1>1, <1>2 DEF Take

\* A worker's own steps, and what interrupts it.
LEMMA OwnedMove ==
    ASSUME Typed, Owned, NEW w \in Workers,
           Step(w) \/ Throw(w) \/ Kill(w) \/ Stall(w) \/ LoseRow(w)
    PROVE  Owned'
<1>1. CASE UpsertRow(w)
  <2>1. jobs' = jobs /\ fans' = fans
    BY <1>1 DEF UpsertRow
  <2>2. (\A j : ~Owner(w, j)') /\ \A e : Spreads(w, e)' => Spreads(w, e)
    BY <1>1, UpsertMoves DEF Owner, Spreads, Delivering, Fanning
  <2> QED  BY <1>1, <2>1, <2>2, OwnedOn, UpsertMoves
<1>2. CASE EnqueueRow(w) \/ LoseRow(w)
  <2>1. fans' = fans /\ \A j \in DOMAIN jobs : j \in DOMAIN jobs' /\ jobs'[j] = jobs[j]
    BY <1>2 DEF EnqueueRow, LoseRow, Added, Put
  <2>2. (\A j : ~Owner(w, j)') /\ \A e : Spreads(w, e)' => Spreads(w, e)
    BY <1>2, LeaveMoves DEF Owner, Spreads, Delivering, Fanning
  <2> QED  BY <1>2, <2>1, <2>2, OwnedOn, LeaveMoves
<1>3. CASE Post(w)
  <2>1. jobs' = jobs /\ fans' = fans
    BY <1>3 DEF Post
  <2>2. (\A j : Owner(w, j)' => Owner(w, j)) /\ \A e : ~Spreads(w, e)'
    BY <1>3, PostMoves DEF Owner, Spreads, Delivering, Fanning
  <2> QED  BY <1>3, <2>1, <2>2, OwnedOn, PostMoves
<1>4. CASE Settle(w)
  <2>1. jobs' = jobs /\ fans' = fans
    BY <1>4 DEF Settle
  <2>2. (\A j : Owner(w, j)' => Owner(w, j)) /\ \A e : ~Spreads(w, e)'
    BY <1>4, SettleMoves DEF Owner, Spreads, Delivering, Fanning
  <2> QED  BY <1>4, <2>1, <2>2, OwnedOn, SettleMoves
<1>5. CASE FannedOut(w)
  <2>1. jobs' = jobs /\ \A e \in DOMAIN fans : ~Spreads(w, e) => e \in DOMAIN fans' /\ fans'[e] = fans[e]
    BY <1>5 DEF FannedOut, Spreads, Fanning
  <2> QED  BY <1>5, <2>1, OwnedOff, IdleMoves
<1>6. CASE Report(w)
  <2>1. fans' = fans /\ \A j \in DOMAIN jobs : ~Owner(w, j) => j \in DOMAIN jobs' /\ jobs'[j] = jobs[j]
    BY <1>6 DEF Report, Owner, Delivering
  <2> QED  BY <1>6, <2>1, OwnedOff, IdleMoves
<1>7. CASE Throw(w) \/ Kill(w)
  BY <1>7, OwnedOff, IdleMoves, InterruptMoves
<1>8. CASE Stall(w)
  BY <1>8, OwnedOff, StallMoves, InterruptMoves
<1> QED  BY <1>1, <1>2, <1>3, <1>4, <1>5, <1>6, <1>7, <1>8 DEF Step

LEMMA OwnedStep == Typed /\ Owned /\ [Next]_vars => Owned'
<1> SUFFICES ASSUME Typed, Owned, [Next]_vars PROVE Owned'
  OBVIOUS
<1>1. ASSUME workers' = workers,
             \A j \in DOMAIN jobs : jobs[j].state = "active" => j \in DOMAIN jobs' /\ jobs'[j] = jobs[j],
             \A e \in DOMAIN fans : fans[e].state = "active" => e \in DOMAIN fans' /\ fans'[e] = fans[e]
      PROVE  Owned'
  <2>1. /\ \A v \in Workers : \A k : Owner(v, k)' => Owner(v, k)
        /\ \A v \in Workers : \A e : Spreads(v, e)' => Spreads(v, e)
    BY <1>1 DEF Owner, Spreads, Delivering, Fanning
  <2> QED  BY <1>1, <2>1, OwnedKept
<1>2. ASSUME NEW q \in requests, ResetRow(q) \/ EnqueueAgain(q) \/ LoseAgain(q) PROVE Owned'
  BY <1>1, <1>2 DEF ResetRow, EnqueueAgain, LoseAgain, Added, Put
<1>3. ASSUME NEW e \in Events, Raise(e) PROVE Owned'
  BY <1>1, <1>3 DEF Raise, Added, Put
<1>4. ASSUME \/ \E d \in Deliveries : AskRedelivery(d)
             \/ \E x \in Endpoints : Toggle(x)
             \/ UNCHANGED vars
      PROVE  Owned'
  BY <1>1, <1>4 DEF AskRedelivery, Toggle, vars
<1>5. ASSUME NEW e \in DOMAIN fans, ExpireFanOut(e) PROVE Owned'
  BY <1>1, <1>5 DEF ExpireFanOut
<1>6. ASSUME NEW j \in DOMAIN jobs, ExpireDelivery(j) PROVE Owned'
  BY <1>1, <1>6 DEF ExpireDelivery
<1> QED  BY <1>2, <1>3, <1>4, <1>5, <1>6, OwnedTake, OwnedMove DEF Next, Request

----------------------------------------------------------------------------
(* HistoryWhole: at a row that nobody crossed there is one at a time that  *)
(* is to settle it, and that one copied the history as it stands.          *)

At(w, d) == unsettled(w) /\ workers[w].job[1] = d
For(q, d) == q \in requests /\ q.of = d

\* One job that waits, or one worker, or one request.
Alone(d) ==
    /\ \A i, j : WaitsFor(i, d) /\ WaitsFor(j, d) => i = j
    /\ \A w, v \in Workers : At(w, d) /\ At(v, d) => w = v
    /\ \A p, q : For(p, d) /\ For(q, d) => p = q
    /\ \A j : WaitsFor(j, d) => (\A w \in Workers : ~At(w, d)) /\ \A q : ~For(q, d)
    /\ \A w \in Workers : At(w, d) => \A q : ~For(q, d)

Story(d) == IF d \in DOMAIN rows THEN rows[d].history ELSE 0
Copies(w, d) == workers[w].pc \in {"post", "settle"} /\ workers[w].job[1] = d
OnRecord(d) ==
    /\ Story(d) = settled[d]
    /\ \A w \in Workers : Copies(w, d) => workers[w].owns /\ workers[w].history = Story(d)

\* An attempt is the one its job is at.
Counted == \A w \in Workers : \A j : Owner(w, j) => workers[w].attempt = jobs[j].made + 1

Solo(d) == Alone(d) /\ OnRecord(d)

LEMMA EngagedIs ==
    ASSUME NEW d
    PROVE  engaged(d) <=> \/ \E j : WaitsFor(j, d)
                          \/ \E w \in Workers : At(w, d)
                          \/ \E q : For(q, d)
BY DEF engaged, WaitsFor, At, For

\* Whoever is to settle the row was to settle it before.
LEMMA AloneKept ==
    ASSUME NEW d, Alone(d), \A j : WaitsFor(j, d)' => WaitsFor(j, d),
           \A w \in Workers : At(w, d)' => At(w, d), \A q : For(q, d)' => For(q, d)
    PROVE  Alone(d)'
BY DEF Alone

\* The only one to settle it is a job, a worker or a request.
LEMMA OnlyJob ==
    ASSUME NEW d, NEW i, \A j : WaitsFor(j, d)' => j = i,
           \A w \in Workers : ~At(w, d)', \A q : ~For(q, d)'
    PROVE  Alone(d)'
BY DEF Alone

LEMMA OnlyWorker ==
    ASSUME NEW d, NEW v \in Workers, \A j : ~WaitsFor(j, d)',
           \A w \in Workers : At(w, d)' => w = v, \A q : ~For(q, d)'
    PROVE  Alone(d)'
BY DEF Alone

LEMMA OnlyRequest ==
    ASSUME NEW d, NEW p, \A j : ~WaitsFor(j, d)',
           \A w \in Workers : ~At(w, d)', \A q : For(q, d)' => q = p
    PROVE  Alone(d)'
BY DEF Alone

\* The other workers are where they were.
LEMMA ElsewhereAt ==
    ASSUME NEW w \in Workers, Others(w), NEW d
    PROVE  \A v \in Workers \ {w} : /\ At(v, d)' = At(v, d) /\ Copies(v, d)' = Copies(v, d)
                                    /\ workers'[v] = workers[v]
BY DEF Others, At, Copies, unsettled

LEMMA SameAt ==
    ASSUME workers' = workers, NEW d
    PROVE  \A v \in Workers : /\ At(v, d)' = At(v, d) /\ Copies(v, d)' = Copies(v, d)
                              /\ workers'[v] = workers[v]
BY DEF At, Copies, unsettled

\* A record nobody writes, read by those who read it before.
LEMMA RecordKept ==
    ASSUME NEW d, OnRecord(d), Story(d)' = Story(d), settled'[d] = settled[d],
           \A v \in Workers : Copies(v, d)' =>
               Copies(v, d) /\ workers'[v].owns = workers[v].owns /\ workers'[v].history = workers[v].history
    PROVE  OnRecord(d)'
BY DEF OnRecord

\* What a worker that POSTs and settles takes along.
LEMMA TakesAlong ==
    ASSUME Typed, NEW w \in Workers, Post(w) \/ Settle(w)
    PROVE  /\ Others(w) /\ workers'[w].owns = workers[w].owns /\ workers'[w].job = workers[w].job
           /\ workers'[w].attempt = workers[w].attempt /\ workers'[w].history = workers[w].history
<1>1. workers \in [Workers -> Worker] /\ workers[w] \in Worker
  BY DEF Typed, TypeOK
<1>2. \/ \E answer : workers' = [workers EXCEPT ![w].pc = "settle", ![w].outcome = answer]
      \/ workers' = [workers EXCEPT ![w].pc = "report"]
  BY DEF Post, Settle
<1> QED  BY <1>1, <1>2 DEF Worker, Others

LEMMA CountedElse ==
    ASSUME Owned, Counted, NEW w \in Workers, Others(w),
           \A j : Owner(w, j)' => workers'[w].attempt = jobs'[j].made + 1,
           \A j \in DOMAIN jobs : jobs[j].state = "active" /\ ~Owner(w, j) => jobs'[j] = jobs[j]
    PROVE  Counted'
<1> SUFFICES ASSUME NEW v \in Workers, NEW j, Owner(v, j)', v # w
             PROVE  workers'[v].attempt = jobs'[j].made + 1
  BY DEF Counted
<1>1. workers'[v] = workers[v] /\ Owner(v, j)
  BY DEF Others, Owner, Delivering
<1>2. j \in DOMAIN jobs /\ jobs[j].state = "active" /\ ~Owner(w, j)
  BY <1>1 DEF Owned
<1> QED  BY <1>1, <1>2 DEF Counted

LEMMA CountedStep == Typed /\ Owned /\ Counted /\ [Next]_vars => Counted'
<1> SUFFICES ASSUME Typed, Owned, Counted, [Next]_vars PROVE Counted'
  OBVIOUS
<1>1. ASSUME workers' = workers, \A j \in DOMAIN jobs : jobs[j].state = "active" => jobs'[j] = jobs[j]
      PROVE  Counted'
  <2>1. \A w \in Workers : \A j : Owner(w, j)' => Owner(w, j)
    BY <1>1 DEF Owner, Delivering
  <2> QED  BY <1>1, <2>1 DEF Counted, Owned
<1>2. ASSUME NEW w \in Workers, Step(w) PROVE Counted'
  <2>1. CASE UpsertRow(w)
    <3>1. Others(w) /\ jobs' = jobs /\ \A j : ~Owner(w, j)'
      BY <2>1, UpsertMoves DEF UpsertRow, Owner, Delivering
    <3> QED  BY <3>1, CountedElse
  <2>2. CASE EnqueueRow(w)
    <3>1. Others(w) /\ (\A j : ~Owner(w, j)') /\ \A j \in DOMAIN jobs : jobs'[j] = jobs[j]
      BY <2>2, LeaveMoves DEF EnqueueRow, Added, Put, Owner, Delivering
    <3> QED  BY <3>1, CountedElse
  <2>3. CASE FannedOut(w) \/ Report(w)
    <3>1. Others(w) /\ \A j : ~Owner(w, j)'
      BY <2>3, IdleMoves DEF Owner
    <3>2. \A j \in DOMAIN jobs : ~Owner(w, j) => jobs'[j] = jobs[j]
      BY <2>3 DEF FannedOut, Report, Owner, Delivering
    <3> QED  BY <3>1, <3>2, CountedElse
  <2>4. CASE Post(w) \/ Settle(w)
    <3>1. jobs' = jobs
      BY <2>4 DEF Post, Settle
    <3>2. \A j : Owner(w, j)' => Owner(w, j)
      BY <2>4, PostMoves, SettleMoves DEF Owner, Delivering
    <3> QED  BY <2>4, <3>1, <3>2, TakesAlong, CountedElse DEF Counted
  <2> QED  BY <1>2, <2>1, <2>2, <2>3, <2>4 DEF Step
<1>3. ASSUME NEW w \in Workers, Throw(w) \/ Kill(w) \/ Stall(w) \/ LoseRow(w) PROVE Counted'
  <2>1. Others(w) /\ \A j : ~Owner(w, j)'
    BY <1>3, IdleMoves, StallMoves, LeaveMoves DEF Owner, Delivering
  <2>2. \A j \in DOMAIN jobs : ~Owner(w, j) => jobs'[j] = jobs[j]
    BY <1>3, InterruptMoves DEF LoseRow
  <2> QED  BY <2>1, <2>2, CountedElse
<1>4. CASE Take
  <2>1. ASSUME NEW w \in Workers, NEW e \in DOMAIN fans, LoadFanOut(w, e) PROVE Counted'
    <3>1. Others(w) /\ jobs' = jobs /\ \A j : ~Owner(w, j)'
      BY <2>1, FanMoves DEF LoadFanOut, Owner, Delivering
    <3> QED  BY <3>1, CountedElse
  <2>2. ASSUME NEW w \in Workers, NEW j \in DOMAIN jobs, LoadDelivery(w, j) PROVE Counted'
    <3>1. CASE alreadyDelivered(j[1])
      BY <1>1, <2>2, <3>1 DEF LoadDelivery
    <3>2. CASE ~alreadyDelivered(j[1])
      <4>1. /\ Others(w) /\ workers'[w].job = j /\ workers'[w].attempt = jobs'[j].made + 1
            /\ jobs[j].state = "waiting" /\ \A k \in DOMAIN jobs \ {j} : jobs'[k] = jobs[k]
        BY <2>2, <3>2, TakesDelivery DEF Others
      <4>2. \A k : Owner(w, k)' => k = j
        BY <4>1 DEF Owner
      <4> QED  BY <4>1, <4>2, CountedElse
    <3> QED  BY <3>1, <3>2
  <2> QED  BY <1>4, <2>1, <2>2 DEF Take
<1>5. CASE Request \/ \E q \in requests : LoseAgain(q)
  BY <1>1, <1>5 DEF Request, ResetRow, EnqueueAgain, LoseAgain, Added, Put
<1>6. CASE \/ \E e \in Events : Raise(e)
           \/ \E d \in Deliveries : AskRedelivery(d)
           \/ \E x \in Endpoints : Toggle(x)
           \/ \E e \in DOMAIN fans : ExpireFanOut(e)
           \/ UNCHANGED vars
  BY <1>1, <1>6 DEF Raise, AskRedelivery, Toggle, ExpireFanOut, vars
<1>7. ASSUME NEW j \in DOMAIN jobs, ExpireDelivery(j) PROVE Counted'
  BY <1>1, <1>7 DEF ExpireDelivery
<1> QED  BY <1>2, <1>3, <1>4, <1>5, <1>6, <1>7 DEF Next

\* A worker leaves for a place where nothing is to be settled, and its job with it.
LEMMA LeavesSolo ==
    ASSUME NEW d, Solo(d), NEW w \in Workers, Others(w), ~unsettled(w)', ~Copies(w, d)',
           \A j : WaitsFor(j, d)' => WaitsFor(j, d), requests' = requests,
           Story(d)' = Story(d), settled'[d] = settled[d]
    PROVE  Solo(d)'
<1>1. \A v \in Workers : At(v, d)' => At(v, d)
  BY ElsewhereAt DEF At
<1>2. Alone(d)'
  BY <1>1, AloneKept DEF Solo, For
<1>3. OnRecord(d)'
  BY ElsewhereAt, RecordKept DEF Solo
<1> QED  BY <1>2, <1>3 DEF Solo

\* One that was to settle the row, or nobody, gives way to one job that waits.
LEMMA QueuesSolo ==
    ASSUME NEW d, Solo(d), NEW w \in Workers, NEW i, Others(w), ~unsettled(w)', ~Copies(w, d)',
           At(w, d) \/ ~engaged(d),
           \A j : WaitsFor(j, d)' => WaitsFor(j, d) \/ j = i, requests' = requests,
           Story(d)' = Story(d), settled'[d] = settled[d]
    PROVE  Solo(d)'
<1>1. (\A j : ~WaitsFor(j, d)) /\ (\A v \in Workers \ {w} : ~At(v, d)) /\ \A q : ~For(q, d)
  BY EngagedIs DEF Solo, Alone
<1>2. (\A v \in Workers : ~At(v, d)') /\ \A q : ~For(q, d)'
  BY <1>1, ElsewhereAt DEF At, For
<1>3. Alone(d)'
  BY <1>1, <1>2, OnlyJob
<1>4. OnRecord(d)'
  BY ElsewhereAt, RecordKept DEF Solo
<1> QED  BY <1>3, <1>4 DEF Solo

LEMMA FansSolo ==
    ASSUME Typed, NEW d \in Deliveries, d \notin crossed', Solo(d), NEW w \in Workers,
           UpsertRow(w) \/ EnqueueRow(w) \/ FannedOut(w) \/ LoseRow(w)
    PROVE  Solo(d)'
<1>1. Others(w) /\ ~unsettled(w)' /\ ~Copies(w, d)'
  BY UpsertMoves, LeaveMoves, IdleMoves DEF unsettled, Copies
<1>2. settled' = settled /\ requests' = requests
  BY DEF UpsertRow, EnqueueRow, FannedOut, LoseRow, seen
<1>3. CASE UpsertRow(w)
  <2>1. jobs' = jobs
    BY <1>3 DEF UpsertRow
  <2>2. Story(d)' = Story(d)
    <3>1. PICK e, row : /\ row.history = 0
                        /\ rows' = IF e \in DOMAIN rows THEN rows ELSE Put(rows, e, row)
      <4>1. [status |-> "PENDING", history |-> 0].history = 0
        OBVIOUS
      <4> QED  BY <1>3, <4>1, UpsertMoves
    <3>2. CASE e \in DOMAIN rows
      BY <3>1, <3>2 DEF Story
    <3>3. CASE e \notin DOMAIN rows
      <4>1. rows' = [z \in DOMAIN rows \cup {e} |-> IF z = e THEN row ELSE rows[z]]
        BY <3>1, <3>3 DEF Put
      <4>2. DOMAIN rows' = DOMAIN rows \cup {e} /\ rows'[e] = row /\ \A z \in DOMAIN rows : rows'[z] = rows[z]
        BY <3>3, <4>1
      <4> QED  BY <3>1, <3>3, <4>2 DEF Story
    <3> QED  BY <3>2, <3>3
  <2> QED  BY <1>1, <1>2, <2>1, <2>2, LeavesSolo DEF WaitsFor
<1>4. CASE EnqueueRow(w)
  <2>1. rows' = rows /\ jobs' = Added(jobs, workers[w].job)
    BY <1>4 DEF EnqueueRow
  <2>2. Story(d)' = Story(d)
    BY <2>1 DEF Story
  <2>3. CASE workers[w].job \in DOMAIN jobs \/ workers[w].job[1] # d
    <3>1. \A j : WaitsFor(j, d)' => WaitsFor(j, d)
      BY <2>1, <2>3 DEF WaitsFor, Added, Put
    <3> QED  BY <1>1, <1>2, <2>2, <3>1, LeavesSolo
  <2>4. CASE workers[w].job \notin DOMAIN jobs /\ workers[w].job[1] = d
    <3>1. ~engaged(d)
      BY <1>4, <2>4 DEF EnqueueRow
    <3>2. \A j : WaitsFor(j, d)' => WaitsFor(j, d) \/ j = workers[w].job
      BY <2>1 DEF WaitsFor, Added, Put
    <3> QED  BY <1>1, <1>2, <2>2, <3>1, <3>2, QueuesSolo
  <2> QED  BY <2>3, <2>4
<1>5. CASE FannedOut(w) \/ LoseRow(w)
  <2>1. rows' = rows /\ jobs' = jobs
    BY <1>5 DEF FannedOut, LoseRow
  <2> QED  BY <1>1, <1>2, <2>1, LeavesSolo DEF WaitsFor, Story
<1> QED  BY <1>3, <1>4, <1>5

LEMMA PostSolo ==
    ASSUME Typed, NEW d, Solo(d), NEW w \in Workers, Post(w)
    PROVE  Solo(d)'
<1>1. rows' = rows /\ jobs' = jobs /\ requests' = requests /\ settled' = settled
  BY DEF Post
<1>2. \A v \in Workers : At(v, d)' => At(v, d)
  BY PostMoves, ElsewhereAt DEF At, unsettled
<1>3. Alone(d)'
  BY <1>1, <1>2, AloneKept DEF Solo, For, WaitsFor
<1>4. \A v \in Workers : Copies(v, d)' =>
         Copies(v, d) /\ workers'[v].owns = workers[v].owns /\ workers'[v].history = workers[v].history
  BY PostMoves, TakesAlong, ElsewhereAt DEF Copies
<1> QED  BY <1>1, <1>3, <1>4, RecordKept DEF Solo, Story

LEMMA SettleSolo ==
    ASSUME Typed, NEW d \in Deliveries, Solo(d), NEW w \in Workers, Settle(w)
    PROVE  Solo(d)'
<1> DEFINE me == workers[w]
           e == me.job[1]
<1>1. jobs' = jobs /\ requests' = requests /\ me.pc = "settle"
  BY DEF Settle
<1>2. \A v \in Workers : At(v, d)' => At(v, d)
  BY <1>1, SettleMoves, ElsewhereAt DEF At, unsettled
<1>3. Alone(d)'
  BY <1>1, <1>2, AloneKept DEF Solo, For, WaitsFor
<1>4. \A v \in Workers \ {w} : /\ Copies(v, d)' => Copies(v, d)
                               /\ workers'[v] = workers[v]
  BY SettleMoves, ElsewhereAt
<1>5. ~Copies(w, d)'
  BY SettleMoves DEF Copies
<1>6. PICK n : n = me.history + 1
  OBVIOUS
<1>7. PICK status : rows' = [rows EXCEPT ![e] = [status |-> status, history |-> n]]
  BY <1>6 DEF Settle
<1>8. settled' = [settled EXCEPT ![e] = settled[e] + 1] /\ settled \in [Deliveries -> Nat]
  BY DEF Settle, Typed, TypeOK
<1>9. CASE d = e
  <2>1. Copies(w, d) /\ At(w, d)
    BY <1>1, <1>9 DEF Copies, At, unsettled
  <2>2. me.history = Story(d) /\ Story(d) = settled[d]
    BY <2>1 DEF Solo, OnRecord
  <2>3. d \in DOMAIN rows
    BY <1>1, <1>9 DEF Typed, Holding, Delivering
  <2>4. Story(d)' = n /\ settled'[d] = settled[d] + 1
    BY <1>7, <1>8, <1>9, <2>3 DEF Story
  <2>5. \A v \in Workers : ~Copies(v, d)'
    <3>1. \A v \in Workers \ {w} : ~At(v, d)
      BY <2>1 DEF Solo, Alone
    <3> QED  BY <1>4, <1>5, <3>1 DEF Copies, At, unsettled
  <2>6. OnRecord(d)'
    BY <1>6, <2>2, <2>4, <2>5 DEF OnRecord
  <2> QED  BY <1>3, <2>6 DEF Solo
<1>10. CASE d # e
  <2>1. Story(d)' = Story(d) /\ settled'[d] = settled[d]
    BY <1>7, <1>8, <1>10 DEF Story
  <2> QED  BY <1>3, <1>4, <1>5, <2>1, RecordKept DEF Solo
<1> QED  BY <1>9, <1>10

\* The job of an attempt that was the last is not handed out again.
LEMMA ReportSolo ==
    ASSUME Typed, Owned, Counted, NEW d \in Deliveries, Solo(d), NEW w \in Workers, Report(w)
    PROVE  Solo(d)'
<1> DEFINE me == workers[w]
<1>1. Others(w) /\ ~unsettled(w)' /\ ~Copies(w, d)'
  BY IdleMoves DEF unsettled, Copies
<1>2. rows' = rows /\ requests' = requests /\ settled' = settled /\ me.pc = "report"
  BY DEF Report, seen
<1>3. Story(d)' = Story(d) /\ settled'[d] = settled[d]
  BY <1>2 DEF Story
<1>4. \/ jobs' = jobs
      \/ me.owns /\ DOMAIN jobs' = DOMAIN jobs /\ \A j \in DOMAIN jobs \ {me.job} : jobs'[j] = jobs[j]
  BY DEF Report
<1>5. CASE jobs' = jobs \/ me.job[1] # d
  <2>1. \A j : WaitsFor(j, d)' => WaitsFor(j, d)
    BY <1>4, <1>5 DEF WaitsFor
  <2> QED  BY <1>1, <1>2, <1>3, <2>1, LeavesSolo
<1>6. CASE me.owns /\ me.job[1] = d /\ unsettled(w)
  <2>1. At(w, d)
    BY <1>6 DEF At
  <2>2. \A j : WaitsFor(j, d)' => WaitsFor(j, d) \/ j = me.job
    BY <1>4 DEF WaitsFor
  <2> QED  BY <1>1, <1>2, <1>3, <2>1, <2>2, QueuesSolo
<1>7. CASE me.owns /\ ~unsettled(w)
  <2>1. final(me.outcome, me.attempt) /\ me.outcome \in Outcomes
    BY <1>2, <1>7 DEF unsettled, Typed, Holding
  <2>2. Owner(w, me.job)
    BY <1>2, <1>7 DEF Owner, Delivering
  <2>3. me.job \in DOMAIN jobs /\ jobs[me.job] \in Job /\ me.attempt = jobs[me.job].made + 1
    BY <2>2 DEF Owned, Counted, Typed, TypeOK
  <2>4. jobs'[me.job].state # "waiting"
    <3>1. CASE me.outcome \in {"accepted", "disabled"}
      <4>1. jobs' = [jobs EXCEPT ![me.job].state = "done"]
        BY <1>7, <3>1 DEF Report
      <4> QED  BY <2>3, <4>1 DEF Job
    <3>2. CASE me.outcome = "refused"
      <4>1. jobs' = [jobs EXCEPT ![me.job].state = "failed"]
        BY <1>7, <3>2 DEF Report
      <4> QED  BY <2>3, <4>1 DEF Job
    <3>3. CASE me.outcome = "retryable"
      <4>1. jobs' = [jobs EXCEPT ![me.job] = Retried(jobs[me.job], MaxAttempts)]
        BY <1>7, <3>3 DEF Report
      <4>2. me.attempt >= MaxAttempts
        BY <2>1, <3>3 DEF final
      <4>3. Retried(jobs[me.job], MaxAttempts).state = "failed"
        BY <2>3, <4>2 DEF Retried, Job
      <4> QED  BY <2>3, <4>1, <4>3
    <3> QED  BY <2>1, <3>1, <3>2, <3>3 DEF Outcomes
  <2>5. \A j : WaitsFor(j, d)' => WaitsFor(j, d)
    BY <1>4, <2>4 DEF WaitsFor
  <2> QED  BY <1>1, <1>2, <1>3, <2>5, LeavesSolo
<1> QED  BY <1>4, <1>5, <1>6, <1>7

LEMMA TakeSolo ==
    ASSUME Typed, NEW d, Solo(d), Take
    PROVE  Solo(d)'
<1>1. rows' = rows /\ requests' = requests /\ settled' = settled
  BY DEF Take, LoadFanOut, LoadDelivery, seen
<1>2. Story(d)' = Story(d) /\ settled'[d] = settled[d]
  BY <1>1 DEF Story
<1>3. ASSUME NEW w \in Workers, NEW e \in DOMAIN fans, LoadFanOut(w, e) PROVE Solo(d)'
  <2>1. Others(w) /\ ~unsettled(w)' /\ ~Copies(w, d)' /\ jobs' = jobs
    BY <1>3, FanMoves DEF unsettled, Copies, LoadFanOut
  <2> QED  BY <1>1, <1>2, <2>1, LeavesSolo DEF WaitsFor
<1>4. ASSUME NEW w \in Workers, NEW j \in DOMAIN jobs, LoadDelivery(w, j) PROVE Solo(d)'
  <2>1. CASE alreadyDelivered(j[1])
    <3>1. workers' = workers /\ jobs' = [jobs EXCEPT ![j].state = "done"] /\ jobs \in [DOMAIN jobs -> Job]
      BY <1>4, <2>1 DEF LoadDelivery, Typed, TypeOK
    <3>2. \A i : WaitsFor(i, d)' => WaitsFor(i, d)
      BY <3>1 DEF WaitsFor, Job
    <3>3. Alone(d)'
      BY <1>1, <3>1, <3>2, SameAt, AloneKept DEF Solo, For
    <3>4. OnRecord(d)'
      BY <1>2, <3>1, SameAt, RecordKept DEF Solo
    <3> QED  BY <3>3, <3>4 DEF Solo
  <2>2. CASE ~alreadyDelivered(j[1])
    <3>1. /\ Others(w) /\ workers'[w].job = j /\ workers'[w].owns /\ workers'[w].history = rows[j[1]].history
          /\ jobs[j].state = "waiting" /\ DOMAIN jobs' = DOMAIN jobs /\ jobs'[j].state = "active"
          /\ \A k \in DOMAIN jobs \ {j} : jobs'[k] = jobs[k]
      BY <1>4, <2>2, TakesDelivery DEF Others
    <3>2. \A i : WaitsFor(i, d)' => WaitsFor(i, d) /\ i # j
      BY <3>1 DEF WaitsFor
    <3>3. OnRecord(d)'
      <4>1. Copies(w, d)' => workers'[w].owns /\ workers'[w].history = Story(d)
        BY <3>1 DEF Copies, Story, Typed
      <4> QED  BY <1>2, <3>1, <4>1, ElsewhereAt DEF Solo, OnRecord
    <3>4. CASE j[1] = d
      <4>1. WaitsFor(j, d)
        BY <3>1, <3>4 DEF WaitsFor
      <4>2. (\A i : ~WaitsFor(i, d)') /\ \A q : ~For(q, d)'
        BY <1>1, <3>2, <4>1 DEF Solo, Alone, For
      <4>3. \A v \in Workers : At(v, d)' => v = w
        BY <3>1, <4>1, ElsewhereAt DEF Solo, Alone
      <4> QED  BY <3>3, <4>2, <4>3, OnlyWorker DEF Solo
    <3>5. CASE j[1] # d
      <4>1. \A v \in Workers : At(v, d)' => At(v, d)
        BY <3>1, <3>5, ElsewhereAt DEF At
      <4>2. Alone(d)'
        BY <1>1, <3>2, <4>1, AloneKept DEF Solo, For
      <4> QED  BY <3>3, <4>2 DEF Solo
    <3> QED  BY <3>4, <3>5
  <2> QED  BY <2>1, <2>2
<1> QED  BY <1>3, <1>4 DEF Take

LEMMA RequestSolo ==
    ASSUME Typed, NEW d \in Deliveries, d \notin crossed', Solo(d),
           \/ \E e \in Deliveries : AskRedelivery(e)
           \/ \E q \in requests : ResetRow(q) \/ EnqueueAgain(q) \/ LoseAgain(q)
    PROVE  Solo(d)'
<1>1. workers' = workers /\ settled' = settled
  BY DEF AskRedelivery, ResetRow, EnqueueAgain, LoseAgain, seen
<1>2. \A v \in Workers : At(v, d)' => At(v, d)
  BY <1>1, SameAt
<1>3. ASSUME Story(d)' = Story(d) PROVE OnRecord(d)'
  BY <1>1, <1>3, SameAt, RecordKept DEF Solo
<1>4. ASSUME NEW e \in Deliveries, AskRedelivery(e) PROVE Solo(d)'
  <2>1. PICK p : p = [of |-> e, n |-> redeliveries + 1, at |-> "checked"]
    OBVIOUS
  <2>2. requests' = requests \cup {p} /\ p.of = e /\ jobs' = jobs /\ rows' = rows
    BY <1>4, <2>1 DEF AskRedelivery
  <2>3. \A j : WaitsFor(j, d)' => WaitsFor(j, d)
    BY <2>2 DEF WaitsFor
  <2>4. OnRecord(d)'
    BY <1>3, <2>2 DEF Story
  <2>5. CASE d = e
    <3>1. ~engaged(d)
      BY <1>4, <2>5 DEF AskRedelivery, mayAsk
    <3>2. Alone(d)'
      BY <1>2, <2>2, <2>3, <3>1, EngagedIs, OnlyRequest DEF For
    <3> QED  BY <2>4, <3>2 DEF Solo
  <2>6. CASE d # e
    <3>1. Alone(d)'
      BY <1>2, <2>2, <2>3, <2>6, AloneKept DEF Solo, For
    <3> QED  BY <2>4, <3>1 DEF Solo
  <2> QED  BY <2>5, <2>6
<1>5. ASSUME NEW q \in requests, ResetRow(q) PROVE Solo(d)'
  <2>1. PICK p : p = [q EXCEPT !.at = "reset"]
    OBVIOUS
  <2>2. requests' = (requests \ {q}) \cup {p} /\ p.of = q.of /\ jobs' = jobs
    BY <1>5, <2>1 DEF ResetRow, Typed, TypeOK
  <2>3. \A j : WaitsFor(j, d)' => WaitsFor(j, d)
    BY <2>2 DEF WaitsFor
  <2>4. rows' = [rows EXCEPT ![q.of].status = "PENDING"] /\ rows \in [DOMAIN rows -> Row]
    BY <1>5 DEF ResetRow, Typed, TypeOK
  <2>5. OnRecord(d)'
    <3>1. \A e \in DOMAIN rows : rows'[e].history = rows[e].history
      BY <2>4 DEF Row
    <3>2. Story(d)' = Story(d)
      BY <2>4, <3>1 DEF Story
    <3> QED  BY <1>3, <3>2
  <2>6. CASE q.of = d
    <3>1. /\ \A i : For(i, d) => i = q
          /\ \A j : ~WaitsFor(j, d)
          /\ \A v \in Workers : ~At(v, d)
      BY <2>6 DEF Solo, Alone, For
    <3>2. Alone(d)'
      BY <1>2, <2>2, <2>3, <3>1, OnlyRequest DEF For
    <3> QED  BY <2>5, <3>2 DEF Solo
  <2>7. CASE q.of # d
    <3>1. Alone(d)'
      BY <1>2, <2>2, <2>3, <2>7, AloneKept DEF Solo, For
    <3> QED  BY <2>5, <3>1 DEF Solo
  <2> QED  BY <2>6, <2>7
<1>6. ASSUME NEW q \in requests, EnqueueAgain(q) PROVE Solo(d)'
  <2>1. rows' = rows /\ requests' = requests \ {q} /\ jobs' = Added(jobs, <<q.of, q.n>>)
    BY <1>6 DEF EnqueueAgain
  <2>2. OnRecord(d)'
    BY <1>3, <2>1 DEF Story
  <2>3. CASE q.of = d
    <3>1. /\ \A i : For(i, d) => i = q
          /\ \A j : ~WaitsFor(j, d)
          /\ \A v \in Workers : ~At(v, d)
      BY <2>3 DEF Solo, Alone, For
    <3>2. \A j : WaitsFor(j, d)' => j = <<q.of, q.n>>
      BY <2>1, <3>1 DEF WaitsFor, Added, Put
    <3>3. Alone(d)'
      BY <1>2, <2>1, <3>1, <3>2, OnlyJob DEF For
    <3> QED  BY <2>2, <3>3 DEF Solo
  <2>4. CASE q.of # d
    <3>1. \A j : WaitsFor(j, d)' => WaitsFor(j, d)
      BY <2>1, <2>4 DEF WaitsFor, Added, Put
    <3>2. Alone(d)'
      BY <1>2, <2>1, <3>1, AloneKept DEF Solo, For
    <3> QED  BY <2>2, <3>2 DEF Solo
  <2> QED  BY <2>3, <2>4
<1>7. ASSUME NEW q \in requests, LoseAgain(q) PROVE Solo(d)'
  <2>1. rows' = rows /\ requests' = requests \ {q} /\ jobs' = jobs
    BY <1>7 DEF LoseAgain
  <2>2. Alone(d)'
    BY <1>2, <2>1, AloneKept DEF Solo, For, WaitsFor
  <2> QED  BY <1>3, <2>1, <2>2 DEF Solo, Story
<1> QED  BY <1>4, <1>5, <1>6, <1>7

\* The job of a worker that is interrupted waits again, and nobody else is to settle its row.
LEMMA InterruptSolo ==
    ASSUME Typed, NEW d \in Deliveries, d \notin crossed', Solo(d), NEW w \in Workers,
           Throw(w) \/ Kill(w) \/ Stall(w)
    PROVE  Solo(d)'
<1> DEFINE me == workers[w]
<1>1. PICK threw \in BOOLEAN, goesOn \in BOOLEAN :
        /\ Interrupted(w, threw, goesOn)
        /\ ~goesOn => Throw(w) \/ Kill(w)
        /\ goesOn => Stall(w)
  BY DEF Throw, Kill, Stall
<1>2. Others(w)
  BY IdleMoves, StallMoves
<1>3. rows' = rows /\ requests' = requests /\ settled' = settled
  BY <1>1 DEF Interrupted
<1>4. Story(d)' = Story(d) /\ settled'[d] = settled[d]
  BY <1>3 DEF Story
<1>5. \A j : WaitsFor(j, d)' => WaitsFor(j, d) \/ (Owner(w, j) /\ j[1] = d)
  BY InterruptMoves DEF WaitsFor
<1>6. workers \in [Workers -> Worker] /\ None \notin Events
  BY WebhookAssumption DEF Typed, TypeOK
<1>7. CASE Owner(w, me.job) /\ me.job[1] = d
  <2>1. me.event = None /\ me.owns
    BY <1>7 DEF Owner, Typed, Holding
  <2>2. (goesOn => me.pc = "report") /\ (unsettled(w) \/ ~engaged(d))
    BY <1>1, <1>7, <2>1 DEF Interrupted
  <2>3. ~unsettled(w)' /\ ~Copies(w, d)'
    BY <1>1, <2>2, IdleMoves, StallMoves DEF unsettled, Copies
  <2>4. At(w, d) \/ ~engaged(d)
    BY <1>7, <2>2 DEF At
  <2>5. \A j : WaitsFor(j, d)' => WaitsFor(j, d) \/ j = me.job
    BY <1>5 DEF Owner
  <2> QED  BY <1>2, <1>3, <1>4, <2>3, <2>4, <2>5, QueuesSolo
<1>8. CASE ~(Owner(w, me.job) /\ me.job[1] = d)
  <2>1. \A j : WaitsFor(j, d)' => WaitsFor(j, d)
    BY <1>5, <1>8 DEF Owner
  <2>2. ~At(w, d)' /\ ~Copies(w, d)'
    <3>1. CASE Throw(w) \/ Kill(w)
      BY <3>1, IdleMoves DEF At, unsettled, Copies
    <3>2. CASE Stall(w)
      BY <1>8, <3>2, StallMoves DEF At, unsettled, Copies, Owner, Delivering
    <3> QED  BY <3>1, <3>2
  <2>3. \A v \in Workers : At(v, d)' => At(v, d)
    BY <1>2, <2>2, ElsewhereAt
  <2>4. Alone(d)'
    BY <1>3, <2>1, <2>3, AloneKept DEF Solo, For
  <2>5. OnRecord(d)'
    BY <1>2, <1>4, <2>2, ElsewhereAt, RecordKept DEF Solo
  <2> QED  BY <2>4, <2>5 DEF Solo
<1> QED  BY <1>7, <1>8

LEMMA SoloStep ==
    ASSUME Typed, Owned, Counted, [Next]_vars, NEW d \in Deliveries, d \notin crossed', Solo(d)
    PROVE  Solo(d)'
<1>1. ASSUME workers' = workers, rows' = rows, requests' = requests, settled' = settled,
             \A j : WaitsFor(j, d)' => WaitsFor(j, d)
      PROVE  Solo(d)'
  <2>1. Alone(d)'
    BY <1>1, SameAt, AloneKept DEF Solo, For
  <2>2. OnRecord(d)'
    BY <1>1, SameAt, RecordKept DEF Solo, Story
  <2> QED  BY <2>1, <2>2 DEF Solo
<1>2. ASSUME NEW w \in Workers, Step(w) PROVE Solo(d)'
  BY <1>2, FansSolo, PostSolo, SettleSolo, ReportSolo DEF Step
<1>3. ASSUME NEW w \in Workers, Throw(w) \/ Kill(w) \/ Stall(w) \/ LoseRow(w) PROVE Solo(d)'
  BY <1>3, FansSolo, InterruptSolo
<1>4. CASE Take
  BY <1>4, TakeSolo
<1>5. CASE \/ Request
           \/ \E e \in Deliveries : AskRedelivery(e)
           \/ \E q \in requests : LoseAgain(q)
  BY <1>5, RequestSolo DEF Request
<1>6. CASE \/ \E e \in Events : Raise(e)
           \/ \E x \in Endpoints : Toggle(x)
           \/ \E e \in DOMAIN fans : ExpireFanOut(e)
           \/ UNCHANGED vars
  BY <1>1, <1>6 DEF Raise, Toggle, ExpireFanOut, vars, seen, WaitsFor
<1>7. ASSUME NEW j \in DOMAIN jobs, ExpireDelivery(j) PROVE Solo(d)'
  BY <1>1, <1>7 DEF ExpireDelivery, WaitsFor, seen
<1> QED  BY <1>2, <1>3, <1>4, <1>5, <1>6, <1>7 DEF Next

\* What a row that nobody crossed goes by, on top of who has which job in hand.
Uncrossed == Owned /\ Counted /\ \A d \in Deliveries \ crossed : Solo(d)

LEMMA UncrossedInit == Init => Uncrossed
BY DEF Init, Uncrossed, Owned, Counted, Solo, Alone, OnRecord, Story, Copies, At, unsettled, For,
       WaitsFor, Owner, Spreads, Delivering, Fanning, Idle

LEMMA UncrossedStep == Typed /\ Uncrossed /\ [Next]_vars => Uncrossed'
<1> SUFFICES ASSUME Typed, Uncrossed, [Next]_vars PROVE Uncrossed'
  OBVIOUS
<1>1. Owned' /\ Counted'
  BY OwnedStep, CountedStep DEF Uncrossed
<1>2. ASSUME NEW d \in Deliveries \ crossed' PROVE Solo(d)'
  <2>1. d \in Deliveries \ crossed
    BY CrossedGrows
  <2> QED  BY <2>1, SoloStep DEF Uncrossed
<1> QED  BY <1>1, <1>2 DEF Uncrossed

\* The row tells the whole story, across retries, interruptions and pushes by hand,
\* unless two jobs, or a job and a request, came to be at it: webhook-delivery's copying
\* of the history it read before the POST, which an overlap writes over.
THEOREM HistoriesAreWhole == Spec => []HistoryWhole
<1>1. Typed /\ Uncrossed => HistoryWhole
  BY DEF Typed, TypeOK, Uncrossed, Solo, OnRecord, Story, HistoryWhole
<1> QED  BY HealthInit, HealthStep, TypedInit, TypedStep, UncrossedInit, UncrossedStep, <1>1, PTL DEF Spec

----------------------------------------------------------------------------
(* NoNeedlessPost: what may yet be accepted is counted before it happens.  *)

\* Counting a set that lost something, or gained, or exchanged one for another.
LEMMA CountPart ==
    ASSUME NEW S, IsFiniteSet(S), NEW T, T \subseteq S
    PROVE  IsFiniteSet(T) /\ Cardinality(T) \in Nat /\ Cardinality(S) \in Nat /\ Cardinality(T) <= Cardinality(S)
BY FS_Subset, FS_CardinalityType

LEMMA CountMore ==
    ASSUME NEW S, IsFiniteSet(S), NEW T, NEW b, T \subseteq S \cup {b}
    PROVE  IsFiniteSet(T) /\ Cardinality(T) \in Nat /\ Cardinality(S) \in Nat /\ Cardinality(T) <= Cardinality(S) + 1
<1>0. Cardinality(S) \in Nat
  BY FS_CardinalityType
<1>1. IsFiniteSet(S \cup {b}) /\ Cardinality(S \cup {b}) <= Cardinality(S) + 1
  <2>1. /\ IsFiniteSet(S \cup {b})
        /\ Cardinality(S \cup {b}) = IF b \in S THEN Cardinality(S) ELSE Cardinality(S) + 1
    BY FS_AddElement
  <2> QED  BY <1>0, <2>1
<1>2. /\ IsFiniteSet(T) /\ Cardinality(T) \in Nat /\ Cardinality(S \cup {b}) \in Nat
      /\ Cardinality(T) <= Cardinality(S \cup {b})
  BY <1>1, CountPart
<1> QED  BY <1>0, <1>1, <1>2

LEMMA CountLess ==
    ASSUME NEW S, IsFiniteSet(S), NEW T, NEW a \in S, T \subseteq S \ {a}
    PROVE  IsFiniteSet(T) /\ Cardinality(T) \in Nat /\ Cardinality(S) \in Nat /\ Cardinality(T) + 1 <= Cardinality(S)
<1>1. IsFiniteSet(S \ {a}) /\ Cardinality(S \ {a}) = Cardinality(S) - 1 /\ Cardinality(S) \in Nat
  BY FS_RemoveElement, FS_CardinalityType
<1>2. /\ IsFiniteSet(T) /\ Cardinality(T) \in Nat /\ Cardinality(S \ {a}) \in Nat
      /\ Cardinality(T) <= Cardinality(S \ {a})
  BY <1>1, CountPart
<1> QED  BY <1>1, <1>2

LEMMA CountSwap ==
    ASSUME NEW S, IsFiniteSet(S), NEW T, NEW a \in S, NEW b, T \subseteq (S \ {a}) \cup {b}
    PROVE  IsFiniteSet(T) /\ Cardinality(T) \in Nat /\ Cardinality(S) \in Nat /\ Cardinality(T) <= Cardinality(S)
<1>1. /\ IsFiniteSet(S \ {a}) /\ Cardinality(S \ {a}) \in Nat /\ Cardinality(S) \in Nat
      /\ Cardinality(S \ {a}) + 1 <= Cardinality(S)
  BY CountLess
<1>2. IsFiniteSet(T) /\ Cardinality(T) \in Nat /\ Cardinality(T) <= Cardinality(S \ {a}) + 1
  BY <1>1, CountMore
<1> QED  BY <1>1, <1>2

\* What an attempt may still come to: its answer is out, or was not an acceptance.
Open(w) == workers[w].pc = "post" \/ workers[w].outcome # "accepted"

\* A fan-out that has yet to queue the job of row d.
Ahead(w, d) ==
    LET me == workers[w] IN
    /\ Fanning(w) /\ me.event = d[1]
    /\ d[2] \in me.left \/ (me.pc = "enqueue" /\ me.job = <<d, 0>>)

\* An attempt at row d that lost its lock and is not done.
Astray(w, d) ==
    LET me == workers[w] IN
    Delivering(w) /\ ~me.owns /\ me.job[1] = d /\ me.pc # "report" /\ Open(w)

MayRun(j, d) == j[1] = d /\ (jobs[j].state = "waiting" \/ \E w \in Workers : Owner(w, j) /\ Open(w))
MaySpread(e, d) ==
    e = d[1] /\ (fans[e].state = "waiting" \/ \E w \in Workers : workers[w].owns /\ Ahead(w, d))
Strays(w, d) == Astray(w, d) \/ (~workers[w].owns /\ Ahead(w, d))

\* All that may bring row d one more acceptance.
Ways(d) ==
    {<<"job", j>> : j \in {k \in DOMAIN jobs : MayRun(k, d)}}
    \cup {<<"fan", e>> : e \in {f \in DOMAIN fans : MaySpread(f, d)}}
    \cup {<<"stray", w>> : w \in {v \in Workers : Strays(v, d)}}
    \cup {<<"asked", q.n>> : q \in {p \in requests : p.of = d}}

\* A fan-out does not come back to the row it is at.
OnceEach == \A w \in Workers : workers[w].pc = "enqueue" => workers[w].job[1][2] \notin workers[w].left

Within(S, n, bound) == IsFiniteSet(S) /\ n + Cardinality(S) <= bound

\* Nothing is accepted that was not raised, asked for again, or left by an interruption.
Accounted == \A d \in Deliveries : Within(Ways(d), successes[d], raises + redeliveries + faults)

LEMMA WithinKept ==
    ASSUME NEW S, NEW n \in Nat, NEW b \in Nat, Within(S, n, b), NEW T, T \subseteq S, NEW c \in Nat, b <= c
    PROVE  Within(T, n, c)
BY CountPart DEF Within

LEMMA WithinMore ==
    ASSUME NEW S, NEW n \in Nat, NEW b \in Nat, Within(S, n, b), NEW T, NEW x, T \subseteq S \cup {x}
    PROVE  Within(T, n, b + 1)
<1>1. /\ IsFiniteSet(T) /\ Cardinality(T) \in Nat /\ Cardinality(S) \in Nat
      /\ Cardinality(T) <= Cardinality(S) + 1
  BY CountMore DEF Within
<1> QED  BY <1>1 DEF Within

LEMMA WithinSwap ==
    ASSUME NEW S, NEW n \in Nat, NEW b \in Nat, Within(S, n, b), NEW T, NEW a \in S, NEW x,
           T \subseteq (S \ {a}) \cup {x}
    PROVE  Within(T, n, b)
<1>1. /\ IsFiniteSet(T) /\ Cardinality(T) \in Nat /\ Cardinality(S) \in Nat
      /\ Cardinality(T) <= Cardinality(S)
  BY CountSwap DEF Within
<1> QED  BY <1>1 DEF Within

LEMMA WithinUsed ==
    ASSUME NEW S, NEW n \in Nat, NEW b \in Nat, Within(S, n, b), NEW T, NEW a \in S, T \subseteq S \ {a}
    PROVE  Within(T, n + 1, b)
<1>1. /\ IsFiniteSet(T) /\ Cardinality(T) \in Nat /\ Cardinality(S) \in Nat
      /\ Cardinality(T) + 1 <= Cardinality(S)
  BY CountLess DEF Within
<1> QED  BY <1>1 DEF Within

\* The ways after a step, from what becomes of each kind of them.
LEMMA WaysStep ==
    ASSUME NEW d, NEW G, NEW X,
           \A j \in DOMAIN jobs' : MayRun(j, d)' =>
               (j \in DOMAIN jobs /\ MayRun(j, d) /\ <<"job", j>> \notin G) \/ <<"job", j>> \in X,
           \A e \in DOMAIN fans' : MaySpread(e, d)' =>
               (e \in DOMAIN fans /\ MaySpread(e, d) /\ <<"fan", e>> \notin G) \/ <<"fan", e>> \in X,
           \A w \in Workers : Strays(w, d)' =>
               (Strays(w, d) /\ <<"stray", w>> \notin G) \/ <<"stray", w>> \in X,
           \A q \in requests' : q.of = d =>
               (\E p \in requests : p.of = d /\ p.n = q.n /\ <<"asked", q.n>> \notin G) \/ <<"asked", q.n>> \in X
    PROVE  Ways(d)' \subseteq (Ways(d) \ G) \cup X
<1> SUFFICES ASSUME NEW t \in Ways(d)' PROVE t \in (Ways(d) \ G) \cup X
  OBVIOUS
<1>1. CASE \E j \in DOMAIN jobs' : t = <<"job", j>> /\ MayRun(j, d)'
  BY <1>1 DEF Ways
<1>2. CASE \E e \in DOMAIN fans' : t = <<"fan", e>> /\ MaySpread(e, d)'
  BY <1>2 DEF Ways
<1>3. CASE \E w \in Workers : t = <<"stray", w>> /\ Strays(w, d)'
  BY <1>3 DEF Ways
<1>4. CASE \E q \in requests' : t = <<"asked", q.n>> /\ q.of = d
  BY <1>4 DEF Ways
<1> QED  BY <1>1, <1>2, <1>3, <1>4 DEF Ways

\* The workers a step is not about.
LEMMA OthersSame ==
    ASSUME NEW w \in Workers, Others(w), NEW v \in Workers, v # w
    PROVE  /\ \A j : Owner(v, j)' = Owner(v, j)
           /\ \A e : Spreads(v, e)' = Spreads(v, e)
           /\ \A d : Ahead(v, d)' = Ahead(v, d) /\ Astray(v, d)' = Astray(v, d) /\ Strays(v, d)' = Strays(v, d)
           /\ Open(v)' = Open(v) /\ workers'[v] = workers[v]
BY DEF Others, Owner, Spreads, Ahead, Astray, Strays, Open, Delivering, Fanning

\* A fan-out's own steps.
LEMMA FanningWays ==
    ASSUME NEW w \in Workers, Others(w), ~Delivering(w), ~Delivering(w)', NEW d,
           Ahead(w, d)' => Ahead(w, d) /\ workers'[w].owns = workers[w].owns,
           UNCHANGED <<fans, jobs, requests>>
    PROVE  Ways(d)' \subseteq Ways(d)
<1>1. (\A j : ~Owner(w, j) /\ ~Owner(w, j)') /\ ~Astray(w, d)'
  BY DEF Owner, Astray
<1>2. \A j \in DOMAIN jobs' : MayRun(j, d)' => MayRun(j, d)
  BY <1>1, OthersSame DEF MayRun
<1>3. \A e \in DOMAIN fans' : MaySpread(e, d)' => MaySpread(e, d)
  BY <1>1, OthersSame DEF MaySpread
<1>4. \A v \in Workers : Strays(v, d)' => Strays(v, d)
  BY <1>1, OthersSame DEF Strays
<1>5. Ways(d)' \subseteq (Ways(d) \ {}) \cup {}
  BY <1>2, <1>3, <1>4, WaysStep
<1> QED  BY <1>5

LEMMA UpsertWays ==
    ASSUME Typed, NEW w \in Workers, UpsertRow(w), NEW d
    PROVE  Ways(d)' \subseteq Ways(d)
<1>1. UNCHANGED <<fans, jobs, requests>>
  BY DEF UpsertRow
<1>2. ~Delivering(w) /\ ~Delivering(w)' /\ Others(w)
  BY UpsertMoves DEF Delivering
<1>3. Ahead(w, d)' => Ahead(w, d) /\ workers'[w].owns = workers[w].owns
  <2>1. PICK x \in workers[w].left :
          /\ workers'[w].left = workers[w].left \ {x}
          /\ workers'[w].job = <<<<workers[w].event, x>>, 0>>
    BY UpsertMoves
  <2>2. /\ workers[w].pc = "fan" /\ workers'[w].event = workers[w].event
        /\ workers'[w].owns = workers[w].owns
    BY UpsertMoves
  <2>3. workers'[w].job = <<d, 0>> => d[2] = x
    BY <2>1
  <2> QED  BY <2>1, <2>2, <2>3 DEF Ahead, Fanning
<1> QED  BY <1>1, <1>2, <1>3, FanningWays

LEMMA LoseWays ==
    ASSUME Typed, NEW w \in Workers, LoseRow(w), NEW d
    PROVE  Ways(d)' \subseteq Ways(d)
<1>1. UNCHANGED <<fans, jobs, requests>>
  BY DEF LoseRow
<1>2. ~Delivering(w) /\ ~Delivering(w)' /\ Others(w)
  BY LeaveMoves DEF Delivering
<1>3. Ahead(w, d)' => Ahead(w, d) /\ workers'[w].owns = workers[w].owns
  BY LeaveMoves DEF Ahead, Fanning
<1> QED  BY <1>1, <1>2, <1>3, FanningWays

\* The job takes the place of the fan-out that queues it.
LEMMA EnqueueWays ==
    ASSUME Typed, Owned, OnceEach, NEW w \in Workers, EnqueueRow(w), NEW d \in Deliveries
    PROVE  \/ Ways(d)' \subseteq Ways(d)
           \/ \E a \in Ways(d) : \E b : Ways(d)' \subseteq (Ways(d) \ {a}) \cup {b}
<1> DEFINE me == workers[w]
<1>1. fans' = fans /\ jobs' = Added(jobs, me.job) /\ requests' = requests
  BY DEF EnqueueRow
<1>2. /\ (\A j : ~Owner(w, j) /\ ~Owner(w, j)') /\ ~Astray(w, d)'
      /\ workers'[w].owns = workers[w].owns /\ Others(w)
  BY LeaveMoves DEF Owner, Astray, Delivering
<1>3. Ahead(w, d)' => Ahead(w, d)
  BY LeaveMoves DEF Ahead, Fanning
<1>4. PICK c : me.job = <<c, 0>> /\ c[1] = me.event /\ me.event \in Events
  BY LeaveMoves DEF Typed, Holding, Fanning
<1>5. DOMAIN jobs' = DOMAIN jobs \cup {<<c, 0>>} /\ \A j \in DOMAIN jobs : jobs'[j] = jobs[j]
  BY <1>1, <1>4 DEF Added, Put
<1>6. \A j \in DOMAIN jobs : MayRun(j, d)' => MayRun(j, d)
  BY <1>2, <1>5, OthersSame DEF MayRun
<1>7. CASE c # d
  <2>1. \A j \in DOMAIN jobs' : MayRun(j, d)' => j \in DOMAIN jobs /\ MayRun(j, d)
    BY <1>5, <1>6, <1>7 DEF MayRun
  <2>2. \A e \in DOMAIN fans' : MaySpread(e, d)' => MaySpread(e, d)
    BY <1>1, <1>2, <1>3, OthersSame DEF MaySpread
  <2>3. \A v \in Workers : Strays(v, d)' => Strays(v, d)
    BY <1>2, <1>3, OthersSame DEF Strays
  <2>4. Ways(d)' \subseteq (Ways(d) \ {}) \cup {}
    BY <1>1, <2>1, <2>2, <2>3, WaysStep
  <2> QED  BY <2>4
<1>8. CASE c = d
  <2>1. Ahead(w, d) /\ ~Ahead(w, d)'
    <3>1. d[2] \notin me.left
      BY <1>4, <1>8, LeaveMoves DEF OnceEach
    <3> QED  BY <1>4, <1>8, <3>1, LeaveMoves DEF Ahead, Fanning
  <2>2. CASE me.owns
    <3>1. Spreads(w, d[1]) /\ d[1] \in DOMAIN fans /\ fans[d[1]].state = "active"
      BY <2>1, <2>2 DEF Owned, Spreads, Ahead
    <3>2. MaySpread(d[1], d)
      BY <2>1, <2>2 DEF MaySpread
    <3>3. ~MaySpread(d[1], d)'
      <4>1. ASSUME NEW v \in Workers, workers'[v].owns, Ahead(v, d)' PROVE FALSE
        <5>1. v # w
          BY <2>1, <4>1
        <5>2. Spreads(v, d[1])
          BY <1>2, <4>1, <5>1, OthersSame DEF Spreads, Ahead
        <5> QED  BY <3>1, <5>1, <5>2 DEF Owned
      <4> QED  BY <1>1, <3>1, <4>1 DEF MaySpread
    <3>4. \A v \in Workers : Strays(v, d)' => Strays(v, d)
      BY <1>2, <1>3, OthersSame DEF Strays
    <3>5. \A e \in DOMAIN fans' : ~MaySpread(e, d)'
      BY <3>3 DEF MaySpread
    <3>6. PICK G, X : G = {<<"fan", d[1]>>} /\ X = {<<"job", <<d, 0>>>>}
      OBVIOUS
    <3>7. \A j \in DOMAIN jobs' : MayRun(j, d)' =>
            (j \in DOMAIN jobs /\ MayRun(j, d) /\ <<"job", j>> \notin G) \/ <<"job", j>> \in X
      BY <1>5, <1>6, <1>8, <3>6
    <3>8. /\ \A v \in Workers : <<"stray", v>> \notin G
          /\ \A q : <<"asked", q.n>> \notin G
      BY <3>6
    <3>9. Ways(d)' \subseteq (Ways(d) \ G) \cup X
      BY <1>1, <3>4, <3>5, <3>7, <3>8, WaysStep
    <3>10. <<"fan", d[1]>> \in Ways(d)
      BY <3>1, <3>2 DEF Ways
    <3> QED  BY <3>6, <3>9, <3>10
  <2>3. CASE ~me.owns
    <3>1. Strays(w, d) /\ ~Strays(w, d)'
      BY <1>2, <2>1, <2>3 DEF Strays
    <3>2. \A e \in DOMAIN fans' : MaySpread(e, d)' => MaySpread(e, d)
      BY <1>1, <1>2, <1>3, OthersSame DEF MaySpread
    <3>3. \A v \in Workers : Strays(v, d)' => Strays(v, d) /\ v # w
      BY <1>2, <3>1, OthersSame
    <3>4. PICK G, X : G = {<<"stray", w>>} /\ X = {<<"job", <<d, 0>>>>}
      OBVIOUS
    <3>5. \A j \in DOMAIN jobs' : MayRun(j, d)' =>
            (j \in DOMAIN jobs /\ MayRun(j, d) /\ <<"job", j>> \notin G) \/ <<"job", j>> \in X
      BY <1>5, <1>6, <1>8, <3>4
    <3>6. /\ \A e : <<"fan", e>> \notin G
          /\ \A v \in Workers : v # w => <<"stray", v>> \notin G
          /\ \A q : <<"asked", q.n>> \notin G
      BY <3>4
    <3>7. Ways(d)' \subseteq (Ways(d) \ G) \cup X
      BY <1>1, <3>2, <3>3, <3>5, <3>6, WaysStep
    <3>8. <<"stray", w>> \in Ways(d)
      BY <3>1 DEF Ways
    <3> QED  BY <3>4, <3>7, <3>8
  <2> QED  BY <2>2, <2>3
<1> QED  BY <1>7, <1>8

\* A worker that is through with its job leaves no way behind.
LEMMA FannedOutWays ==
    ASSUME Typed, Owned, NEW w \in Workers, FannedOut(w), NEW d
    PROVE  Ways(d)' \subseteq Ways(d)
<1> DEFINE me == workers[w]
<1>1. jobs' = jobs /\ requests' = requests /\ me.pc = "fan" /\ me.left = {}
  BY DEF FannedOut
<1>2. /\ Others(w) /\ (\A j : ~Owner(w, j) /\ ~Owner(w, j)') /\ ~Strays(w, d)'
      /\ ~Ahead(w, d) /\ ~Ahead(w, d)'
  BY <1>1, IdleMoves DEF Owner, Strays, Astray, Ahead, Delivering, Fanning
<1>3. \A j \in DOMAIN jobs' : MayRun(j, d)' => MayRun(j, d)
  BY <1>1, <1>2, OthersSame DEF MayRun
<1>4. \A e \in DOMAIN fans' : e \in DOMAIN fans /\ (fans'[e].state = "waiting" => fans[e].state = "waiting")
  <2>1. CASE me.owns
    <3>1. fans' = [fans EXCEPT ![me.event].state = "done"]
      BY <2>1 DEF FannedOut
    <3>2. \A e \in DOMAIN fans : fans[e] \in Job
      BY DEF Typed, TypeOK
    <3> QED  BY <3>1, <3>2 DEF Job
  <2>2. CASE ~me.owns
    BY <2>2 DEF FannedOut
  <2> QED  BY <2>1, <2>2
<1>5. \A e \in DOMAIN fans' : MaySpread(e, d)' => e \in DOMAIN fans /\ MaySpread(e, d)
  BY <1>2, <1>4, OthersSame DEF MaySpread
<1>6. \A v \in Workers : Strays(v, d)' => Strays(v, d)
  BY <1>2, OthersSame
<1>7. Ways(d)' \subseteq (Ways(d) \ {}) \cup {}
  BY <1>1, <1>3, <1>5, <1>6, WaysStep
<1> QED  BY <1>7

LEMMA ReportWays ==
    ASSUME Typed, Owned, NEW w \in Workers, Report(w), NEW d
    PROVE  Ways(d)' \subseteq Ways(d)
<1> DEFINE me == workers[w]
<1>1. fans' = fans /\ requests' = requests /\ me.pc = "report" /\ me.outcome \in Outcomes
  BY DEF Report, Typed, Holding
<1>2. /\ Others(w) /\ (\A j : ~Owner(w, j)') /\ ~Strays(w, d)'
      /\ ~Ahead(w, d) /\ ~Ahead(w, d)'
  BY <1>1, IdleMoves DEF Owner, Strays, Astray, Ahead, Delivering, Fanning
<1>3. DOMAIN jobs' = DOMAIN jobs /\ \A j \in DOMAIN jobs : ~Owner(w, j) => jobs'[j] = jobs[j]
  BY <1>1 DEF Report, Owner, Delivering
<1>4. ASSUME NEW j \in DOMAIN jobs, Owner(w, j), jobs'[j].state = "waiting" PROVE Open(w)
  <2>1. me.job = j /\ me.owns
    BY <1>4 DEF Owner
  <2>2. CASE me.outcome = "accepted"
    <3>1. jobs' = [jobs EXCEPT ![j] = [jobs[j] EXCEPT !.state = "done"]] /\ jobs[j] \in Job
      BY <2>1, <2>2 DEF Report, Typed, TypeOK
    <3> QED  BY <1>4, <3>1 DEF Job
  <2> QED  BY <2>2 DEF Open
<1>5. \A j \in DOMAIN jobs' : MayRun(j, d)' => j \in DOMAIN jobs /\ MayRun(j, d)
  BY <1>2, <1>3, <1>4, OthersSame DEF MayRun
<1>6. \A e \in DOMAIN fans' : MaySpread(e, d)' => MaySpread(e, d)
  BY <1>1, <1>2, OthersSame DEF MaySpread
<1>7. \A v \in Workers : Strays(v, d)' => Strays(v, d)
  BY <1>2, OthersSame
<1>8. Ways(d)' \subseteq (Ways(d) \ {}) \cup {}
  BY <1>1, <1>5, <1>6, <1>7, WaysStep
<1> QED  BY <1>8

\* Taking a job is no new way: it was one when it waited.
LEMMA TakeWays ==
    ASSUME Typed, Take, NEW d
    PROVE  Ways(d)' \subseteq Ways(d)
<1>0. requests' = requests
  BY DEF Take, LoadFanOut, LoadDelivery
<1>1. ASSUME NEW w \in Workers, NEW e \in DOMAIN fans, LoadFanOut(w, e) PROVE Ways(d)' \subseteq Ways(d)
  <2>1. jobs' = jobs
    BY <1>1 DEF LoadFanOut
  <2>2. Others(w) /\ (\A j : ~Owner(w, j) /\ ~Owner(w, j)') /\ ~Strays(w, d)'
    BY <1>1, FanMoves DEF Owner, Strays, Astray, Delivering
  <2>3. \A j \in DOMAIN jobs' : MayRun(j, d)' => MayRun(j, d)
    BY <2>1, <2>2, OthersSame DEF MayRun
  <2>4. MaySpread(e, d)' => MaySpread(e, d)
    BY <1>1, FanMoves DEF MaySpread
  <2>5. Ahead(w, d)' => d[1] = e
    BY <1>1, FanMoves DEF Ahead
  <2>6. \A f \in DOMAIN fans' : MaySpread(f, d)' => f \in DOMAIN fans /\ MaySpread(f, d)
    BY <1>1, <2>2, <2>4, <2>5, FanMoves, OthersSame DEF MaySpread
  <2>7. \A v \in Workers : Strays(v, d)' => Strays(v, d)
    BY <2>2, OthersSame
  <2>8. Ways(d)' \subseteq (Ways(d) \ {}) \cup {}
    BY <1>0, <2>3, <2>1, <2>6, <2>7, WaysStep
  <2> QED  BY <2>8
<1>2. ASSUME NEW w \in Workers, NEW j \in DOMAIN jobs, LoadDelivery(w, j) PROVE Ways(d)' \subseteq Ways(d)
  <2>1. fans' = fans /\ jobs[j].state = "waiting" /\ workers[w].pc = "idle"
    BY <1>2 DEF LoadDelivery
  <2>2. CASE alreadyDelivered(j[1])
    <3>1. workers' = workers /\ jobs' = [jobs EXCEPT ![j].state = "done"]
      BY <1>2, <2>2 DEF LoadDelivery
    <3>2. jobs[j] \in Job
      BY DEF Typed, TypeOK
    <3>3. /\ \A v \in Workers : \A k : Owner(v, k)' = Owner(v, k)
          /\ \A v \in Workers : Open(v)' = Open(v) /\ Ahead(v, d)' = Ahead(v, d) /\ Strays(v, d)' = Strays(v, d)
      BY <3>1 DEF Owner, Open, Ahead, Strays, Astray, Delivering, Fanning
    <3>4. \A k \in DOMAIN jobs' : MayRun(k, d)' => k \in DOMAIN jobs /\ MayRun(k, d)
      BY <3>1, <3>2, <3>3 DEF MayRun, Job
    <3>5. \A e \in DOMAIN fans' : MaySpread(e, d)' => MaySpread(e, d)
      BY <2>1, <3>1, <3>3 DEF MaySpread
    <3>6. Ways(d)' \subseteq (Ways(d) \ {}) \cup {}
      BY <1>0, <2>1, <3>3, <3>4, <3>5, WaysStep
    <3> QED  BY <3>6
  <2>3. CASE ~alreadyDelivered(j[1])
    <3>1. /\ workers'[w].pc \in {"post", "settle"} /\ workers'[w].job = j /\ workers'[w].owns
          /\ Others(w) /\ DOMAIN jobs' = DOMAIN jobs
          /\ \A k \in DOMAIN jobs \ {j} : jobs'[k] = jobs[k]
      BY <1>2, <2>3, TakesDelivery DEF Others
    <3>2. /\ \A k : Owner(w, k)' => k = j
          /\ ~Strays(w, d)' /\ ~Ahead(w, d)'
      BY <3>1 DEF Owner, Strays, Astray, Ahead, Fanning
    <3>3. MayRun(j, d)' => MayRun(j, d)
      BY <2>1 DEF MayRun
    <3>4. \A k \in DOMAIN jobs' : MayRun(k, d)' => k \in DOMAIN jobs /\ MayRun(k, d)
      BY <3>1, <3>2, <3>3, OthersSame DEF MayRun
    <3>5. \A e \in DOMAIN fans' : MaySpread(e, d)' => MaySpread(e, d)
      BY <2>1, <3>1, <3>2, OthersSame DEF MaySpread
    <3>6. \A v \in Workers : Strays(v, d)' => Strays(v, d)
      BY <3>1, <3>2, OthersSame
    <3>7. Ways(d)' \subseteq (Ways(d) \ {}) \cup {}
      BY <1>0, <2>1, <3>4, <3>5, <3>6, WaysStep
    <3> QED  BY <3>7
  <2> QED  BY <2>2, <2>3
<1> QED  BY <1>1, <1>2 DEF Take

LEMMA SettleWays ==
    ASSUME Typed, NEW w \in Workers, Settle(w), NEW d
    PROVE  Ways(d)' \subseteq Ways(d)
<1>1. jobs' = jobs /\ fans' = fans /\ requests' = requests
  BY DEF Settle
<1>2. /\ Others(w) /\ (\A j : Owner(w, j)' = Owner(w, j)) /\ ~Strays(w, d)'
      /\ ~Ahead(w, d) /\ ~Ahead(w, d)' /\ Open(w)' = Open(w)
  BY SettleMoves DEF Owner, Strays, Astray, Ahead, Open, Delivering, Fanning
<1>3. \A j \in DOMAIN jobs' : MayRun(j, d)' => MayRun(j, d)
  BY <1>1, <1>2, OthersSame DEF MayRun
<1>4. \A e \in DOMAIN fans' : MaySpread(e, d)' => MaySpread(e, d)
  BY <1>1, <1>2, OthersSame DEF MaySpread
<1>5. \A v \in Workers : Strays(v, d)' => Strays(v, d)
  BY <1>2, OthersSame
<1>6. Ways(d)' \subseteq (Ways(d) \ {}) \cup {}
  BY <1>1, <1>3, <1>4, <1>5, WaysStep
<1> QED  BY <1>6

\* An acceptance is one way used.
LEMMA PostWays ==
    ASSUME Typed, Owned, NEW w \in Workers, Post(w), NEW d \in Deliveries
    PROVE  \/ Ways(d)' \subseteq Ways(d) /\ successes'[d] = successes[d]
           \/ \E a \in Ways(d) : Ways(d)' \subseteq Ways(d) \ {a} /\ successes'[d] = successes[d] + 1
<1> DEFINE me == workers[w]
<1>1. jobs' = jobs /\ fans' = fans /\ requests' = requests
  BY DEF Post
<1>2. /\ Others(w) /\ (\A j : Owner(w, j)' = Owner(w, j))
      /\ ~Ahead(w, d) /\ ~Ahead(w, d)' /\ Open(w)
      /\ (Astray(w, d)' => Astray(w, d))
  BY PostMoves DEF Owner, Astray, Ahead, Open, Delivering, Fanning
<1>3. \A j \in DOMAIN jobs' : MayRun(j, d)' => MayRun(j, d)
  BY <1>1, <1>2, OthersSame DEF MayRun
<1>4. \A e \in DOMAIN fans' : MaySpread(e, d)' => MaySpread(e, d)
  BY <1>1, <1>2, OthersSame DEF MaySpread
<1>5. \A v \in Workers : Strays(v, d)' => Strays(v, d)
  BY <1>2, OthersSame DEF Strays
<1>6. Ways(d)' \subseteq Ways(d)
  <2>1. Ways(d)' \subseteq (Ways(d) \ {}) \cup {}
    BY <1>1, <1>3, <1>4, <1>5, WaysStep
  <2> QED  BY <2>1
<1>7. successes \in [Deliveries -> Nat] /\ me.job[1] \in Deliveries /\ me.job \in Deliveries \X Nat
  BY PostMoves DEF Typed, TypeOK, Holding, Delivering
<1>8. CASE workers'[w].outcome # "accepted" \/ me.job[1] # d
  BY <1>6, <1>7, <1>8, PostMoves
<1>9. CASE workers'[w].outcome = "accepted" /\ me.job[1] = d
  <2>1. successes'[d] = successes[d] + 1
    BY <1>7, <1>9, PostMoves
  <2>2. ~Open(w)' /\ Delivering(w)
    BY <1>9, PostMoves DEF Open, Delivering
  <2>3. CASE me.owns
    <3>0. PICK j : j = me.job
      OBVIOUS
    <3>1. Owner(w, j) /\ j[1] = d
      BY <1>9, <2>2, <2>3, <3>0 DEF Owner
    <3>2. j \in DOMAIN jobs /\ jobs[j].state = "active"
      BY <3>1 DEF Owned
    <3>3. <<"job", j>> \in Ways(d)
      BY <1>2, <3>1, <3>2 DEF Ways, MayRun
    <3>4. ASSUME NEW v \in Workers, Owner(v, j)', Open(v)' PROVE FALSE
      <4>1. v # w
        BY <2>2, <3>4
      <4>2. Owner(v, j)
        BY <1>2, <3>4, <4>1, OthersSame
      <4> QED  BY <3>1, <4>1, <4>2 DEF Owned
    <3>5. ~MayRun(j, d)'
      BY <1>1, <3>2, <3>4 DEF MayRun
    <3>6. <<"job", j>> \notin Ways(d)'
      BY <3>5 DEF Ways
    <3> QED  BY <1>6, <2>1, <3>3, <3>6
  <2>4. CASE ~me.owns
    <3>1. Strays(w, d)
      BY <1>2, <1>9, <2>2, <2>4, PostMoves DEF Strays, Astray
    <3>2. ~Strays(w, d)'
      BY <1>2, <2>2 DEF Strays, Astray
    <3>3. <<"stray", w>> \in Ways(d)
      BY <3>1 DEF Ways
    <3>4. <<"stray", w>> \notin Ways(d)'
      BY <3>2 DEF Ways
    <3> QED  BY <1>6, <2>1, <3>3, <3>4
  <2> QED  BY <2>3, <2>4
<1> QED  BY <1>8, <1>9

\* An interruption opens one way, which it pays for.
LEMMA IdleWays ==
    ASSUME Typed, Owned, NEW w \in Workers, Throw(w) \/ Kill(w), NEW d
    PROVE  \E b : Ways(d)' \subseteq Ways(d) \cup {b}
<1> DEFINE me == workers[w]
<1>1. /\ Others(w) /\ (\A j : ~Owner(w, j)') /\ ~Strays(w, d)' /\ ~Ahead(w, d)'
  BY IdleMoves DEF Owner, Strays, Astray, Ahead, Delivering, Fanning
<1>2. \A v \in Workers : Strays(v, d)' => Strays(v, d)
  BY <1>1, OthersSame
<1>3. /\ requests' = requests /\ DOMAIN jobs' = DOMAIN jobs /\ DOMAIN fans' = DOMAIN fans
      /\ \A j \in DOMAIN jobs : ~Owner(w, j) => jobs'[j] = jobs[j]
      /\ \A e \in DOMAIN fans : ~Spreads(w, e) => fans'[e] = fans[e]
  BY InterruptMoves
<1>4. \A j \in DOMAIN jobs' : MayRun(j, d)' => MayRun(j, d) \/ Owner(w, j)
  BY <1>1, <1>3, OthersSame DEF MayRun
<1>5. \A e \in DOMAIN fans' : MaySpread(e, d)' => MaySpread(e, d) \/ Spreads(w, e)
  BY <1>1, <1>3, OthersSame DEF MaySpread
<1>6. CASE Delivering(w)
  <2>1. PICK X : X = {<<"job", me.job>>}
    OBVIOUS
  <2>2. \A j : Owner(w, j) => <<"job", j>> \in X
    BY <2>1 DEF Owner
  <2>3. \A e : ~Spreads(w, e)
    BY <1>6 DEF Spreads, Delivering, Fanning
  <2>4. Ways(d)' \subseteq (Ways(d) \ {}) \cup X
    BY <1>2, <1>3, <1>4, <1>5, <2>2, <2>3, WaysStep
  <2> QED  BY <2>1, <2>4
<1>7. CASE ~Delivering(w)
  <2>1. PICK X : X = {<<"fan", me.event>>}
    OBVIOUS
  <2>2. \A e : Spreads(w, e) => <<"fan", e>> \in X
    BY <2>1 DEF Spreads
  <2>3. \A j : ~Owner(w, j)
    BY <1>7 DEF Owner
  <2>4. Ways(d)' \subseteq (Ways(d) \ {}) \cup X
    BY <1>2, <1>3, <1>4, <1>5, <2>2, <2>3, WaysStep
  <2> QED  BY <2>1, <2>4
<1> QED  BY <1>6, <1>7

\* A stalled worker goes on, and its job is handed out again: one of the two is new.
LEMMA StallWays ==
    ASSUME Typed, Owned, NEW w \in Workers, Stall(w), NEW d
    PROVE  \E b : Ways(d)' \subseteq Ways(d) \cup {b}
<1> DEFINE me == workers[w]
<1>1. /\ Others(w) /\ (\A j : ~Owner(w, j)') /\ me.owns /\ ~workers'[w].owns
      /\ Ahead(w, d)' = Ahead(w, d) /\ Open(w)' = Open(w) /\ Delivering(w)' = Delivering(w)
      /\ workers'[w].job = me.job /\ workers'[w].pc = me.pc
  BY StallMoves DEF Owner, Ahead, Open, Delivering, Fanning
<1>2. \A v \in Workers : v # w /\ Strays(v, d)' => Strays(v, d)
  BY <1>1, OthersSame
<1>3. /\ requests' = requests /\ DOMAIN jobs' = DOMAIN jobs /\ DOMAIN fans' = DOMAIN fans
      /\ \A j \in DOMAIN jobs : ~Owner(w, j) => jobs'[j] = jobs[j]
      /\ \A e \in DOMAIN fans : ~Spreads(w, e) => fans'[e] = fans[e]
  BY InterruptMoves
<1>4. \A j \in DOMAIN jobs' : MayRun(j, d)' => MayRun(j, d) \/ (j[1] = d /\ Owner(w, j))
  BY <1>1, <1>3, OthersSame DEF MayRun
<1>5. \A e \in DOMAIN fans' : MaySpread(e, d)' => MaySpread(e, d) \/ (e = d[1] /\ Spreads(w, e))
  BY <1>1, <1>3, OthersSame DEF MaySpread
<1>6. CASE Strays(w, d)'
  <2>1. PICK X : X = {<<"stray", w>>}
    OBVIOUS
  <2>2. ASSUME NEW j \in DOMAIN jobs, j[1] = d, Owner(w, j) PROVE MayRun(j, d)
    <3>1. Delivering(w) /\ ~Ahead(w, d)
      BY <2>2 DEF Owner, Ahead, Delivering, Fanning
    <3>2. Open(w)
      BY <1>1, <1>6, <3>1 DEF Strays, Astray
    <3> QED  BY <2>2, <3>2 DEF MayRun
  <2>3. ASSUME NEW e \in DOMAIN fans, e = d[1], Spreads(w, e) PROVE MaySpread(e, d)
    <3>1. ~Delivering(w)
      BY <2>3 DEF Spreads, Delivering, Fanning
    <3>2. Ahead(w, d)
      BY <1>1, <1>6, <3>1 DEF Strays, Astray
    <3> QED  BY <1>1, <2>3, <3>2 DEF MaySpread
  <2>4. Ways(d)' \subseteq (Ways(d) \ {}) \cup X
    BY <1>2, <1>3, <1>4, <1>5, <2>1, <2>2, <2>3, WaysStep
  <2> QED  BY <2>1, <2>4
<1>7. CASE ~Strays(w, d)' /\ Delivering(w)
  <2>1. PICK X : X = {<<"job", me.job>>}
    OBVIOUS
  <2>2. \A j : Owner(w, j) => <<"job", j>> \in X
    BY <2>1 DEF Owner
  <2>3. \A e : ~Spreads(w, e)
    BY <1>7 DEF Spreads, Delivering, Fanning
  <2>4. Ways(d)' \subseteq (Ways(d) \ {}) \cup X
    BY <1>2, <1>3, <1>4, <1>5, <1>7, <2>2, <2>3, WaysStep
  <2> QED  BY <2>1, <2>4
<1>8. CASE ~Strays(w, d)' /\ ~Delivering(w)
  <2>1. PICK X : X = {<<"fan", me.event>>}
    OBVIOUS
  <2>2. \A e : Spreads(w, e) => <<"fan", e>> \in X
    BY <2>1 DEF Spreads
  <2>3. \A j : ~Owner(w, j)
    BY <1>8 DEF Owner
  <2>4. Ways(d)' \subseteq (Ways(d) \ {}) \cup X
    BY <1>2, <1>3, <1>4, <1>5, <1>8, <2>2, <2>3, WaysStep
  <2> QED  BY <2>1, <2>4
<1> QED  BY <1>6, <1>7, <1>8

\* Where no worker moves, the ways are those of the queue and the requests.
LEMMA QueueWays ==
    ASSUME workers' = workers, NEW d, NEW X,
           \A e \in DOMAIN fans' : (e \in DOMAIN fans /\ fans'[e] = fans[e]) \/ <<"fan", e>> \in X,
           \A j \in DOMAIN jobs' : j[1] = d => (j \in DOMAIN jobs /\ jobs'[j] = jobs[j]) \/ <<"job", j>> \in X,
           \A q \in requests' : q.of = d =>
               (\E p \in requests : p.of = d /\ p.n = q.n) \/ <<"asked", q.n>> \in X
    PROVE  Ways(d)' \subseteq Ways(d) \cup X
<1>1. /\ \A v \in Workers : \A k : Owner(v, k)' = Owner(v, k)
      /\ \A v \in Workers : /\ Open(v)' = Open(v) /\ Ahead(v, d)' = Ahead(v, d)
                            /\ Strays(v, d)' = Strays(v, d) /\ workers'[v] = workers[v]
  BY DEF Owner, Open, Ahead, Strays, Astray, Delivering, Fanning
<1>2. PICK G : G = {}
  OBVIOUS
<1>3. \A j \in DOMAIN jobs' : MayRun(j, d)' =>
        (j \in DOMAIN jobs /\ MayRun(j, d) /\ <<"job", j>> \notin G) \/ <<"job", j>> \in X
  BY <1>1, <1>2 DEF MayRun
<1>4. \A e \in DOMAIN fans' : MaySpread(e, d)' =>
        (e \in DOMAIN fans /\ MaySpread(e, d) /\ <<"fan", e>> \notin G) \/ <<"fan", e>> \in X
  BY <1>1, <1>2 DEF MaySpread
<1>5. (\A w \in Workers : <<"stray", w>> \notin G) /\ \A q : <<"asked", q.n>> \notin G
  BY <1>2
<1>6. Ways(d)' \subseteq (Ways(d) \ G) \cup X
  BY <1>1, <1>3, <1>4, <1>5, WaysStep
<1> QED  BY <1>2, <1>6

LEMMA RaiseWays ==
    ASSUME NEW e, Raise(e), NEW d
    PROVE  \E b : Ways(d)' \subseteq Ways(d) \cup {b}
<1>1. PICK X : X = {<<"fan", e>>}
  OBVIOUS
<1>2. workers' = workers /\ jobs' = jobs /\ requests' = requests
  BY DEF Raise
<1>3. \A f \in DOMAIN fans' : (f \in DOMAIN fans /\ fans'[f] = fans[f]) \/ <<"fan", f>> \in X
  BY <1>1 DEF Raise, Added, Put
<1>4. Ways(d)' \subseteq Ways(d) \cup X
  BY <1>2, <1>3, QueueWays
<1> QED  BY <1>1, <1>4

LEMMA AskWays ==
    ASSUME NEW c, AskRedelivery(c), NEW d
    PROVE  \E b : Ways(d)' \subseteq Ways(d) \cup {b}
<1>1. PICK X : X = {<<"asked", redeliveries + 1>>}
  OBVIOUS
<1>2. workers' = workers /\ jobs' = jobs /\ fans' = fans
  BY DEF AskRedelivery
<1>3. \A q \in requests' : q \in requests \/ q.n = redeliveries + 1
  BY DEF AskRedelivery
<1>4. \A q \in requests' : q \in requests \/ <<"asked", q.n>> \in X
  BY <1>1, <1>3
<1>5. Ways(d)' \subseteq Ways(d) \cup X
  BY <1>2, <1>4, QueueWays
<1> QED  BY <1>1, <1>5

\* The job takes the place of the request that queues it.
LEMMA AgainWays ==
    ASSUME Typed, Numbered, NEW q \in requests, EnqueueAgain(q), NEW d
    PROVE  \/ Ways(d)' \subseteq Ways(d)
           \/ \E a \in Ways(d) : \E b : Ways(d)' \subseteq (Ways(d) \ {a}) \cup {b}
<1>1. workers' = workers /\ fans' = fans /\ requests' = requests \ {q}
  BY DEF EnqueueAgain
<1>2. \A j \in DOMAIN jobs' : (j \in DOMAIN jobs /\ jobs'[j] = jobs[j]) \/ j = <<q.of, q.n>>
  BY DEF EnqueueAgain, Added, Put
<1>3. CASE q.of # d
  <2>1. PICK X : X = {}
    OBVIOUS
  <2>2. Ways(d)' \subseteq Ways(d) \cup X
    BY <1>1, <1>2, <1>3, QueueWays
  <2> QED  BY <2>1, <2>2
<1>4. CASE q.of = d
  <2>1. PICK X : X = {<<"job", <<q.of, q.n>>>>}
    OBVIOUS
  <2>2. \A j \in DOMAIN jobs' : (j \in DOMAIN jobs /\ jobs'[j] = jobs[j]) \/ <<"job", j>> \in X
    BY <1>2, <2>1
  <2>3. Ways(d)' \subseteq Ways(d) \cup X
    BY <1>1, <2>2, QueueWays
  <2>4. <<"asked", q.n>> \in Ways(d)
    BY <1>4 DEF Ways
  <2>5. \A p \in requests' : p.n # q.n
    BY <1>1 DEF Numbered
  <2>6. <<"asked", q.n>> \notin Ways(d)'
    BY <2>5 DEF Ways
  <2> QED  BY <2>1, <2>3, <2>4, <2>6
<1> QED  BY <1>3, <1>4

\* What else may happen opens none.
LEMMA RestWays ==
    ASSUME Typed, NEW d,
           \/ \E q \in requests : ResetRow(q) \/ LoseAgain(q)
           \/ \E x \in Endpoints : Toggle(x)
           \/ \E e \in DOMAIN fans : ExpireFanOut(e)
           \/ \E j \in DOMAIN jobs : ExpireDelivery(j)
           \/ UNCHANGED vars
    PROVE  Ways(d)' \subseteq Ways(d)
<1>1. workers' = workers
  BY DEF ResetRow, LoseAgain, Toggle, ExpireFanOut, ExpireDelivery, vars
<1>2. \A e \in DOMAIN fans' : e \in DOMAIN fans /\ fans'[e] = fans[e]
  BY DEF ResetRow, LoseAgain, Toggle, ExpireFanOut, ExpireDelivery, vars
<1>3. \A j \in DOMAIN jobs' : j \in DOMAIN jobs /\ jobs'[j] = jobs[j]
  BY DEF ResetRow, LoseAgain, Toggle, ExpireFanOut, ExpireDelivery, vars
<1>4. \A q \in requests' : \E p \in requests : p.of = q.of /\ p.n = q.n
  <2>1. ASSUME NEW q \in requests, ResetRow(q)
        PROVE  \A r \in requests' : \E p \in requests : p.of = r.of /\ p.n = r.n
    <3>1. PICK s : s = [q EXCEPT !.at = "reset"]
      OBVIOUS
    <3>2. s.of = q.of /\ s.n = q.n
      BY <3>1 DEF Typed, TypeOK
    <3>3. requests' = (requests \ {q}) \cup {s}
      BY <2>1, <3>1 DEF ResetRow
    <3> QED  BY <3>2, <3>3
  <2> QED  BY <2>1 DEF LoseAgain, Toggle, ExpireFanOut, ExpireDelivery, vars
<1>5. PICK X : X = {}
  OBVIOUS
<1>6. Ways(d)' \subseteq Ways(d) \cup X
  BY <1>1, <1>2, <1>3, <1>4, QueueWays
<1> QED  BY <1>5, <1>6

LEMMA OnceEachStep == Typed /\ OnceEach /\ [Next]_vars => OnceEach'
<1> SUFFICES ASSUME Typed, OnceEach, [Next]_vars PROVE OnceEach'
  OBVIOUS
<1>1. ASSUME workers' = workers PROVE OnceEach'
  BY <1>1 DEF OnceEach
<1>2. ASSUME NEW w \in Workers, Others(w),
             workers'[w].pc = "enqueue" => workers'[w].job[1][2] \notin workers'[w].left
      PROVE  OnceEach'
  BY <1>2 DEF OnceEach, Others
<1>3. ASSUME NEW w \in Workers, UpsertRow(w) PROVE OnceEach'
  <2>1. PICK x \in workers[w].left :
          /\ workers'[w].left = workers[w].left \ {x}
          /\ workers'[w].job = <<<<workers[w].event, x>>, 0>>
    BY <1>3, UpsertMoves
  <2> QED  BY <1>2, <1>3, <2>1, UpsertMoves
<1>4. ASSUME NEW w \in Workers, EnqueueRow(w) \/ LoseRow(w) PROVE OnceEach'
  BY <1>2, <1>4, LeaveMoves
<1>5. ASSUME NEW w \in Workers, FannedOut(w) \/ Report(w) \/ Throw(w) \/ Kill(w) PROVE OnceEach'
  BY <1>2, <1>5, IdleMoves
<1>6. ASSUME NEW w \in Workers, Post(w) \/ Settle(w) PROVE OnceEach'
  BY <1>2, <1>6, PostMoves, SettleMoves
<1>7. ASSUME NEW w \in Workers, Stall(w) PROVE OnceEach'
  BY <1>2, <1>7, StallMoves DEF OnceEach
<1>8. ASSUME NEW w \in Workers, NEW e \in DOMAIN fans, LoadFanOut(w, e) PROVE OnceEach'
  BY <1>2, <1>8, FanMoves
<1>9. ASSUME NEW w \in Workers, NEW j \in DOMAIN jobs, LoadDelivery(w, j) PROVE OnceEach'
  <2>1. CASE alreadyDelivered(j[1])
    BY <1>1, <1>9, <2>1 DEF LoadDelivery
  <2>2. CASE ~alreadyDelivered(j[1])
    BY <1>2, <1>9, <2>2, TakesDelivery DEF Others
  <2> QED  BY <2>1, <2>2
<1>10. ASSUME \/ Request
              \/ \E e \in Events : Raise(e)
              \/ \E d \in Deliveries : AskRedelivery(d)
              \/ \E x \in Endpoints : Toggle(x)
              \/ \E e \in DOMAIN fans : ExpireFanOut(e)
              \/ \E j \in DOMAIN jobs : ExpireDelivery(j)
              \/ \E q \in requests : LoseAgain(q)
              \/ UNCHANGED vars
       PROVE  OnceEach'
  BY <1>1, <1>10 DEF Request, ResetRow, EnqueueAgain, Raise, AskRedelivery, Toggle, ExpireFanOut,
                     ExpireDelivery, LoseAgain, vars
<1> QED  BY <1>3, <1>4, <1>5, <1>6, <1>7, <1>8, <1>9, <1>10 DEF Next, Step, Take

\* A step is one raise, one redelivery asked for, one fault, or none of them.
LEMMA Tallies ==
    ASSUME Typed, [Next]_vars
    PROVE  \/ UNCHANGED <<raises, redeliveries, faults>>
           \/ UNCHANGED <<raises, redeliveries>> /\ faults' = faults + 1
           \/ UNCHANGED <<redeliveries, faults>> /\ raises' = raises + 1
           \/ UNCHANGED <<raises, faults>> /\ redeliveries' = redeliveries + 1
<1>1. ASSUME NEW w \in Workers, Step(w) PROVE UNCHANGED <<raises, redeliveries, faults>>
  BY <1>1 DEF Step, UpsertRow, EnqueueRow, FannedOut, Post, Settle, Report, counts
<1>2. ASSUME Take \/ Request PROVE UNCHANGED <<raises, redeliveries, faults>>
  BY <1>2 DEF Take, Request, LoadFanOut, LoadDelivery, ResetRow, EnqueueAgain, counts
<1>3. ASSUME \/ \E w \in Workers : Throw(w) \/ Kill(w) \/ Stall(w) \/ LoseRow(w)
             \/ \E q \in requests : LoseAgain(q)
      PROVE  UNCHANGED <<raises, redeliveries>> /\ faults' = faults + 1
  BY <1>3 DEF Throw, Kill, Stall, LoseRow, LoseAgain, Interrupted, Fault, counts
<1>4. ASSUME NEW e \in Events, Raise(e) PROVE UNCHANGED <<redeliveries, faults>> /\ raises' = raises + 1
  BY <1>4 DEF Raise
<1>5. ASSUME NEW d \in Deliveries, AskRedelivery(d)
      PROVE  UNCHANGED <<raises, faults>> /\ redeliveries' = redeliveries + 1
  BY <1>5 DEF AskRedelivery
<1>6. ASSUME \/ \E x \in Endpoints : Toggle(x)
             \/ \E e \in DOMAIN fans : ExpireFanOut(e)
             \/ \E j \in DOMAIN jobs : ExpireDelivery(j)
             \/ UNCHANGED vars
      PROVE  UNCHANGED <<raises, redeliveries, faults>>
  BY <1>6 DEF Toggle, ExpireFanOut, ExpireDelivery, vars, counts
<1> QED  BY <1>1, <1>2, <1>3, <1>4, <1>5, <1>6 DEF Next

LEMMA AccountedStep ==
    ASSUME Typed, Typed', Numbered, Owned, OnceEach, Accounted, [Next]_vars
    PROVE  Accounted'
<1> SUFFICES ASSUME NEW d \in Deliveries
             PROVE  Within(Ways(d)', successes'[d], raises' + redeliveries' + faults')
  BY DEF Accounted
<1>0. /\ {raises, redeliveries, faults, raises', redeliveries', faults'} \subseteq Nat
      /\ successes[d] \in Nat /\ successes'[d] \in Nat
  BY DEF Typed, TypeOK
<1>1. PICK n, b, S, T : /\ n = successes[d] /\ b = raises + redeliveries + faults
                        /\ S = Ways(d) /\ T = Ways(d)'
  OBVIOUS
<1>2. n \in Nat /\ b \in Nat /\ Within(S, n, b)
  BY <1>0, <1>1 DEF Accounted
<1>3. PICK m, c : m = successes'[d] /\ c = raises' + redeliveries' + faults'
  OBVIOUS
<1>4. c \in Nat /\ (c = b \/ c = b + 1)
  BY <1>0, <1>1, <1>3, Tallies
<1>5. SUFFICES Within(T, m, c)
  BY <1>1, <1>3
<1>6. ASSUME m = n, T \subseteq S PROVE Within(T, m, c)
  BY <1>2, <1>4, <1>6, WithinKept
<1>7. ASSUME m = n, c = b + 1, NEW x, T \subseteq S \cup {x} PROVE Within(T, m, c)
  BY <1>2, <1>7, WithinMore
<1>8. ASSUME m = n, c = b, NEW a \in S, NEW x, T \subseteq (S \ {a}) \cup {x} PROVE Within(T, m, c)
  BY <1>2, <1>8, WithinSwap
<1>9. ASSUME NEW w \in Workers, Step(w) PROVE Within(T, m, c)
  <2>1. c = b
    BY <1>1, <1>3, <1>9 DEF Step, UpsertRow, EnqueueRow, FannedOut, Post, Settle, Report, counts
  <2>2. CASE Post(w)
    <3>1. CASE T \subseteq S /\ m = n
      BY <1>6, <3>1
    <3>2. CASE \E a \in S : T \subseteq S \ {a} /\ m = n + 1
      BY <1>2, <2>1, <3>2, WithinUsed
    <3> QED  BY <1>1, <1>3, <2>2, <3>1, <3>2, PostWays
  <2>3. CASE ~Post(w)
    <3>1. m = n
      BY <1>1, <1>3, <1>9, <2>3 DEF Step, UpsertRow, EnqueueRow, FannedOut, Settle, Report, seen
    <3>2. CASE EnqueueRow(w)
      BY <1>1, <1>6, <1>8, <2>1, <3>1, <3>2, EnqueueWays
    <3>3. CASE UpsertRow(w) \/ FannedOut(w) \/ Settle(w) \/ Report(w)
      <4>1. T \subseteq S
        BY <1>1, <3>3, UpsertWays, FannedOutWays, SettleWays, ReportWays
      <4> QED  BY <1>6, <3>1, <4>1
    <3> QED  BY <1>9, <2>3, <3>2, <3>3 DEF Step
  <2> QED  BY <2>2, <2>3
<1>10. CASE Take
  <2>1. m = n
    BY <1>1, <1>3, <1>10 DEF Take, LoadFanOut, LoadDelivery, seen
  <2> QED  BY <1>1, <1>6, <1>10, <2>1, TakeWays
<1>11. ASSUME NEW q \in requests, EnqueueAgain(q) PROVE Within(T, m, c)
  <2>1. m = n /\ c = b
    BY <1>1, <1>3, <1>11 DEF EnqueueAgain, counts, seen
  <2> QED  BY <1>1, <1>6, <1>8, <1>11, <2>1, AgainWays
<1>12. ASSUME \/ \E q \in requests : ResetRow(q) \/ LoseAgain(q)
              \/ \E x \in Endpoints : Toggle(x)
              \/ \E e \in DOMAIN fans : ExpireFanOut(e)
              \/ \E j \in DOMAIN jobs : ExpireDelivery(j)
              \/ UNCHANGED vars
       PROVE  Within(T, m, c)
  <2>1. m = n
    BY <1>1, <1>3, <1>12 DEF ResetRow, LoseAgain, Toggle, ExpireFanOut, ExpireDelivery, vars, seen
  <2>2. T \subseteq S
    BY <1>1, <1>12, RestWays
  <2> QED  BY <1>6, <2>1, <2>2
<1>13. ASSUME NEW e \in Events, Raise(e) PROVE Within(T, m, c)
  <2>1. m = n /\ c = b + 1
    BY <1>0, <1>1, <1>3, <1>13 DEF Raise, seen
  <2> QED  BY <1>1, <1>7, <1>13, <2>1, RaiseWays
<1>14. ASSUME NEW e \in Deliveries, AskRedelivery(e) PROVE Within(T, m, c)
  <2>1. m = n /\ c = b + 1
    BY <1>0, <1>1, <1>3, <1>14 DEF AskRedelivery, seen
  <2> QED  BY <1>1, <1>7, <1>14, <2>1, AskWays
<1>15. ASSUME NEW w \in Workers, Throw(w) \/ Kill(w) \/ Stall(w) \/ LoseRow(w) PROVE Within(T, m, c)
  <2>0. UNCHANGED <<raises, redeliveries, successes>> /\ faults' = faults + 1
    BY <1>15 DEF Throw, Kill, Stall, LoseRow, Interrupted, Fault, counts, seen
  <2>1. m = n /\ c = b + 1
    BY <1>0, <1>1, <1>3, <2>0
  <2>2. \E x : T \subseteq S \cup {x}
    BY <1>1, <1>15, IdleWays, StallWays, LoseWays
  <2> QED  BY <1>7, <2>1, <2>2
<1> QED  BY <1>9, <1>10, <1>11, <1>12, <1>13, <1>14, <1>15 DEF Next, Request

Succeeded(d) == d \in DOMAIN rows /\ rows[d].status = "SUCCEEDED"

\* The attempts of row d's first job may come to an acceptance: its owner's may,
\* or the row would be tried once the owner, if there is one, lets go of it.
Due(d) ==
    \/ \E w \in Workers : Owner(w, <<d, 0>>) /\ Open(w)
    \/ ~Succeeded(d) /\ \A w \in Workers : Owner(w, <<d, 0>>) => workers[w].pc = "report"

\* All that may still have row d accepted, where nobody asked for it again.
Chances(d) ==
    {<<"stray", w>> : w \in {v \in Workers : Astray(v, d)}}
    \cup (IF Due(d) THEN {<<"row", d>>} ELSE {})

FirstOnly == redeliveries = 0 => \A d \in Deliveries : Within(Chances(d), successes[d], 1 + faults)

LEMMA ChancesStep ==
    ASSUME NEW d, NEW X,
           \A w \in Workers : Astray(w, d)' => Astray(w, d) \/ <<"stray", w>> \in X,
           Due(d)' => Due(d) \/ <<"row", d>> \in X
    PROVE  Chances(d)' \subseteq Chances(d) \cup X
<1> SUFFICES ASSUME NEW t \in Chances(d)' PROVE t \in Chances(d) \cup X
  OBVIOUS
<1>1. CASE \E w \in Workers : t = <<"stray", w>> /\ Astray(w, d)'
  BY <1>1 DEF Chances
<1>2. CASE t = <<"row", d>> /\ Due(d)'
  BY <1>2 DEF Chances
<1> QED  BY <1>1, <1>2 DEF Chances

\* No new chance.
LEMMA ChancesKept ==
    ASSUME NEW d, \A w \in Workers : Astray(w, d)' => Astray(w, d), Due(d)' => Due(d)
    PROVE  Chances(d)' \subseteq Chances(d)
<1>1. PICK X : X = {}
  OBVIOUS
<1>2. Chances(d)' \subseteq Chances(d) \cup X
  BY <1>1, ChancesStep
<1> QED  BY <1>1, <1>2

\* While nobody has asked for a redelivery, a row's only job is its first.
LEMMA FirstJobs ==
    ASSUME Typed, Numbered, Owned, redeliveries = 0
    PROVE  /\ requests = {}
           /\ \A w \in Workers : \A j : Owner(w, j) => j = <<j[1], 0>>
<1>1. requests = {}
  <2>1. ASSUME NEW q \in requests PROVE FALSE
    <3>1. q.n \in Nat /\ 0 < q.n /\ q.n <= 0
      BY DEF Typed, TypeOK, Numbered
    <3> QED  BY <3>1
  <2> QED  BY <2>1
<1>2. ASSUME NEW w \in Workers, NEW j, Owner(w, j) PROVE j = <<j[1], 0>>
  <2>1. j \in DOMAIN jobs
    BY <1>2 DEF Owned
  <2>2. j \in Deliveries \X Nat /\ j[2] <= 0
    BY <2>1 DEF Typed, TypeOK, Numbered
  <2> QED  BY <2>2
<1> QED  BY <1>1, <1>2

\* A worker that delivers nothing, neither before its step nor after.
LEMMA ElsewhereChances ==
    ASSUME NEW w \in Workers, Others(w), ~Delivering(w), ~Delivering(w)', NEW d,
           Succeeded(d) => Succeeded(d)'
    PROVE  Chances(d)' \subseteq Chances(d)
<1>1. (\A j : ~Owner(w, j) /\ ~Owner(w, j)') /\ ~Astray(w, d)'
  BY DEF Owner, Astray
<1>2. Due(d)' => Due(d)
  BY <1>1, OthersSame DEF Due
<1> QED  BY <1>1, <1>2, OthersSame, ChancesKept

LEMMA TakeChances ==
    ASSUME Typed, Owned, NEW w \in Workers, NEW j \in DOMAIN jobs, LoadDelivery(w, j), NEW d
    PROVE  Chances(d)' \subseteq Chances(d)
<1>0. rows' = rows /\ jobs[j].state = "waiting" /\ workers[w].pc = "idle"
  BY DEF LoadDelivery
<1>1. CASE alreadyDelivered(j[1])
  <2>1. workers' = workers
    BY <1>1 DEF LoadDelivery
  <2>2. /\ \A v \in Workers : Astray(v, d)' = Astray(v, d)
        /\ Due(d)' = Due(d)
    BY <1>0, <2>1 DEF Astray, Due, Owner, Open, Delivering, Succeeded
  <2> QED  BY <2>2, ChancesKept
<1>2. CASE ~alreadyDelivered(j[1])
  <2>1. Others(w) /\ workers'[w].pc \in {"post", "settle"} /\ workers'[w].job = j /\ workers'[w].owns
    BY <1>2, TakesDelivery DEF Others
  <2>2. /\ ~Astray(w, d)' /\ (\A k : ~Owner(w, k)) /\ (\A k : Owner(w, k)' => k = j)
        /\ workers'[w].pc # "report"
    BY <1>0, <2>1 DEF Astray, Owner, Delivering
  <2>3. Succeeded(d)' = Succeeded(d)
    BY <1>0 DEF Succeeded
  <2>4. Due(d)' => Due(d)
    <3>1. CASE j = <<d, 0>>
      <4>1. \A v \in Workers : ~Owner(v, <<d, 0>>)
        BY <1>0, <3>1 DEF Owned
      <4>2. ~Succeeded(d)
        BY <1>2, <3>1 DEF alreadyDelivered, Succeeded
      <4> QED  BY <4>1, <4>2 DEF Due
    <3>2. CASE j # <<d, 0>>
      <4>1. \A v \in Workers : Owner(v, <<d, 0>>)' <=> Owner(v, <<d, 0>>)
        BY <2>1, <2>2, <3>2, OthersSame
      <4> QED  BY <2>1, <2>2, <2>3, <3>2, <4>1, OthersSame DEF Due
    <3> QED  BY <3>1, <3>2
  <2> QED  BY <2>1, <2>2, <2>4, OthersSame, ChancesKept
<1> QED  BY <1>1, <1>2

\* An acceptance is one chance used.
LEMMA PostChances ==
    ASSUME Typed, Numbered, Owned, redeliveries = 0, NEW w \in Workers, Post(w), NEW d \in Deliveries
    PROVE  \/ Chances(d)' \subseteq Chances(d) /\ successes'[d] = successes[d]
           \/ \E a \in Chances(d) : Chances(d)' \subseteq Chances(d) \ {a} /\ successes'[d] = successes[d] + 1
<1> DEFINE me == workers[w]
<1>1. rows' = rows
  BY DEF Post
<1>2. /\ Others(w) /\ (\A j : Owner(w, j)' = Owner(w, j))
      /\ Open(w) /\ Delivering(w) /\ (Astray(w, d)' => Astray(w, d))
      /\ me.pc # "report" /\ workers'[w].pc # "report" /\ workers'[w].job = me.job
  BY PostMoves DEF Owner, Astray, Open, Delivering
<1>3. \A v \in Workers : Owner(v, <<d, 0>>)' = Owner(v, <<d, 0>>)
  BY <1>2, OthersSame
<1>4. Succeeded(d)' = Succeeded(d)
  BY <1>1 DEF Succeeded
<1>5. Due(d)' => Due(d)
  BY <1>2, <1>3, <1>4, OthersSame DEF Due
<1>6. Chances(d)' \subseteq Chances(d)
  BY <1>2, <1>5, OthersSame, ChancesKept
<1>7. successes \in [Deliveries -> Nat] /\ me.job[1] \in Deliveries
  BY PostMoves DEF Typed, TypeOK, Holding, Delivering
<1>8. CASE workers'[w].outcome # "accepted" \/ me.job[1] # d
  BY <1>6, <1>7, <1>8, PostMoves
<1>9. CASE workers'[w].outcome = "accepted" /\ me.job[1] = d
  <2>1. successes'[d] = successes[d] + 1
    BY <1>7, <1>9, PostMoves
  <2>2. ~Open(w)'
    BY <1>9, PostMoves DEF Open
  <2>3. CASE me.owns
    <3>1. Owner(w, <<d, 0>>)
      <4>1. Owner(w, me.job)
        BY <1>2, <2>3 DEF Owner
      <4> QED  BY <1>9, <4>1, FirstJobs
    <3>2. Due(d)
      BY <1>2, <3>1 DEF Due
    <3>3. ASSUME NEW v \in Workers, Owner(v, <<d, 0>>)', Open(v)' PROVE FALSE
      <4>1. Owner(v, <<d, 0>>) /\ v # w
        BY <1>3, <2>2, <3>3
      <4> QED  BY <3>1, <4>1 DEF Owned
    <3>4. ~Due(d)'
      BY <1>2, <1>3, <3>1, <3>3 DEF Due
    <3>5. <<"row", d>> \in Chances(d) /\ <<"row", d>> \notin Chances(d)'
      BY <3>2, <3>4 DEF Chances
    <3> QED  BY <1>6, <2>1, <3>5
  <2>4. CASE ~me.owns
    <3>1. Astray(w, d) /\ ~Astray(w, d)'
      BY <1>2, <1>9, <2>2, <2>4 DEF Astray
    <3>2. <<"stray", w>> \in Chances(d) /\ <<"stray", w>> \notin Chances(d)'
      BY <3>1 DEF Chances
    <3> QED  BY <1>6, <2>1, <3>2
  <2> QED  BY <2>3, <2>4
<1> QED  BY <1>8, <1>9

\* A stray attempt that settles the row may have it tried again; it is done itself.
LEMMA SettleChances ==
    ASSUME Typed, Numbered, Owned, redeliveries = 0, NEW w \in Workers, Settle(w), NEW d
    PROVE  \/ Chances(d)' \subseteq Chances(d)
           \/ \E a \in Chances(d) : \E b : Chances(d)' \subseteq (Chances(d) \ {a}) \cup {b}
<1> DEFINE me == workers[w]
<1>1. /\ Others(w) /\ (\A j : Owner(w, j)' = Owner(w, j)) /\ Open(w)' = Open(w)
      /\ Delivering(w) /\ ~Astray(w, d)' /\ me.pc = "settle" /\ workers'[w].pc = "report"
      /\ (Open(w) <=> me.outcome # "accepted")
  BY SettleMoves DEF Owner, Astray, Open, Delivering
<1>2. \A v \in Workers : Owner(v, <<d, 0>>)' = Owner(v, <<d, 0>>) /\ Open(v)' = Open(v)
  BY <1>1, OthersSame
<1>3. \A v \in Workers : Astray(v, d)' => Astray(v, d)
  BY <1>1, OthersSame
<1>4. me.job[1] \in DOMAIN rows
  BY <1>1 DEF Typed, Holding
<1>5. CASE me.job[1] # d
  <2>1. Succeeded(d)' = Succeeded(d)
    BY <1>5, SettleMoves DEF Succeeded
  <2>2. ~Owner(w, <<d, 0>>)
    BY <1>5 DEF Owner
  <2>3. Due(d)' => Due(d)
    BY <1>1, <1>2, <2>1, <2>2, OthersSame DEF Due
  <2> QED  BY <1>3, <2>3, ChancesKept
<1>6. CASE me.job[1] = d /\ ~Open(w)
  <2>1. Succeeded(d)'
    BY <1>1, <1>4, <1>6, SettleMoves DEF Succeeded
  <2>2. Due(d)' => Due(d)
    BY <1>2, <2>1 DEF Due
  <2> QED  BY <1>3, <2>2, ChancesKept
<1>7. CASE me.job[1] = d /\ Open(w) /\ me.owns
  <2>1. Owner(w, me.job)
    BY <1>1, <1>7 DEF Owner
  <2>2. Owner(w, <<d, 0>>)
    BY <1>7, <2>1, FirstJobs
  <2>3. Due(d)
    BY <1>7, <2>2 DEF Due
  <2> QED  BY <1>3, <2>3, ChancesKept
<1>8. CASE me.job[1] = d /\ Open(w) /\ ~me.owns
  <2>1. PICK X : X = {<<"row", d>>}
    OBVIOUS
  <2>2. Chances(d)' \subseteq Chances(d) \cup X
    BY <1>3, <2>1, ChancesStep
  <2>3. Astray(w, d)
    BY <1>1, <1>8 DEF Astray
  <2>4. <<"stray", w>> \in Chances(d) /\ <<"stray", w>> \notin Chances(d)'
    BY <1>1, <2>3 DEF Chances
  <2> QED  BY <2>1, <2>2, <2>4
<1> QED  BY <1>5, <1>6, <1>7, <1>8

LEMMA ReportChances ==
    ASSUME Typed, Numbered, Owned, redeliveries = 0, NEW w \in Workers, Report(w), NEW d
    PROVE  Chances(d)' \subseteq Chances(d)
<1>1. rows' = rows /\ workers[w].pc = "report"
  BY DEF Report
<1>2. Others(w) /\ (\A j : ~Owner(w, j)') /\ ~Astray(w, d)'
  BY IdleMoves DEF Owner, Astray, Delivering
<1>3. Succeeded(d)' = Succeeded(d)
  BY <1>1 DEF Succeeded
<1>4. ASSUME Due(d)' PROVE Due(d)
  <2>1. CASE \E v \in Workers : Owner(v, <<d, 0>>)' /\ Open(v)'
    BY <1>2, <2>1, OthersSame DEF Due
  <2>2. CASE ~Succeeded(d) /\ \A v \in Workers : Owner(v, <<d, 0>>)' => workers'[v].pc = "report"
    <3>1. \A v \in Workers : Owner(v, <<d, 0>>) => workers[v].pc = "report"
      BY <1>1, <1>2, <2>2, OthersSame
    <3> QED  BY <2>2, <3>1 DEF Due
  <2> QED  BY <1>3, <1>4, <2>1, <2>2 DEF Due
<1> QED  BY <1>2, <1>4, OthersSame, ChancesKept

\* An interruption opens one chance, which it pays for.
LEMMA InterruptChances ==
    ASSUME Typed, Numbered, Owned, redeliveries = 0, NEW w \in Workers, Throw(w) \/ Kill(w) \/ Stall(w), NEW d
    PROVE  \E b : Chances(d)' \subseteq Chances(d) \cup {b}
<1>1. CASE Astray(w, d)'
  <2>1. Stall(w) /\ Others(w)
    BY <1>1, IdleMoves, StallMoves DEF Astray, Delivering
  <2>2. Delivering(w) /\ Open(w) /\ workers[w].job[1] = d /\ workers[w].owns
    BY <1>1, <2>1, StallMoves DEF Astray, Delivering, Open
  <2>3. Owner(w, workers[w].job)
    BY <2>2 DEF Owner
  <2>4. Owner(w, <<d, 0>>)
    BY <2>2, <2>3, FirstJobs
  <2>5. Due(d)
    BY <2>2, <2>4 DEF Due
  <2>6. PICK X : X = {<<"stray", w>>}
    OBVIOUS
  <2>7. \A v \in Workers : Astray(v, d)' => Astray(v, d) \/ <<"stray", v>> \in X
    BY <2>1, <2>6, OthersSame
  <2>8. Chances(d)' \subseteq Chances(d) \cup X
    BY <2>5, <2>7, ChancesStep
  <2> QED  BY <2>6, <2>8
<1>2. CASE ~Astray(w, d)'
  <2>1. Others(w)
    BY IdleMoves, StallMoves
  <2>2. PICK X : X = {<<"row", d>>}
    OBVIOUS
  <2>3. Chances(d)' \subseteq Chances(d) \cup X
    BY <1>2, <2>1, <2>2, OthersSame, ChancesStep
  <2> QED  BY <2>2, <2>3
<1> QED  BY <1>1, <1>2

LEMMA FirstOnlyStep ==
    ASSUME Typed, Typed', Numbered, Owned, FirstOnly, [Next]_vars
    PROVE  FirstOnly'
<1> SUFFICES ASSUME redeliveries' = 0, NEW d \in Deliveries
             PROVE  Within(Chances(d)', successes'[d], 1 + faults')
  BY DEF FirstOnly
<1>0. /\ {raises, redeliveries, faults, raises', redeliveries', faults'} \subseteq Nat
      /\ successes[d] \in Nat /\ successes'[d] \in Nat
  BY DEF Typed, TypeOK
<1>1. redeliveries = 0 /\ (faults' = faults \/ faults' = faults + 1)
  BY <1>0, Tallies
<1>2. requests = {}
  BY <1>1, FirstJobs
<1>3. PICK n, b, S, T : n = successes[d] /\ b = 1 + faults /\ S = Chances(d) /\ T = Chances(d)'
  OBVIOUS
<1>4. n \in Nat /\ b \in Nat /\ Within(S, n, b)
  BY <1>0, <1>1, <1>3 DEF FirstOnly
<1>5. PICK m, c : m = successes'[d] /\ c = 1 + faults'
  OBVIOUS
<1>6. c \in Nat /\ (c = b \/ c = b + 1)
  BY <1>0, <1>1, <1>3, <1>5
<1>7. SUFFICES Within(T, m, c)
  BY <1>3, <1>5
<1>8. ASSUME m = n, T \subseteq S PROVE Within(T, m, c)
  BY <1>4, <1>6, <1>8, WithinKept
<1>9. ASSUME m = n, c = b + 1, NEW x, T \subseteq S \cup {x} PROVE Within(T, m, c)
  BY <1>4, <1>9, WithinMore
<1>10. ASSUME m = n, c = b, NEW a \in S, NEW x, T \subseteq (S \ {a}) \cup {x} PROVE Within(T, m, c)
  BY <1>4, <1>10, WithinSwap
<1>11. ASSUME NEW w \in Workers, Step(w) PROVE Within(T, m, c)
  <2>1. c = b
    BY <1>3, <1>5, <1>11 DEF Step, UpsertRow, EnqueueRow, FannedOut, Post, Settle, Report
  <2>2. CASE Post(w)
    <3>1. CASE T \subseteq S /\ m = n
      BY <1>8, <3>1
    <3>2. CASE \E a \in S : T \subseteq S \ {a} /\ m = n + 1
      BY <1>4, <2>1, <3>2, WithinUsed
    <3> QED  BY <1>1, <1>3, <1>5, <2>2, <3>1, <3>2, PostChances
  <2>3. CASE ~Post(w)
    <3>1. m = n
      BY <1>3, <1>5, <1>11, <2>3 DEF Step, UpsertRow, EnqueueRow, FannedOut, Settle, Report, seen
    <3>2. CASE Settle(w)
      BY <1>1, <1>3, <1>8, <1>10, <2>1, <3>1, <3>2, SettleChances
    <3>3. CASE Report(w)
      BY <1>1, <1>3, <1>8, <3>1, <3>3, ReportChances
    <3>4. CASE UpsertRow(w) \/ EnqueueRow(w) \/ FannedOut(w)
      <4>1. Others(w) /\ ~Delivering(w) /\ ~Delivering(w)'
        <5>1. FannedOut(w) => ~Delivering(w)
          BY DEF FannedOut, Delivering
        <5> QED  BY <3>4, <5>1, UpsertMoves, LeaveMoves, IdleMoves DEF Delivering
      <4>2. Succeeded(d) => Succeeded(d)'
        BY <3>4 DEF UpsertRow, EnqueueRow, FannedOut, Succeeded, Put
      <4> QED  BY <1>3, <1>8, <3>1, <4>1, <4>2, ElsewhereChances
    <3> QED  BY <1>11, <2>3, <3>2, <3>3, <3>4 DEF Step
  <2> QED  BY <2>2, <2>3
<1>12. CASE Take
  <2>1. m = n
    BY <1>3, <1>5, <1>12 DEF Take, LoadFanOut, LoadDelivery, seen
  <2>2. ASSUME NEW w \in Workers, NEW e \in DOMAIN fans, LoadFanOut(w, e) PROVE T \subseteq S
    <3>1. Others(w) /\ ~Delivering(w) /\ ~Delivering(w)'
      BY <2>2, FanMoves DEF Delivering
    <3>2. Succeeded(d) => Succeeded(d)'
      BY <2>2 DEF LoadFanOut, Succeeded
    <3> QED  BY <1>3, <3>1, <3>2, ElsewhereChances
  <2>3. ASSUME NEW w \in Workers, NEW j \in DOMAIN jobs, LoadDelivery(w, j) PROVE T \subseteq S
    BY <1>3, <2>3, TakeChances
  <2> QED  BY <1>8, <1>12, <2>1, <2>2, <2>3 DEF Take
<1>13. ASSUME NEW w \in Workers, LoseRow(w) PROVE Within(T, m, c)
  <2>1. m = n
    BY <1>3, <1>5, <1>13 DEF LoseRow, seen
  <2>2. Others(w) /\ ~Delivering(w) /\ ~Delivering(w)'
    BY <1>13, LeaveMoves DEF Delivering
  <2>3. Succeeded(d) => Succeeded(d)'
    BY <1>13 DEF LoseRow, Succeeded
  <2> QED  BY <1>3, <1>8, <2>1, <2>2, <2>3, ElsewhereChances
<1>14. ASSUME NEW w \in Workers, Throw(w) \/ Kill(w) \/ Stall(w) PROVE Within(T, m, c)
  <2>0. UNCHANGED <<successes>> /\ faults' = faults + 1
    BY <1>14 DEF Throw, Kill, Stall, Interrupted, Fault, seen
  <2>1. m = n /\ c = b + 1
    BY <1>0, <1>3, <1>5, <2>0
  <2>2. \E x : T \subseteq S \cup {x}
    BY <1>1, <1>3, <1>14, InterruptChances
  <2> QED  BY <1>9, <2>1, <2>2
<1>15. ASSUME \/ \E e \in Events : Raise(e)
              \/ \E x \in Endpoints : Toggle(x)
              \/ \E e \in DOMAIN fans : ExpireFanOut(e)
              \/ \E j \in DOMAIN jobs : ExpireDelivery(j)
              \/ UNCHANGED vars
       PROVE  Within(T, m, c)
  <2>1. m = n /\ workers' = workers /\ rows' = rows
    BY <1>3, <1>5, <1>15 DEF Raise, Toggle, ExpireFanOut, ExpireDelivery, vars, seen
  <2>2. (\A v \in Workers : Astray(v, d)' = Astray(v, d)) /\ Due(d)' = Due(d)
    BY <2>1 DEF Astray, Due, Owner, Open, Delivering, Succeeded
  <2> QED  BY <1>3, <1>8, <2>1, <2>2, ChancesKept
<1>16. ASSUME NEW e \in Deliveries, AskRedelivery(e) PROVE FALSE
  BY <1>0, <1>1, <1>16 DEF AskRedelivery
<1> QED  BY <1>2, <1>11, <1>12, <1>13, <1>14, <1>15, <1>16 DEF Next, Request

\* Nothing is there before the first event is raised.
Raised == raises = 0 => fans = << >> /\ rows = << >> /\ redeliveries = 0 /\ \A w \in Workers : workers[w].pc = "idle"

LEMMA RaisedStep ==
    ASSUME Typed, Typed', Raised, [Next]_vars
    PROVE  Raised'
<1> SUFFICES ASSUME raises' = 0 PROVE Raised'
  BY DEF Raised
<1>0. raises \in Nat /\ raises' \in Nat
  BY DEF Typed, TypeOK
<1>1. raises = 0
  BY <1>0, Tallies
<1>2. /\ DOMAIN fans = {} /\ DOMAIN rows = {} /\ redeliveries = 0
      /\ \A w \in Workers : workers[w].pc = "idle"
  BY <1>1 DEF Raised
<1>3. DOMAIN jobs = {} /\ requests = {}
  BY <1>2 DEF Typed
<1>4. ASSUME NEW w \in Workers PROVE ~Step(w) /\ ~Throw(w) /\ ~Kill(w) /\ ~Stall(w) /\ ~LoseRow(w)
  BY <1>2 DEF Step, UpsertRow, EnqueueRow, FannedOut, Post, Settle, Report, Throw, Kill, Stall, LoseRow, Interrupted
<1>5. ~Take /\ ~Request
  BY <1>2, <1>3 DEF Take, Request
<1>6. \A d \in Deliveries : ~AskRedelivery(d)
  BY <1>2 DEF AskRedelivery, mayAsk
<1>7. \A e \in Events : ~Raise(e)
  BY <1>0, <1>1 DEF Raise
<1>8. (\E x \in Endpoints : Toggle(x)) \/ UNCHANGED vars
  BY <1>2, <1>3, <1>4, <1>5, <1>6, <1>7 DEF Next
<1> QED  BY <1>1, <1>8 DEF Raised, Toggle, vars

\* Three bounds at once: on what is due, on the first job alone, and that there is a raise.
Bounded == Numbered /\ Owned /\ OnceEach /\ Accounted /\ FirstOnly /\ Raised

LEMMA BoundedStep == Typed /\ Typed' /\ Bounded /\ [Next]_vars => Bounded'
BY NumberedStep, OwnedStep, OnceEachStep, AccountedStep, FirstOnlyStep, RaisedStep DEF Bounded

LEMMA BoundedInit == Init => Bounded
<1> SUFFICES ASSUME Init PROVE Bounded
  OBVIOUS
<1>1. Numbered /\ OnceEach /\ Raised
  BY NumberedInit DEF Init, OnceEach, Raised, Idle
<1>2. \A w \in Workers : ~Delivering(w) /\ ~Fanning(w) /\ ~workers[w].owns
  BY DEF Init, Idle, Delivering, Fanning
<1>3. Owned
  BY <1>2 DEF Owned, Owner, Spreads
<1>4. ASSUME NEW d \in Deliveries PROVE Within(Ways(d), successes[d], raises + redeliveries + faults)
  <2>1. Ways(d) = {}
    BY <1>2 DEF Ways, Strays, Astray, Ahead, Init
  <2>2. successes[d] = 0 /\ raises = 0 /\ redeliveries = 0 /\ faults = 0
    BY DEF Init
  <2> QED  BY <2>1, <2>2, FS_EmptySet DEF Within
<1>5. ASSUME NEW d \in Deliveries PROVE Within(Chances(d), successes[d], 1 + faults)
  <2>1. Chances(d) \subseteq {<<"row", d>>}
    BY <1>2 DEF Chances, Astray
  <2>2. successes[d] = 0 /\ faults = 0
    BY DEF Init
  <2>3. IsFiniteSet({<<"row", d>>}) /\ Cardinality({<<"row", d>>}) = 1
    BY FS_Singleton
  <2> QED  BY <2>1, <2>2, <2>3, CountPart DEF Within
<1> QED  BY <1>1, <1>3, <1>4, <1>5 DEF Bounded, Accounted, FirstOnly

\* With R >= 1 redeliveries of an event raised N >= 1 times, N + R is at most 1 + R * N.
LEMMA SumAtMostProduct ==
    ASSUME NEW n \in Nat, NEW r \in Nat, n >= 1, r >= 1
    PROVE  n + r <= 1 + r * n
<1>1. PICK a \in Nat, c \in Nat : n = a + 1 /\ r = c + 1
  <2>1. n - 1 \in Nat /\ r - 1 \in Nat /\ n = (n - 1) + 1 /\ r = (r - 1) + 1
    OBVIOUS
  <2> QED  BY <2>1
<1>2. (c + 1) * (a + 1) = c * a + c + a + 1
  OBVIOUS
<1>3. c * a \in Nat
  OBVIOUS
<1> QED  BY <1>1, <1>2, <1>3

LEMMA BoundedPosts == Typed /\ Bounded => NoNeedlessPost
<1> SUFFICES ASSUME Typed, Bounded, NEW d \in Deliveries
             PROVE  successes[d] <= 1 + faults + redeliveries * raises
  BY DEF NoNeedlessPost
<1>0. successes[d] \in Nat /\ faults \in Nat /\ redeliveries \in Nat /\ raises \in Nat
  BY DEF Typed, TypeOK
<1>1. CASE redeliveries = 0
  <2>1. Within(Chances(d), successes[d], 1 + faults)
    BY <1>1 DEF Bounded, FirstOnly
  <2>2. Cardinality(Chances(d)) \in Nat
    BY <2>1, FS_CardinalityType DEF Within
  <2>3. successes[d] <= 1 + faults
    BY <1>0, <2>1, <2>2 DEF Within
  <2>4. redeliveries * raises = 0
    BY <1>0, <1>1
  <2> QED  BY <1>0, <2>3, <2>4
<1>2. CASE redeliveries # 0
  <2>1. raises >= 1 /\ redeliveries >= 1
    BY <1>0, <1>2 DEF Bounded, Raised
  <2>2. Within(Ways(d), successes[d], raises + redeliveries + faults)
    BY DEF Bounded, Accounted
  <2>3. Cardinality(Ways(d)) \in Nat
    BY <2>2, FS_CardinalityType DEF Within
  <2>4. successes[d] <= raises + redeliveries + faults
    BY <1>0, <2>2, <2>3 DEF Within
  <2>5. raises + redeliveries <= 1 + redeliveries * raises
    BY <1>0, <2>1, SumAtMostProduct
  <2>6. PICK p : p = redeliveries * raises
    OBVIOUS
  <2>7. p \in Nat
    BY <1>0, <2>6
  <2> QED  BY <1>0, <2>4, <2>5, <2>6, <2>7
<1> QED  BY <1>1, <1>2

\* A receiver accepts a delivery once, and once more only for each interruption
\* and each push by hand (with the raises it runs beside): neither a second raise
\* nor the queue's forgetting a job sends anything again.
THEOREM AcceptedOnce == Spec => []NoNeedlessPost
<1>1. Init => Health /\ Typed /\ Bounded
  BY HealthInit, TypedInit, BoundedInit
<1>2. (Health /\ Typed /\ Bounded) /\ [Next]_vars => (Health /\ Typed /\ Bounded)'
  BY HealthStep, TypedStep, BoundedStep
<1>3. Typed /\ Bounded => NoNeedlessPost
  BY BoundedPosts
<1> QED  BY <1>1, <1>2, <1>3, PTL DEF Spec

=============================================================================
