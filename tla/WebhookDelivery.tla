--------------------------- MODULE WebhookDelivery ---------------------------
(***************************************************************************)
(* Outgoing webhooks: an event is fanned out into one delivery per         *)
(* endpoint, each delivery is a queue job that POSTs and settles its row,  *)
(* and a person may push a settled one again.                              *)
(*                                                                         *)
(* An attempt reads its row, POSTs without holding anything, and writes    *)
(* back what it read plus what happened; two jobs may be at that on one    *)
(* row at once.  External: the receivers' answers, and BullMQ's keeping of *)
(* jobs, modelled from how WebhookQueue and WebhookProcessor use it.       *)
(***************************************************************************)
EXTENDS Integers, FiniteSets

CONSTANTS
    Workers,            \* concurrent job slots of the webhook processor
    Endpoints, Events,  \* subscribed endpoints, and the events raised
    MaxAttempts,        \* WEBHOOK_MAX_ATTEMPTS
    AutoDisableAfter,   \* WEBHOOK_AUTO_DISABLE_AFTER
    FanAttempts,        \* attempts of a fan-out job
    MaxStalls,          \* how often the queue gives a stalled job another worker
    MaxRaises,          \* bound: how many times events are raised
    MaxRedeliveries,    \* bound: how many redeliveries are asked for
    MaxToggles,         \* bound: how many times endpoints are switched
    Faults, MaxFaults,  \* the kinds of fault, and the bound on how many
    None

ASSUME WebhookAssumption ==
    /\ {MaxStalls, MaxRaises, MaxRedeliveries, MaxToggles, MaxFaults} \subseteq Nat
    /\ {MaxAttempts, AutoDisableAfter, FanAttempts} \subseteq Nat \ {0}
    /\ Faults \subseteq {"throw", "kill", "stall", "lost add"}
    /\ None \notin Events

Deliveries == Events \X Endpoints

VARIABLES
    rows,       \* WebhookDelivery: <<event, endpoint>> -> row
    ends,       \* WebhookEndpoint: enabled, and consecutive final failures
    fans, jobs, \* the queue's fan-out jobs by event, deliver jobs by <<row, suffix>>
    workers,
    requests,   \* redeliver requests between their steps
    raises, redeliveries, toggles, faults,      \* counted against the bounds
    settled,    \* observation: how many attempts each row was settled with
    successes,  \* observation: how many POSTs of each row were accepted
    crossed     \* observation: rows that two jobs came to be at, or a job and a request

vars == <<rows, ends, fans, jobs, workers, requests, raises, redeliveries, toggles,
          faults, settled, successes, crossed>>
counts == <<raises, redeliveries, toggles>>
seen == <<settled, successes, crossed>>

Row == [status : {"PENDING", "SUCCEEDED", "FAILED"}, history : Nat]
Job == [state : {"waiting", "active", "done", "failed"}, made : Nat, stalls : Nat]
FreshJob == [state |-> "waiting", made |-> 0, stalls |-> 0]
Outcomes == {"accepted", "retryable", "refused", "disabled"}
Worker == [pc : {"idle", "fan", "enqueue", "post", "settle", "report"},
           event : Events \cup {None}, left : SUBSET Endpoints,
           job : (Deliveries \X Nat) \cup {None}, attempt : Nat, owns : BOOLEAN,
           history : Nat, outcome : Outcomes \cup {None}]
Idle == [pc |-> "idle", event |-> None, left |-> {}, job |-> None, attempt |-> 0,
         owns |-> FALSE, history |-> 0, outcome |-> None]

TypeOK ==
    /\ DOMAIN rows \subseteq Deliveries /\ rows \in [DOMAIN rows -> Row]
    /\ ends \in [Endpoints -> [enabled : BOOLEAN, failures : Nat]]
    /\ DOMAIN fans \subseteq Events /\ fans \in [DOMAIN fans -> Job]
    /\ DOMAIN jobs \subseteq Deliveries \X Nat /\ jobs \in [DOMAIN jobs -> Job]
    /\ workers \in [Workers -> Worker]
    /\ requests \in SUBSET [of : Deliveries, n : Nat, at : {"checked", "reset"}]
    /\ {raises, redeliveries, toggles, faults} \subseteq Nat
    /\ settled \in [Deliveries -> Nat] /\ successes \in [Deliveries -> Nat]
    /\ crossed \subseteq Deliveries

Init ==
    /\ rows = << >> /\ fans = << >> /\ jobs = << >>
    /\ ends = [x \in Endpoints |-> [enabled |-> TRUE, failures |-> 0]]
    /\ workers = [w \in Workers |-> Idle]
    /\ requests = {}
    /\ raises = 0 /\ redeliveries = 0 /\ toggles = 0 /\ faults = 0
    /\ settled = [d \in Deliveries |-> 0] /\ successes = [d \in Deliveries |-> 0]
    /\ crossed = {}

Put(f, x, y) == [z \in DOMAIN f \cup {x} |-> IF z = x THEN y ELSE f[z]]
\* queue.add with a job id: dropped while the queue still holds that id.
Added(queue, id) == IF id \in DOMAIN queue THEN queue ELSE Put(queue, id, FreshJob)
\* A job that threw uses up an attempt; a stalled one is handed out again.
Retried(job, attempts) ==
    [job EXCEPT !.made = @ + 1, !.state = IF job.made + 1 >= attempts THEN "failed" ELSE "waiting"]
Redelivered(job) ==
    [job EXCEPT !.stalls = @ + 1, !.state = IF job.stalls >= MaxStalls THEN "failed" ELSE "waiting"]

\* Mutant: the last attempt's failure is still called a try to come.
finalUnlessRetryable(outcome, attempt) == outcome # "retryable"

\* Whether an attempt that ended so is the delivery's last.
final(outcome, attempt) == outcome # "retryable" \/ attempt >= MaxAttempts

\* Observation: somebody has yet to settle row d.  A job of its waits; a worker is at
\* it, or goes back to the queue for another attempt; or a request is under way.
unsettled(w) ==
    LET me == workers[w] IN
    \/ me.pc \in {"post", "settle"}
    \/ me.pc = "report" /\ me.owns /\ ~final(me.outcome, me.attempt)
engaged(d) ==
    \/ \E j \in DOMAIN jobs : j[1] = d /\ jobs[j].state = "waiting"
    \/ \E w \in Workers : unsettled(w) /\ workers[w].job[1] = d
    \/ \E q \in requests : q.of = d

----------------------------------------------------------------------------
(* Fan-out.                                                                *)

\* The publisher enqueues a fan-out; a replayed run publishes the same event
\* again, which is a new job once the queue has let go of the first.
Raise(e) ==
    /\ raises < MaxRaises
    /\ raises' = raises + 1
    /\ fans' = Added(fans, e)
    /\ UNCHANGED <<rows, ends, jobs, workers, requests, redeliveries, toggles, faults, seen>>

LoadFanOut(w, e) ==
    /\ workers[w].pc = "idle" /\ fans[e].state = "waiting"
    /\ fans' = [fans EXCEPT ![e].state = "active"]
    /\ workers' = [workers EXCEPT ![w] =
           [Idle EXCEPT !.pc = "fan", !.event = e, !.owns = TRUE,
                        !.left = {x \in Endpoints : ends[x].enabled}]]
    /\ UNCHANGED <<rows, ends, jobs, requests, counts, faults, seen>>

\* The upsert on (eventId, endpointId): a retried fan-out finds the row there.
UpsertRow(w) ==
    /\ workers[w].pc = "fan"
    /\ \E x \in workers[w].left :
        LET d == <<workers[w].event, x>> IN
        /\ rows' = IF d \in DOMAIN rows THEN rows
                   ELSE Put(rows, d, [status |-> "PENDING", history |-> 0])
        /\ workers' = [workers EXCEPT ![w].pc = "enqueue", ![w].job = <<d, 0>>,
                                      ![w].left = @ \ {x}]
    /\ UNCHANGED <<ends, fans, jobs, requests, counts, faults, seen>>

EnqueueRow(w) ==
    /\ workers[w].pc = "enqueue"
    /\ jobs' = Added(jobs, workers[w].job)
    /\ workers' = [workers EXCEPT ![w].pc = "fan", ![w].job = None]
    /\ LET d == workers[w].job[1] IN
       crossed' = IF workers[w].job \notin DOMAIN jobs /\ engaged(d) THEN crossed \cup {d} ELSE crossed
    /\ UNCHANGED <<rows, ends, fans, requests, counts, faults, settled, successes>>

FannedOut(w) ==
    /\ workers[w].pc = "fan" /\ workers[w].left = {}
    /\ fans' = IF workers[w].owns THEN [fans EXCEPT ![workers[w].event].state = "done"] ELSE fans
    /\ workers' = [workers EXCEPT ![w] = Idle]
    /\ UNCHANGED <<rows, ends, jobs, requests, counts, faults, seen>>

----------------------------------------------------------------------------
(* Delivery: WebhookDeliveryService.deliver and settle.                    *)

\* Mutant: a delivery that succeeded already is not looked for.
neverDelivered(d) == FALSE

alreadyDelivered(d) == rows[d].status = "SUCCEEDED"

\* A worker takes a deliver job and reads its row and endpoint.
LoadDelivery(w, j) ==
    LET d == j[1]  enabled == ends[d[2]].enabled IN
    /\ workers[w].pc = "idle" /\ jobs[j].state = "waiting"
    /\ IF alreadyDelivered(d)
       THEN /\ jobs' = [jobs EXCEPT ![j].state = "done"]
            /\ UNCHANGED workers
       ELSE /\ jobs' = [jobs EXCEPT ![j].state = "active"]
            /\ workers' = [workers EXCEPT ![w] =
                   [Idle EXCEPT !.pc = IF enabled THEN "post" ELSE "settle",
                                !.outcome = IF enabled THEN None ELSE "disabled",
                                !.job = j, !.attempt = jobs[j].made + 1, !.owns = TRUE,
                                !.history = rows[d].history]]
    /\ UNCHANGED <<rows, ends, fans, requests, counts, faults, seen>>

\* The receiver answers, or does not: 2xx, worth another try, or a refusal.
Post(w) ==
    /\ workers[w].pc = "post"
    /\ \E answer \in {"accepted", "retryable", "refused"} :
        /\ workers' = [workers EXCEPT ![w].pc = "settle", ![w].outcome = answer]
        /\ successes' = IF answer # "accepted" THEN successes
                        ELSE [successes EXCEPT ![workers[w].job[1]] = @ + 1]
    /\ UNCHANGED <<rows, ends, fans, jobs, requests, counts, faults, settled, crossed>>

statusAfter(outcome, attempt) ==
    IF outcome = "accepted" THEN "SUCCEEDED"
    ELSE IF final(outcome, attempt) THEN "FAILED" ELSE "PENDING"

\* Mutant: an endpoint switches off only past the limit.
failingPastLimit(end) ==
    [failures |-> end.failures + 1,
     enabled |-> end.enabled /\ end.failures < AutoDisableAfter]

\* One more final failure, judged after the increment.
failing(end) ==
    [failures |-> end.failures + 1,
     enabled |-> end.enabled /\ end.failures + 1 < AutoDisableAfter]

\* Mutant: a success takes one failure off the count instead of clearing it.
healthDecays(end, outcome, attempt) ==
    IF outcome = "accepted" THEN [end EXCEPT !.failures = @ - 1]
    ELSE IF outcome # "disabled" /\ final(outcome, attempt) THEN failing(end) ELSE end

\* The endpoint's health after an attempt; one it was disabled for, and one
\* to be tried again, do not count.
healthAfter(end, outcome, attempt) ==
    IF outcome = "accepted" THEN [end EXCEPT !.failures = 0]
    ELSE IF outcome # "disabled" /\ final(outcome, attempt) THEN failing(end) ELSE end

\* settle, one transaction: the row gets the history that was read before the
\* POST and this attempt after it.
Settle(w) ==
    LET me == workers[w]  d == me.job[1]  x == d[2] IN
    /\ me.pc = "settle"
    /\ rows' = [rows EXCEPT ![d] = [status |-> statusAfter(me.outcome, me.attempt),
                                    history |-> me.history + 1]]
    /\ ends' = [ends EXCEPT ![x] = healthAfter(@, me.outcome, me.attempt)]
    /\ settled' = [settled EXCEPT ![d] = @ + 1]
    /\ workers' = [workers EXCEPT ![w].pc = "report"]
    /\ UNCHANGED <<fans, jobs, requests, counts, faults, successes, crossed>>

\* deliver returns, throws for another attempt, or throws for good.
Report(w) ==
    LET me == workers[w] IN
    /\ me.pc = "report"
    /\ jobs' = IF ~me.owns THEN jobs
               ELSE [jobs EXCEPT ![me.job] =
                   CASE me.outcome \in {"accepted", "disabled"} -> [@ EXCEPT !.state = "done"]
                     [] me.outcome = "refused" -> [@ EXCEPT !.state = "failed"]
                     [] me.outcome = "retryable" -> Retried(@, MaxAttempts)]
    /\ workers' = [workers EXCEPT ![w] = Idle]
    /\ UNCHANGED <<rows, ends, fans, requests, counts, faults, seen>>

----------------------------------------------------------------------------
(* People.                                                                 *)

\* Mutant: a pending delivery may be pushed too.
mayAskAlways(d) == d \in DOMAIN rows /\ ends[d[2]].enabled

\* A redelivery is for a settled delivery of an enabled endpoint.
mayAsk(d) == d \in DOMAIN rows /\ rows[d].status # "PENDING" /\ ends[d[2]].enabled

\* WebhooksService.redeliver: the checks, on a row read before the reset.  Two
\* may pass them before either resets the row.
AskRedelivery(d) ==
    /\ redeliveries < MaxRedeliveries
    /\ mayAsk(d)
    /\ requests' = requests \cup {[of |-> d, n |-> redeliveries + 1, at |-> "checked"]}
    /\ redeliveries' = redeliveries + 1
    /\ crossed' = IF rows[d].status # "PENDING" /\ engaged(d) THEN crossed \cup {d} ELSE crossed
    /\ UNCHANGED <<rows, ends, fans, jobs, workers, raises, toggles, faults, settled, successes>>

\* WebhookDeliveryService.redeliver: the row starts again ...
ResetRow(q) ==
    /\ q.at = "checked"
    /\ rows' = [rows EXCEPT ![q.of].status = "PENDING"]
    /\ requests' = (requests \ {q}) \cup {[q EXCEPT !.at = "reset"]}
    /\ UNCHANGED <<ends, fans, jobs, workers, counts, faults, seen>>

\* ... and a job of its own is queued for it.
EnqueueAgain(q) ==
    /\ q.at = "reset"
    /\ jobs' = Added(jobs, <<q.of, q.n>>)
    /\ requests' = requests \ {q}
    /\ UNCHANGED <<rows, ends, fans, workers, counts, faults, seen>>

\* An admin switches an endpoint; switching it on clears the count.
Toggle(x) ==
    /\ toggles < MaxToggles
    /\ toggles' = toggles + 1
    /\ ends' = [ends EXCEPT ![x] = IF @.enabled THEN [@ EXCEPT !.enabled = FALSE]
                                   ELSE [enabled |-> TRUE, failures |-> 0]]
    /\ UNCHANGED <<rows, fans, jobs, workers, requests, raises, redeliveries, faults, seen>>

----------------------------------------------------------------------------
(* The queue lets go of settled jobs; and what can go wrong.               *)

ExpireFanOut(e) ==
    /\ fans[e].state \in {"done", "failed"}
    /\ fans' = [x \in DOMAIN fans \ {e} |-> fans[x]]
    /\ UNCHANGED <<rows, ends, jobs, workers, requests, counts, faults, seen>>

ExpireDelivery(j) ==
    /\ jobs[j].state \in {"done", "failed"}
    /\ jobs' = [x \in DOMAIN jobs \ {j} |-> jobs[x]]
    /\ UNCHANGED <<rows, ends, fans, workers, requests, counts, faults, seen>>

Fault(kind) ==
    /\ kind \in Faults /\ faults < MaxFaults
    /\ faults' = faults + 1

\* What becomes of the job of a worker that stops: retried if it threw,
\* handed out again if the queue finds it stalled.  Its row is crossed if the worker
\* goes on all the same, or had settled it and somebody else is to settle it now.
Interrupted(w, threw, goesOn) ==
    LET me == workers[w] IN
    /\ me.pc # "idle"
    /\ fans' = IF me.event = None \/ ~me.owns THEN fans
               ELSE [fans EXCEPT ![me.event] = IF threw THEN Retried(@, FanAttempts)
                                               ELSE Redelivered(@)]
    /\ jobs' = IF me.event # None \/ ~me.owns THEN jobs
               ELSE [jobs EXCEPT ![me.job] = IF threw THEN Retried(@, MaxAttempts)
                                             ELSE Redelivered(@)]
    /\ crossed' = IF /\ me.event = None /\ me.owns
                     /\ \/ goesOn /\ me.pc # "report"
                        \/ ~unsettled(w) /\ engaged(me.job[1])
                  THEN crossed \cup {me.job[1]} ELSE crossed
    /\ UNCHANGED <<rows, ends, requests, counts, settled, successes>>

Throw(w) == Fault("throw") /\ Interrupted(w, TRUE, FALSE) /\ workers' = [workers EXCEPT ![w] = Idle]
Kill(w) == Fault("kill") /\ Interrupted(w, FALSE, FALSE) /\ workers' = [workers EXCEPT ![w] = Idle]
\* The worker loses its lock on the job and goes on working on it.
Stall(w) ==
    /\ Fault("stall") /\ workers[w].owns /\ Interrupted(w, FALSE, TRUE)
    /\ workers' = [workers EXCEPT ![w].owns = FALSE]

\* A job that could not be enqueued is logged and forgotten.
LoseRow(w) ==
    /\ Fault("lost add")
    /\ workers[w].pc = "enqueue"
    /\ workers' = [workers EXCEPT ![w].pc = "fan", ![w].job = None]
    /\ UNCHANGED <<rows, ends, fans, jobs, requests, counts, seen>>

LoseAgain(q) ==
    /\ Fault("lost add")
    /\ q.at = "reset"
    /\ requests' = requests \ {q}
    /\ UNCHANGED <<rows, ends, fans, jobs, workers, counts, seen>>

----------------------------------------------------------------------------
Step(w) ==
    \/ UpsertRow(w) \/ EnqueueRow(w) \/ FannedOut(w)
    \/ Post(w) \/ Settle(w) \/ Report(w)

Take == \E w \in Workers : \/ \E e \in DOMAIN fans : LoadFanOut(w, e)
                           \/ \E j \in DOMAIN jobs : LoadDelivery(w, j)

Request == \E q \in requests : ResetRow(q) \/ EnqueueAgain(q)

Next ==
    \/ \E w \in Workers : Step(w)
    \/ Take \/ Request
    \/ \E e \in Events : Raise(e)
    \/ \E d \in Deliveries : AskRedelivery(d)
    \/ \E x \in Endpoints : Toggle(x)
    \/ \E e \in DOMAIN fans : ExpireFanOut(e)
    \/ \E j \in DOMAIN jobs : ExpireDelivery(j)
    \/ \E w \in Workers : Throw(w) \/ Kill(w) \/ Stall(w) \/ LoseRow(w)
    \/ \E q \in requests : LoseAgain(q)

Spec == Init /\ [][Next]_vars

\* Workers go on with what they hold, waiting jobs are handed out, and a
\* request that has begun is finished.
FairSpec == Spec /\ (\A w \in Workers : WF_vars(Step(w))) /\ WF_vars(Take) /\ WF_vars(Request)

----------------------------------------------------------------------------
(* Properties.                                                             *)

\* An endpoint that reaches the limit of consecutive final failures is off:
\* two final failures that land at once cannot both read the old count.
HealthyWhileEnabled ==
    \A x \in Endpoints : ends[x].enabled => ends[x].failures < AutoDisableAfter

\* A receiver accepts a delivery once, and once more for each worker that was
\* interrupted and each push by hand (whose job may run beside the one of each
\* raise that comes while the row is pending again).  An event raised again, or
\* a job the queue has forgotten, does not by itself send anything twice.
NoNeedlessPost ==
    \A d \in Deliveries : successes[d] <= 1 + faults + redeliveries * raises

\* A pending delivery has a job waiting on it, or somebody about to queue one:
\* what the refusal to redeliver it and the purge's sparing it both rely on.
pending(d) == d \in DOMAIN rows /\ rows[d].status = "PENDING"
PendingHasJob ==
    \A d \in Deliveries : pending(d) =>
        \/ \E j \in DOMAIN jobs : j[1] = d /\ jobs[j].state \in {"waiting", "active"}
        \/ \E q \in requests : q.of = d /\ q.at = "reset"
        \/ \E e \in DOMAIN fans : e = d[1] /\ fans[e].state \in {"waiting", "active"}

\* The row tells the whole story: every attempt it was settled with is on it, across
\* retries, interruptions and pushes by hand, one after another.  An attempt goes
\* missing only from a row that two came to be at, each with its own copy of the
\* history: a push was asked for, or the first job queued again, or a settled job
\* handed out again, while somebody was yet to settle the settled row; or a worker
\* went on with a job that the queue had given to another.
HistoryWhole == \A d \in DOMAIN rows \ crossed : rows[d].history = settled[d]

\* A pending delivery is settled in the end.
EverySettled ==
    \A d \in Deliveries :
        pending(d) ~> ~pending(d)

=============================================================================
