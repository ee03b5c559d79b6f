# CoreTask: formal models

TLA+ modules for the parts of CoreTask where the order of things matters: the
automation engine and its clock, the versions of rules, outgoing webhooks, who is in a
workspace, signed-in sessions, dependencies between tasks, repeating tasks, creates that
may be repeated, and the sync with Asana.  TLC checks small instances; TLAPS proves the
theorems listed below for every instance.

Paths are relative to `src/`; `api/` is short for `api/src/modules/`.

## 1. The system

CoreTask is a work-management service: a NestJS API over PostgreSQL (Prisma), a web
application, and worker processes that take jobs from Redis queues (BullMQ).  Any
number of API and worker processes run side by side, and share the database, the
queues and a realtime relay.

Most requests read, check and write in one transaction; what can go wrong there is
what one transaction can see of another.  The hard part is what outlives a request:
jobs that run at least once, in any order, on workers that stop; rows that a job reads
before it calls out and writes after; rows that a tick claims before it acts.

| Component | State it keeps | Operations | Talks to | What makes it correct |
|---|---|---|---|---|
| Automation runner (`api/automations/automation-runner.service.ts`) | `AutomationExecution` rows and their log rows | `handle`: select rules, `begin` or `replay`, `plan`, `perform`, `scheduleDelays`, `finish`, roll-up, unblocking | writes tasks; raises events through the publisher | a step acts once per event; a run says truthfully what it did; chains end; what a step raised goes out |
| Event publisher and queue (`api/automations/automation-event.publisher.ts`) | jobs in Redis, by job id | `publish`, `runKey`, derived ids | runner, webhook queue | one occurrence has one id |
| Automation clock (`automation-clock.service.ts`) | waiting runs, schedule cursors, date firings | `runDelays`, schedules, date triggers, every minute | publisher | each due thing fires once, none is skipped |
| Rule editing (`automations.service.ts`) | rule status, published version, draft | publish, pause, edit the draft | read by the runner and the clock | a run finishes on the version it started on; version numbers are unique |
| Builder, compiler, validator, AI | none of their own | convert and validate rule graphs | rule editing | pure functions |
| Webhook delivery (`api/webhooks/webhook-delivery.service.ts`, `jobs/webhook/`) | delivery rows with attempts, jobs | fan out, deliver, settle, redeliver, purge, ping, rule sends | receivers | nothing accepted is sent again unasked; every attempt is on the record; a delivery is settled |
| Webhook endpoints (`webhooks.service.ts`) | enabled flag, failure count, secrets | create, update, remove, rotate, redeliver | delivery | an endpoint that keeps failing is off |
| Tasks, relations, recurrence (`api/tasks/`, `api/task-relations/`) | task rows, blockers, next occurrences | create, update, complete, move | raise events | a completion is announced; a recurring task yields one next task; no cycle of blockers |
| Positions (`common/utils/position.util.ts`, sections, work items) | fractional positions | midpoint, rebalance | tasks, sections | the order people asked for survives concurrent moves |
| Sessions and tokens (`api/auth/token.service.ts`, `webapp/src/lib/api/client.ts`) | refresh-token rows by session | issue, rotate, revoke; single-flight refresh in the client | every request | one live token per session; reuse ends the session |
| Two-step verification, e-mail change, OAuth, API keys, SSO protocols | their rows | request-scoped | auth | a code or a grant is used once |
| Workspaces, members, invitations, teams (`api/members/`, `api/invitations/`, `api/workspace-members/`) | memberships, departures, invitations, roles | invite, accept, change role, remove, leave, deactivate, transfer | access checks, SAML, the import, account deletion | a workspace has one owner; who left stays out until asked back; no open work waits on somebody who is out |
| Account and workspace deletion (`api/account-deletion/`) | accounts, workspaces | purge, leave, scrub | members | deleted people are in no workspace; nobody else loses one |
| Idempotent creates (`common/interceptors/idempotency.interceptor.ts`) | a key in Redis | claim, remember, release | any create | a key creates one record |
| Projects, access, sharing, fields, comments, notifications, tickets | their rows | request-scoped | realtime, e-mail | what a role allows |
| Attachments and the sweeper | rows and stored objects | presign, confirm, sweep | object store | a confirmed attachment is never swept |
| Asana import and live sync (`api/asana-import/`, `jobs/import/`) | import rows, references, stream tokens, jobs | full run, live tick, nightly run, closing dead runs | Asana | no change is dropped for good, no record is imported twice |
| Realtime relay, e-mail queue, search, reports, UI | little or none | broadcast, send, query | | best effort |

`PROJECT.json` lists every component with what is modelled of it, and each hazard at
its line with the properties aimed at it.

### How the modelled parts interact

1. A request (or a rule's step) writes to a task, and *then* hands an event to the
   publisher.  The publisher adds one job for the automation queue and one fan-out job
   for the webhook queue, each under an id taken from the event's; BullMQ drops an add
   whose id it still holds.  A failed add is logged and forgotten.
2. An automation worker takes the job and reads the live rules for it.  For every rule
   it inserts an execution row whose unique key is (rule, event); finding the row there
   it replays what the row's finished steps asked to have sent, and does nothing else.
3. What the steps raise is collected and published when the rules are through: a later
   job, one level deeper, on the same chain.
4. A Wait step leaves a row.  The clock's tick, every minute, claims a due row by a
   compare-and-set and publishes the event again, past the Wait, for that rule and version.
5. A webhook worker turns an event into a row and a job per endpoint.  A deliver job
   reads its row, POSTs, and settles row and endpoint in one transaction.  A person may
   push a settled row again, which queues a second job for it.
6. A completion does three things: the edit that stamps `completedAt` makes the next
   occurrence of a repeating task, its event's job (there is one if the task is in a project)
   looks for tasks it has freed, and the roll-up looks at the parent.  Unlinking a blocker frees tasks as well, in the request.
7. Memberships are changed by requests, by SAML sign-ins, by the import's job and by
   account deletion; each checks what it read and writes in a later transaction.
8. The import queue's single worker runs full imports and the minute's live ticks one at
   a time; people start runs and switch live sync meanwhile.

### What is hard

* A job is run *at least* once.  It may throw between any two writes (and is retried),
  its worker may die (and it is handed out again), or its worker may lose its lock and
  go on beside the one that took the job over.
* The queue forgets settled jobs, and then takes the same id again.
* Counts a decision rests on (`allowance`) are written by other runs only when they end.
* What was read before a POST is written back after it.
* People publish and pause rules, and switch endpoints, meanwhile.
* A request checks in one query and writes in another; the database only refuses what a
  unique key or a condition of the write itself names.
* A tick claims before it says, may overlap the next one, and may stop in between.
* A browser may never get the reply that carries its next token.

## 2. The modules

| Module | What it is |
|---|---|
| `AutomationEngine` | the queue, workers, runs, waits and the clock's resumption |
| `RuleLedger` | the abstract specification: what the engine promises of its answers |
| `AutomationEngineProofs` | theorems `EngineTyped`, `StepsActOnce`, `CompletedMeansAll`, `RunsAreALedger`, `ResumptionsKeepTheirVersion`, `WhatIsRaisedIsHandedOn`, `ChainsEnd` |
| `MCEngine` | small projects of rules and tasks for TLC |
| `AutomationClock` | rules' drafts and versions, the tick's schedules and date triggers |
| `AutomationClockProofs` | theorems `ClockTyped`, `AnnouncedOnce`, `ClaimsAreSaid`, `RunsMetLiveRules`, `VersionsAreWhole`, `NewestIsRun`, `VersionsOnlyGrow` |
| `MCClock` | one rule, one task, three configurations for TLC |
| `WebhookDelivery` | fan-out, delivery, settling, endpoint health, redelivery |
| `WebhookDeliveryProofs` | theorems `EndpointHealth`, `WebhooksTyped`, `PendingIsCarried`, `HistoriesAreWhole`, `AcceptedOnce` |
| `MCWebhook` | its symmetry for TLC |
| `WorkspaceMembers` | roles, ownership, invitations, SAML, import, leaving, deletion |
| `WorkspaceMembersProofs` | theorems `MembersTyped`, `OneOwnerKept`, `WorkIsReachable`, `DeletedStayOut`, `OnlyInvitedReturn`, `NobodyIsEvicted` |
| `MCMembers` | its symmetry for TLC |
| `AsanaSync` | full runs and live ticks over one Asana project, each with a pool of hands |
| `AsanaSyncProofs` | theorems `SyncMakesOneRow`, `NoChangeIsLost` |
| `MCAsana` | a task and its subtask, and the fair specification, for TLC |
| `Sessions`, `SessionsProofs` | refresh tokens; theorems `OneRowOpen`, `EndedStayEnded`, `OwnBrowserTrusted` |
| `TaskDependencies`, `TaskDependenciesProofs` | which task waits on which, and who is told it is free; theorems `NoRing`, `TheFreedAreTold` |
| `TaskCompletion` | completing a repeating task |
| `IdempotentCreate` | one Idempotency-Key |
| `RequestProofs` | theorems `NextOccurrenceOnce` of the first, `KeyCreatesOnce` of the second |
| `MCRequests` | the four of the request side, side by side for TLC |

### AutomationEngine

*State.*  `completed` is `completedAt` of tasks; `active` and `published` the rules'
status and live version; `jobs` the queue by job id; `runs` the `AutomationExecution`
rows by their unique key (rule, run key) with their log rows; `waits` the
`AutomationDelayedRun` rows; `workers` what each job slot holds in local variables,
its `pc` naming the call it is about to make.  `acted`, `again` and `sent` only observe.

*Actions.*  One per write or read another actor could come between:

| Action | Code |
|---|---|
| `Complete`, `Change` | a request's write and its publish |
| `Publish`, `Pause` | what publishing and pausing change for the engine |
| `Load`, `StopAtDepth` | `handle`: depth limit, `runnableRules`, self-retrigger, `allowChaining` |
| `Begin`, `CloseStopped`, `Collect` | `begin`, `replay` |
| `Skip`, `Plan` | condition not met, or an AI check that could not be asked; `plan` and `allowance` |
| `Act`, `Log`, `Count`, `Refuse` | `perform`, `runAction`, `stoppedByChain` |
| `ScheduleDelays`, `Finish` | the same names |
| `RulesThrough`, `PublishNext`, `Settle` | roll-up, unblocking; the processor's publishing; the job's end |
| `ClaimWait`, `ResumeWait` | `runDelays` |
| `Throw`, `Kill`, `Stall`, `LoseAdd`, `Expire`, `TickDies` | what can go wrong |

*Names.*  A random UUID is a fresh number.  A derived id extends the id it is derived
from, so that deriving it twice yields the same id, as hashing does.

*Abstractions.*  A plan is a list of steps with Waits (the tree walk is to come), and a
condition holds or does not, freely, for the versions that have one.  `changed` stands
for one watched field.  Tasks are not reopened.  `begin`'s read, insert and recovery from
the unique violation come to one test of the row, which is what the unique key makes of
them.  The tick's read of the rule's status goes with its claim.  A step may throw after
its write has landed.  Steps other than completing or changing the task, ticket rules and
runs without a task, webhook and e-mail follow-ups (they leave by the same door as events),
statistics and the activity feed are left out.

### RuleLedger

The promise without queue, worker or retry: an answer (one rule on one event) is opened
once, its steps are performed in order and once each while it is open, and closed it is
never touched again.  `AutomationEngine` instantiates it with

    opened    <- the keys that have a run
    closed    <- those whose run is not RUNNING
    performed <- the steps acted

and `KeepsLedger` says the engine implements it, **as long as no worker outlives its lock
on a job**: a stalled worker goes on with a run the next one has closed, and then the
ledger does not hold (`engine_ledger` therefore takes every fault but `stall`; `engine_faults`
takes `stall`, where steps still act once).

### WebhookDelivery

*State.*  `rows` are `WebhookDelivery` rows (status, number of recorded attempts), `ends`
the endpoints (enabled, consecutive final failures), `fans` and `jobs` the queue's two
kinds of job by id, `workers` the job slots, `requests` redeliver calls between their
steps.  `settled`, `successes` and `crossed` observe.

*Actions.*  `Raise`, `LoadFanOut`, `UpsertRow`, `EnqueueRow`, `FannedOut` are the fan-out;
`LoadDelivery`, `Post`, `Settle`, `Report` are `deliver` and `settle`; `AskRedelivery`
(the checks of `WebhooksService.redeliver`), `ResetRow` and `EnqueueAgain` a redelivery;
`Toggle` an admin's switch; the rest is the queue forgetting jobs, and faults.  The
receiver's answer is free: accepted, worth another try, refused.

`settle` writes the history that was read before the POST plus this attempt, so an attempt
is lost where two are at one row at once, each with its copy.  `crossed` holds the rows where
that came about, by what each step finds: a redelivery that passes its checks, the first job
queued again, or a settled job handed out again, while somebody is yet to settle a row that
is settled (`engaged`); and a worker that goes on with a job the queue has given to another.
`HistoryWhole` excuses those rows and no others: redeliveries one after the other, raises
repeated, retries and interruptions are all in what it says.

*Left out.*  Rule sends, status-update fan-outs and pings (they go through the same
`deliver` and `settle`), the Slack bot's post, audiences, secrets, removal of endpoints, the
purge.

### AutomationClock

*State.*  `rules` are `AutomationRule` rows (draft steps and trigger columns, status,
published version, `publishedAt`, the schedule's cursor), `versions` the
`AutomationRuleVersion` rows, `firings` the `AutomationClockFiring` rows, `tasks` open or not
with the watched date; `managers` and `ticks` are requests and ticks between their steps.
A *configuration* stands for a canvas or for a setting of the trigger columns; a canvas sets the
columns to the configuration of its own trigger node, and the bare canvas `None` has no such node.
A save sends a canvas, columns, or both, out of the constant `Bodies`: columns that are named win,
else they follow the canvas's trigger node, else they are left alone.  So steps and trigger may well
differ, and what makes a version whole is that some one request set out to leave just that (`meant`).

| Action | Code |
|---|---|
| `Save`, `Revert`, `WriteColumns` | `update`, `revert`: the canvas, then the trigger columns that follow it or are named |
| `SaveColumns` | `update` without a canvas: one write of the columns named |
| `ReadRule`, `NextNumber`, `Commit` | `publish`: read, number from the latest, insert under the unique key |
| `Pause` | `setStatus` |
| `Remove`, `Archive`, `Delete` | `remove`: the rule is read, and archived or deleted, with its versions and firings, in a later query |
| `StartTick`, `ClaimSchedule`, `ReadScope`, `RunScheduled` | `tick`, `runSchedules`, `runScheduled` |
| `StartDates`, `LookAtDates`, `CreateFiring`, `Announce` | `runDateTriggers` |
| `Close`, `MoveDate`, `Advance` | what the tick finds changed |
| `TickDies`, `RequestEnds` | a process that stops; a row that is gone |

*Abstractions.*  Calendars and time zones are the constant `Occurs`; a tick's clock is
the moment it started at.  Ticket schedules and conditions on the scope are left out.  A request that
names only one of `triggerType` and `triggerConfig` is taken to name a configuration; of what `publish`
refuses only the canvas without a trigger is modelled, the rest would only cut behaviours off.  Other
writers of rules (`structured/automation-definition.service.ts`, templates and bundles) are left out.

### WorkspaceMembers

One workspace, its people, one open task.  Every operation is two steps: `Ask...` reads
and checks, the operation of the code's name writes in one transaction what the code writes
there, with the code's own conditions on the write (`updateMany` on a role, a unique key, a
row that must be there).  `row` and `byRow` remember *which* row was read, so that a member
removed and let in again is another row.  `overlaps` observes, by kind, what a write did
after what it had read changed; each property excuses one kind and no more.

*Abstractions.*  Teams, projects and followers go with the membership in the same
transaction; expiry of offers and capacity only refuse.  A request that dies is one whose
second step never comes.

### Sessions

`tokenRows` are a family's `RefreshToken` rows in the order they were made, `jar` the
row whose token the browser's cookie holds, `calls` refreshes between their steps: sent, read by
`rotate`, written by `issue`, answered, and the reply may be lost.  Tabs of one browser share the
cookie and not the single flight (`refreshInFlight` is a variable of the page).

### TaskDependencies, TaskCompletion, IdempotentCreate

`TaskDependencies` adds a link after a walk that asks the database once for each hop,
removes one with the check of `announceIfUnblocked`, and has the completion's job look for freed tasks,
while tasks are completed, reopened, archived and restored.  A completion is a write and then a `Publish`,
which a stop or a failing add may lose, and of a person's edit there is one only if the task is in a project
(`placed`); a completion by a rule is a level deeper in its chain, and a job at the depth limit stops before it
looks for anybody.  `lapsed` observes the tasks that came free where the code says nothing or the word was lost;
a task leaves it when it is blocked again.
`TaskCompletion` has three ways to complete a task: the pane and a rule read it once, the list reads
it twice (`ProjectWorkItemService.update`, then the repository's); whoever finds its write
completed the task goes on to `spawn`, whose claim on `nextOccurrenceId` decides.  A row has both
`status` and the definition, and what is `shown` is the definition where there is one: the pane writes `status`, the list
and a rule either, a column of the board the definition and no `completedAt`.
`IdempotentCreate` is the life of one key: claim (SET NX, then GET), create, remember, release, expiry.

They share no row with each other or with `Sessions`; `MCRequests` checks all four in one run, a
behaviour exercising one of them, and the modules stand alone for the proofs.

### AsanaSync

*State.*  `source` is what Asana has, `copies` each record's rows here and the version they
show, `refs` the `ExternalRef` rows, `stream` and `named` the event stream and what unread
events are about, `sync` the `AsanaLiveSync` row, `runs` the unfinished `ImportRun` rows and
whether the queue holds their job, `importer` the worker, `cache` the references a prepared live
run keeps from tick to tick.  Asana is the environment: records change at will.

`hands` is what the pool is at, by record taken up and record in hand: several records are between their read,
their write and their `remember` at once.

*Actions.*  `TakeRun`, `FinishRun` are a full run; `StartTick`, `ReadStream`, `EndTick` a live tick; in both, a hand
takes up a record (`TakeUp`), writes it and, when the row is new, remembers it (`Write`, `Remember`).  In a tick a hand with a
subtask whose task has no ref brings the task first (`BringTask`, `livePlacement`'s call of `syncTask`), and leaves the subtask
out if it does not come (`LeaveOut`); another hand may be at the same task, and each makes a row.  A run has the guard of `writtenTasks`
and goes through a task's subtasks after it, so two of its hands never meet in a record.
`CreateRun`, `AddJob`, `ClearRequest` are a tick that asks for a full run;
`AskRun`, `SwitchOn`, `SwitchOff`, `RequestNightlyRuns`, `CloseDeadRun` people and the clock; `Fail`,
`FailRun`, `Kill`, `CloseLateRun`, `TokenLapses` what can go wrong.

*Abstractions.*  A record has subtasks and they have none; the code follows parents five deep (`MAX_LIVE_DEPTH`).  What a run
lists, it lists at one moment.  The subtasks of a deleted task are archived one by one, where the code archives them with
it.  A run fails as a whole (`FailRun`) only between records.

## 3. What the runs check

| Run | Properties | What it shows |
|---|---|---|
| `engine_faults` | `TypeOK`, `NoStepTwice`, `CompletedDidAll`, `ChainWithinCap` | two rules that set each other off, two workers, two faults (a call that throws, a worker that dies or loses its lock, a job id the queue forgets): no step acts twice; a run called COMPLETED did all of its plan; one change sets off no more steps than the chain cap, plus one run for each other worker and each fault |
| `engine_ledger` | `ResumesItsRun`, `KeepsLedger` | a rule that waits is republished or paused meanwhile, with one fault: the resumed run finishes on its version and past its Wait; the runs refine the ledger |
| `engine_live` | `FollowUpsSent`, `RollupHeard`, `WaitsAnswered` | two subtasks completed, a worker may die: all that finished steps raised is sent, the parent is heard of, the waiting run is resumed, and the engine comes to rest |
| `webhook_safety` | `TypeOK`, `HealthyWhileEnabled`, `NoNeedlessPost`, `HistoryWhole` | an event raised twice, a redelivery, a switch, one fault of any kind, two workers: an endpoint at the limit is off, nothing is sent again without a reason, every attempt is on the record of a row that no two came to be at |
| `webhook_live` | `PendingHasJob`, `HistoryWhole`, `EverySettled` | two redeliveries, one after the other or at once, and a switch, no faults: a pending row has a job and is settled; every attempt is on the record of a row that no two came to be at |
| `clock_ticks` | `TypeOK`, `FiresOnce`, `ClaimedIsSaid`, `RunWasLive` | two ticks that overlap, a fault, a manager who changes the rule under them: nothing is announced twice, nothing claimed goes unsaid without a fault, and what is run met its rule live on that schedule, but for a rule that has run before and was published again |
| `rule_versions` | `VersionsWhole`, `NewestRuns`, `HistoryKept`, `SchedulesHeard` | two managers and a tick; canvas and columns saved together or alone, a trigger named beside the canvas, a canvas without one: a version is what some one request set out to leave, numbers have no gaps or doubles, the newest runs, a removal deletes no version but of a publish that slipped under it, a schedule that is due is heard in the end |
| `members` | `MembersTypeOK`, `OneOwnerUnlessMoved`, `NoWorkStranded`, `DeletedAreOut`, `ReturnsInvited`, `NobodyEvicted` | three people, three requests of any kind, two at once, from every mix of roles, departures and offers |
| `asana_sync` | `NoDoubles`, `ChangesAwaited`, `CatchesUp` | a task and its subtask, two hands, two changes, three switches or runs, one fault: no record twice but by two hands of a tick at a new one, every change not here is still to be fetched, and all are here in the end |
| `requests` | `OneOpenRow`, `SignedOutStaysOut`, `OnlyStrangersBlamed`, `NoLoop`, `FreedIsTold`, `OneNext`, `CreatedOnce` | the four components of the request side |
| `engine_rollup_twice` | `RollupOnce` (violated) | finding 1 |
| `owners_race` | `OneOwner` (violated) | finding 2 |

Several properties name what they except ("unless two publishes overlapped").  The exception
is an observation variable set by exactly that overlap and nothing else, so that what is
left is the code's own guarantee; section 3's list of deviations says what happens in
the excepted cases.

Deadlock is checked of the clock, which ticks for ever.  Elsewhere it is not: with no event
left the engine and the queues rest, and the bounded requests run out.

### Bounds, and why they are enough

* *Two workers* give every pair of concurrent attempts, a stalled worker beside the one that
  took its job over being such a pair.  One suffices for `engine_live`, where the hazard
  is the crash and the order of jobs.
* *One fault* may fall between any two writes of any run.  `engine_faults` takes *two*, because a published
  event comes round again only if its raiser is interrupted *and* the queue has forgotten its job.
* *`MaxDepth` 1 or 2, `PerRun` 2, `PerChain` 3* (the code has 5, 25 and 100): small enough that each limit cuts
  something.  The older rule has three steps, so the run's cap cuts its first run; the chain's cap then refuses
  the next, and after a crash cuts one in the middle.
* *One edit* starts the whole chain in the ping-pong project; *two* edits are for the two subtasks.
* *One switch* publishes `v1b` over `v1` or pauses a rule, at any moment.
* *`Attempts` 2 and `MaxStalls` 1* let a job be retried, be handed out again, and be given up.
* *`MaxAttempts` 2 and `AutoDisableAfter` 2* have a first and a last attempt, and a failure
  before the one that switches the endpoint off.  One endpoint and one event: deliveries of
  different rows meet only in the endpoint's count, which two jobs of one row reach as well.
* *Two ticks, moments 0 to 3, a grace of 1*: a tick may lag one moment or two, hence a moment is run in time, run
  late, or passed over; two schedules and a date trigger share the one rule by being published over each other.
* *Three people, two requests at once*: actor, target and heir, or two actors who meet in one target.  A third
  request at once adds nothing: a write depends on one earlier read.
* *Three refresh calls, two tabs of one browser and one of another*: crossing rotations need two, and a
  third comes after them.
* *Three tasks, at most one of them in no project, two links a task, two link requests*: loops of two and of three.  *Five
  turns* (links asked for or removed, tasks completed, reopened, archived, restored): a link made, the blocked task completed, its
  blocker completed and worked through, and the task reopened takes four.  *`MaxDepth` 1*: a person's completion is heard, a rule's
  is stopped.  *One word lost*: a second says nothing new, for each stands in `lapsed` by itself.
* *Two edits at once, four in all, one failure*: two edits race in a claim, and others come before and after them.
* *Three requests with two bodies, four in all, two faults*: a repeat beside the first, a repeat after it, another body.
* *A task and its subtask, two hands, two changes, one fault* of the sync: the subtask's hand brings the task while the
  other has it or not; a change before and after whatever the fault cuts.
* *Two managers, three requests, four bodies* (a canvas with its trigger, one of the other kind, one with another trigger named, one
  with none): every way the columns are written meets a publish between the two writes, and a third request after them.

### Fairness

`FairSpec` assumes, of the engine, that a worker which holds a job goes on (`Step`), that the queue
hands out what waits (`Take`), and that the clock ticks (`Clock`): BullMQ workers run
for as long as the process does, and the maintenance queue repeats the clock's job every
minute.  Of the webhooks, `Step`, `Take`, and that a request which has begun is finished
(`Request`).  Of the clock, that ticks start and go on (the maintenance queue repeats them every minute); time
itself need not pass.  Of the sync, that the worker goes on and takes
what waits, that the status page closes dead runs, and that nights come again and again (strong: `RequestNightlyRuns` is
enabled only while live sync is on, and the claim is made for live sync that stays on).  All others are weak.
People and faults get none: edits, switches and faults may never happen.

### Findings

1. **The parent's event is raised twice** (`automation-runner.service.ts:584`).  The roll-up names it
   after the subtask whose completion raised it.  Two subtasks completed before either job
   has run both find the checklist empty: two ids, two runs, every rule acts on the parent twice.
   The method's comment gives just that as the harm to avoid.
2. **Two owners, or none** (`members.service.ts:439`).  `transferOwnership`, `updateRole`, `remove` and `deactivate`
   read and check before their transaction, and the transaction does not look again.  A removal or role change of the
   heir, checked before a transfer and written after it, leaves no owner; two transfers at once leave two.  The method's
   comment says there is never an instant with two owners or none.

### Other deviations met while modelling

The models contain these behaviours; properties except them by name.

* A chain with crashes performs more than the documented overshoot: `actionsRun` is written when a run's steps are over
  (`automation-runner.service.ts:1185`), so a run that stops before that is never counted, while the comment at 1196-1199
  says the sum can be short by one run's worth.  `ChainWithinCap` allows a run for each fault.
* A retry replays only rules it still finds live (`:423`): what the steps of a rule paused in between raised is never sent.
* A rule paused over one of its moments and published again within the grace period runs that moment after all
  (`automation-clock.service.ts:167`): once there is a cursor, `publishedAt` is not looked at.
* Saving a rule is two writes; a publish, a save or a crash in between makes a version whose trigger is not the one drawn
  or named with its steps, which the comment at `automations.service.ts:246` sets out to rule out.
* Removing a rule reads that it was never published and deletes it in a later query (`automations.service.ts:744-756`): a publish in
  between goes with it, versions and all (`onDelete: Cascade`), though the comment above it says a draft has no history to lose.
* Two that are at one delivery's row at once each write back the history they read before their POST, and one attempt is lost
  (`webhook-delivery.service.ts:630`): two redeliveries, a redelivery beside a late first job, a worker that lost its lock; a delivery whose `add` failed stays PENDING, to be neither redelivered nor purged
  (`webhook.queue.ts:60`).
* The nightly import makes everybody on Asana's list a member, whoever left or was put out; the comment at
  `members.service.ts:378` reads otherwise.  `transferOwnership` takes a deactivated heir.
* `status`, the definition and `completedAt` of a task disagree after one edit (`tasks.service.ts:590` says the first and the last
  never can): the list with a definition leaves `status` (`task-work-item.repository.ts:384-392`), the pane leaves the definition
  (`tasks.service.ts:588-597`), a move on the board leaves `completedAt` (`:270-298`, `:315-331`); two edits at once add to it.
  No property states that they agree.  The list, which reads twice, may complete a repeating task without making its next occurrence.
* Completing a blocker that is in no project tells nobody (`tasks.service.ts:724`), nor does a completion stopped at the depth limit
  (`automation-runner.service.ts:328`), one whose event is lost between write and queue, one the list finds undone only the second time
  it reads, or one that an import from Asana writes (`asana-import-run.ts:1490`; its links are not checked for loops either, `:2958`).
  Unlinking a finished blocker before its completion's job has run tells nobody, nor does archiving a blocker.  A task
  that was completed or archived when it came free is passed over (`automation-runner.service.ts:632`), and told nothing
  when it is reopened or restored.
* Two hands of a live tick may make a new task twice, with no crash: one has taken it up and the other brings it for its new
  subtask, and each looks for the ref before the other has recorded it (`asana-import-run.ts:2562`, `:2838`, `:488`).  A
  full run has `writtenTasks` against just that; a tick has not.
* Switching live sync off and on during a tick that is about to clear the request for a full run loses the request.
* A failing `remember` fails a create that has happened (`idempotency.interceptor.ts:106`), although the class
  comment says losing Redis costs the guarantee, not the request; `release` deletes the key whoever holds it by then.

## 4. What is proved

The constants are arbitrary, restricted only by the module's named assumption (`EngineAssumption`, `WaitStandsOnce`,
`ClockAssumption`, `WebhookAssumption`, `MembersAssumption`, `SessionAssumption`, `LinkAssumption`,
`CompletionAssumption`, `IdempotencyAssumption`, `SyncAssumption`): bounds are naturals, `None` is none of the values, versions belong to
rules, workers are finitely many and at least one, the founder is a person, a Wait step stands once in a version (a node's id is its row's key), and the like.  TLC
evaluates them on every run.  Each theorem is `Spec => []P`, or `Spec => P` for an action property; three
(`RunsAreALedger`, `WhatIsRaisedIsHandedOn`, `PendingIsCarried`) have a premise, named below; each proof has one step, or one lemma, per action.  They rest on no unproved fact.

**The engine.**  The invariants are a ladder; each rung uses those below it.

* *`Typed`* (`EngineTyped`).  `TypeOK` is not inductive: `CloseStopped` rewrites
  `runs[runOf(w)]`, which is a run only if the worker's rule and event are set and the row
  is there.  `Typed` adds what a worker holds by its `pc` (`Holding`): an event unless it is idle; from `begin`
  on a rule, a version and a recorded run of that rule on that event; a line between `Act` and `Log`.
  Runs are never deleted, so another actor's step cannot take any of it away.
* *`Once`* (`StepsActOnce`).  "No step was performed twice" does not say why
  the next one is not.  `Once` does: no two workers perform the same run;
  the steps a worker has ahead of it were not acted; whatever was acted has
  its run on record.  Only `Begin` puts a worker into a run, and only by inserting the row: so the run
  is new, nothing of it has been acted and nobody else is in it.  The idempotency key is thus all that is needed:
  not the queue's job ids, nor its locks.
* *`Filed`, `Whole`* (`CompletedMeansAll`).  A job is filed under its event's key, a run under its rule's and event's.
  The run a worker makes has the worker's event and version, and the steps done with success and those ahead
  together are the plan, unless the plan was cut or a step failed; so what `runStatus` calls COMPLETED is all of it.
* *`Sole`* (`RunsAreALedger`: the engine implements `RuleLedger`, `Spec => KeepsLedger`, every step of `Next` mapped to a
  step of the ledger or a stutter).  A worker at work owns its job and has it alone; so the run it makes or closes is open,
  and what it will perform comes after what was performed.  **Assumed: `"stall"` is not among the faults.**  A worker that has lost its lock
  and works on may close a run that the attempt after it has closed already (`runs` keeps its last word, the ledger has only
  one): the refinement is false with it.  All other faults are allowed.
* *`Kinship`, `Versioned`, `Left`* (`ResumptionsKeepTheirVersion`).  Ids are never confused: whatever event is known
  anywhere (in a job, a run, a worker's hands, a waiting row) says by its own id what it is about, and two with one origin
  agree on depth, cause, chain and version.  A resumed event is answered on its version; a waiting row was left by
  a run of its rule and version at that Wait step, which stands in the version once.
* *`HandedOn`* (`WhatIsRaisedIsHandedOn`).  For every run of its event, a worker has the rule still ahead, is replaying
  the run, or carries what it raised; a done job has nothing left to hand on.  **Assumed: `MaxSwitches = 0` and no `"stall"`.**  A rule
  paused between two attempts is not among those the second answers with, and its run is not replayed
  (`automation-runner.service.ts:423`, a hazard and a deviation above); a worker without its lock may write a line after
  another attempt collected the run.  With either, `FollowUpsSent` is false of the code.
* *`Sparing`* (`ChainsEnd`: `ChainWithinCap`, with every fault allowed).  The cap is compared with what runs have on record, and a run puts its steps on
  record only when they are over; so the bound is kept by what the runs in hand may still do.  `Counts`: a worker midway in a run has done
  of it no more than it counts, and what is ahead of it has a place among the first `PerRun` steps of the plan.  `WithinRun`: no run does more
  than `PerRun`.  `Covered`: what was done in runs that nobody has in hand is on record, but for `PerRun` steps to a fault.  `Capped`: what a chain has done or has ahead of
  it in a worker's hands is within the bound.  The step that matters is `Plan`: when a worker reads its allowance the
  others hold at most `PerRun` each (what they hold is mapped one to one into worker and place: `Slots`), so with the steps it allows itself the chain
  is still within `PerChain`, a run for every other worker and one for every fault.  The sum over the chain's rows is said as the number of
  recorded steps (`recorded`), which is the same, and which the facts about finite sets reach; it needs the workers to be finitely many, and
  at least one.

**Webhooks.**

* *`EndpointHealth`*, over any number of endpoints,
  workers and concurrent attempts.  The strengthening is that the endpoints' counts are
  naturals; what matters is that `settle` judges the count after its own increment, in one transaction.
* *`WebhooksTyped`.*  `Typed` adds to `TypeOK` what a worker holds at each of its steps, as in the engine.
* *`PendingIsCarried`*: `Spec => [](faults = 0 => PendingHasJob)`, the condition being the one of the run, which has no faults:
  a row whose `add` failed stays pending with no job (a hazard).  `Numbered` says a job's number is not above its row's;
  `Calm`, that a worker has its job or fan-out, and has it alone, and that what is pending is queued, unsettled in a worker's hands, about to be
  queued by a request or to come from a fan-out.
* *`HistoriesAreWhole`.*  `Uncrossed`: of a row that no two came to be at, at most one is to settle it (`Solo`: a waiting job,
  a worker or a request, counted as one kind of thing), what is settled is on the record, and what a worker read of the
  history before its POST is still all there is.  Each step that could make a second one finds the first by `engaged`.
* *`AcceptedOnce`* (`NoNeedlessPost`).  A bound is proved by what may still happen.  A row's `Ways` to be accepted once more
  are the events that may yet make its job, the jobs and the workers that hold one, the requests about to push one, and the acceptances
  had; `Accounted` says they are no more than raises, pushes and interruptions pay for: a step that takes one up gives one back, and
  an interruption, which may double one, pays for it.  `FirstOnly` says that as long as nobody pushed, the `Chances` of a row
  are no more than one and the interruptions, however often its event was raised: the number of the job tells the second from the
  first.  The bound of the property follows from the two.

**The clock.**

* *`ClockTyped`, `AnnouncedOnce`.*  That nothing was announced
  twice rests on who owes what: a moment may be announced only by the tick that moved the cursor past it, or made its firing
  row; the invariant says that what a tick still owes has not been said, that no two ticks owe the same, and that
  cursor or row stands at or past it.  `latestOccurrence` is the maximum of a set of moments, whose existence is
  itself proved from well-foundedness.
* *`ClaimsAreSaid`, `RunsMetLiveRules`.*  `TicksAccount`: a tick lets go of what it owes only by saying or losing it.  What it has on
  its list (`ListsLive`) was met live, because a rule that is live has been so on its schedule at every moment since it was published
  (`LiveSince`); what the cursor stands in for is the property's one exception.
* *`VersionsAreWhole`, `NewestIsRun`, `VersionsOnlyGrow`.*  `Kept`, for each rule: what a publish has read is meant, and so is
  the draft but where two writes mixed or one is half-way (`Intended`, `Drafted`); the one publish under way has read what runs and its number is
  not below any version's (`Newest`); the numbers below the one it chose are given (`Gapless`); a rule about to be deleted has no versions
  unless a publish overtook the removal (`Unpublished`).

**Members.**

* *`MembersTyped`, `OneOwnerKept`.*  The strengthening says what a request remembers:
  no request or offer carries the role OWNER, which only a transfer gives, and a request that acts on a
  member has their row.
* *`WorkIsReachable`, `DeletedStayOut`, and the action properties `OnlyInvitedReturn`, `NobodyIsEvicted`.*  `AccessInv` adds
  that nobody hands their work to themselves, that a SAML sign-in which found a departure lets nobody in as if it had not, and that
  whoever a purge did not see came after it looked: rows are numbered, and theirs is at or above the number it read.

**The request side.**

* *`OneRowOpen`, `EndedStayEnded`, `OwnBrowserTrusted`* of `Sessions`: where rotations have not crossed, the one under way holds the
  latest row; where a session ended with none under way, there is no row to rotate; a browser that lost nothing has
  one call on its way, which holds or brings an open row.
* *`NoRing`* of `TaskDependencies`.  That there is no ring is said by a ranking of the tasks, so the proof needs no induction over
  paths: a walk knows a set of tasks from which no link leads out but from its frontier, with `blocking` in it
  and `blocked` not; when the frontier is empty, ranking that set before the rest makes room for the new link
  (`RoomForOneMore`, by counting the tasks before each: `CountingRanks`).
* *`TheFreedAreTold`.*  `FreedIsTold` is not inductive: the job that is to tell a task might find its blocker reopened, which is
  well as long as that blocks it again.  `WordInv` counts, of the completions on their way (written and not yet queued, or queued: `OnTheWay`), only those
  whose blocker is not archived.  What each step tells and leaves untold is one operator, `Tell`, so the proof has one lemma about it
  (`WhoIsHeld`): whoever is held and free after a step was held before it and not told in it.
* *`NextOccurrenceOnce`* of `TaskCompletion`: `next` and `of` name each other, so no task has two
  occurrences; whoever stamps a task goes on to spawn, so one without a next has a spawn on its way.
* *`KeyCreatesOnce`* of `IdempotentCreate`: while nothing is loose at most one request is at work, it has the key, and what the
  key holds tells how many records there are.

**The Asana sync.**

* *`SyncMakesOneRow`.*  A hand of the worker makes a row where the worker believes there is no ref.  `KnownIsSo`: what it believes
  is so, from the moment it loads the refs or takes up what it prepared for an earlier tick, since a full run that made refs in between
  ends by marking that stale.  `RowsAreThere`: a ref names a row, and so does a hand that has made one and not yet recorded it.
  `OneRow`: of a record that is neither orphaned nor crossed, a row without a ref is in one hand, and no other hand is at that record, so
  nobody looks for the ref between the create and the record of it.  `HandsFit` says which hands there can be: one for a record the
  worker took up and one for the task a subtask waits for.
* *`NoChangeIsLost`.*  "Whatever is out of date here waits somewhere" is not inductive twice over.  A run writes what it was
  listed, so a record may go out of date by being written: `Outdated` says that a listing which is old is known to be, whether or not
  the record is current yet.  And a tick that has queued a full run takes the request as met: `Met` says that then the run, the
  stream or a fault stands for everything, without the request, unless live sync was switched off meanwhile; then
  there is no stream either (`Streaming`).

*Only model-checked.*  Of what the passing runs check, the liveness properties, which are beyond the prover: `RollupHeard`, `WaitsAnswered`, `EverySettled`,
`SchedulesHeard` and `CatchesUp`.  (So are ENABLED and induction over recursively defined data; the modules declare no
RECURSIVE operator.)  `FollowUpsSent` with switches, `KeepsLedger` with a lost lock and `PendingHasJob` with faults are not
proved because they are not true of the code.  `HistoryKept` is proved as `VersionsOnlyGrow`, and the remaining properties under the names given above.

## 5. Plan

Done: the engine and its ledger, webhooks, the clock, rule versions, sessions, dependencies, repeating tasks, idempotent
creates, members and deletion, the Asana sync.  Next, the most consequential first:

1. `PlanWalk`, the tree walk of `plan`, against the set of paths that reach a Wait; conditions; ticket rules and taskless runs.
2. `Attachments` (confirm against sweep), and positions if their order under concurrent moves is ever promised.
3. More of the webhooks: rule sends, the purge, `WEBHOOK_MAX_ATTEMPTS` changed between a row and its redelivery.
4. More of the sync: several projects, what a run may delete, cancelling.

### Not modelled

Request-scoped reads and writes with no interleaving of their own (projects, fields, comments, goals, portfolios, views,
search, reports), conversions and validation over large data (the builder, formulas, the import's mapping), adapters to
outside services, and the user interface, a good third of the repository's lines: there is control in them, but none
that outlives a request or meets another's.  `PROJECT.json` gives the reason for each component.
