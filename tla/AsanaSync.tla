------------------------------ MODULE AsanaSync ------------------------------
(***************************************************************************)
(* Keeping a copy of an Asana project: full runs, which list everything,   *)
(* and live ticks, which read the project's event stream and fetch what    *)
(* its events name.  Both are jobs of one queue, whose single worker does  *)
(* them one at a time; people start runs and switch live sync meanwhile.   *)
(* Within a job a pool of hands goes through the records, several at once. *)
(*                                                                         *)
(* Asana is the environment: records change whenever they like, events may *)
(* not arrive, and a stream's token may lapse.                             *)
(*                                                                         *)
(* A record is a task, or a subtask of one; the code nests them deeper.    *)
(* Its rows are numbered in the order they were made; deleting it in Asana *)
(* is a change like any other, which its row takes over by being archived. *)
(* Definitions, comments and files, the phases of a run, and who may       *)
(* import what are left out.                                               *)
(***************************************************************************)
EXTENDS Integers, FiniteSets, Sequences

CONSTANTS
    Records,
    Parent,         \* of each record: the one it is a subtask of, or Nothing
    Concurrency,    \* ASANA_SYNC_CONCURRENCY: the size of the pool
    RunIds,         \* bound: import runs under way at once
    MaxChanges,     \* bound: how often something changes in Asana
    MaxSwitches,    \* bound: how often live sync is switched, or a run asked for
    SyncFaults,     \* what may go wrong: drop, lapse, fail, refuse, kill, late, lost add
    MaxSyncFaults,  \* bound: how often
    Nothing

ASSUME SyncAssumption ==
    /\ {MaxChanges, MaxSwitches, MaxSyncFaults} \subseteq Nat
    /\ Concurrency \in Nat \ {0}
    /\ Nothing \notin Records \cup RunIds
    /\ Parent \in [Records -> Records \cup {Nothing}]
    /\ \A r \in Records : Parent[r] # Nothing => Parent[Parent[r]] = Nothing

VARIABLES
    source,     \* Asana's records: there or not, and how often they changed
    copies,     \* each record's rows here, as the version of the source they show
    refs,       \* ExternalRef: which row a record became; 0 for none
    stream,     \* AsanaEventStream: "none", "open", or "lapsed" at Asana's end
    named,      \* the records that events not read yet are about
    sync,       \* AsanaLiveSync: enabled, needsFullSync
    runs,       \* ImportRun rows not finished, and whether the queue holds their job
    imported,   \* a run has finished, so there is something to follow
    importer,   \* the worker
    hands,      \* what its pool is at: <<record taken up, record in hand>>
    cache,      \* the worker's prepared live run: its refs; Nothing if it has none
    stale,      \* a run finished after the cache was made
    changes, switches, troubles,    \* counted against the bounds
    missed,     \* observation: records with a change that a fault dropped
    orphaned,   \* observation: records with a row made and not remembered
    crossed,    \* observation: new records that two hands of a tick were at
    askLost     \* observation: switched on during a tick that then took the request as met

asana == <<source, named, stream, changes>>
marks == <<orphaned, crossed, askLost>>
local == <<copies, refs, marks, hands>>
svars == <<asana, local, sync, runs, imported, importer, cache, stale, switches, troubles, missed>>

NoRefs == [r \in Records |-> 0]
NoRun == [status |-> "none", job |-> FALSE]
Idle == [pc |-> "idle", run |-> Nothing, known |-> NoRefs, got |-> Nothing, todo |-> {},
         full |-> FALSE, reset |-> FALSE]

Subtasks(r) == {c \in Records : Parent[c] = r}
\* A subtask is in Asana only with the task it belongs to.
Nested == \A r \in Records : \A c \in Subtasks(r) : source[c].there => source[r].there

AsanaInit ==
    /\ source \in [Records -> [there : BOOLEAN, version : {0}]] /\ Nested
    /\ copies = [r \in Records |-> <<>>] /\ refs = NoRefs
    /\ stream = "none" /\ named = {}
    /\ sync = [enabled |-> FALSE, needsFull |-> FALSE]
    /\ runs = [i \in RunIds |-> NoRun] /\ imported \in BOOLEAN
    /\ importer = Idle /\ hands = << >> /\ cache = Nothing /\ stale = FALSE
    /\ changes = 0 /\ switches = 0 /\ troubles = 0
    /\ missed = {} /\ orphaned = {} /\ crossed = {} /\ askLost = FALSE

Trouble(kind) == kind \in SyncFaults /\ troubles < MaxSyncFaults /\ troubles' = troubles + 1

-----------------------------------------------------------------------------
(* Asana.                                                                  *)

\* A task is there before its subtasks are, and is deleted with them.  Events are at
\* most once: they may never come.
SourceChange(r) == \E there \in BOOLEAN :
    LET these == IF there THEN {r} ELSE {r} \cup {c \in Subtasks(r) : source[c].there} IN
    /\ changes < MaxChanges /\ changes' = changes + 1
    /\ there \/ source[r].there
    /\ there /\ Parent[r] # Nothing => source[Parent[r]].there
    /\ source' = [q \in Records |-> IF q \notin these THEN source[q]
                                    ELSE [there |-> there, version |-> source[q].version + 1]]
    /\ \/ /\ named' = IF stream = "open" THEN named \cup these ELSE named
          /\ UNCHANGED <<troubles, missed>>
       \/ /\ stream = "open" /\ these \cap named = {} /\ Trouble("drop")
          /\ missed' = missed \cup these
          /\ UNCHANGED named
    /\ UNCHANGED <<stream, local, sync, runs, imported, importer, cache, stale, switches>>

TokenLapses ==
    /\ stream = "open" /\ Trouble("lapse")
    /\ stream' = "lapsed" /\ named' = {}
    /\ UNCHANGED <<source, changes, local, sync, runs, imported, importer, cache, stale, switches,
                   missed>>

-----------------------------------------------------------------------------
(* People, and the nightly job.                                            *)

UnderWay(i) == runs[i].status # "none"

\* start: nothing else may be under way.  A run that cannot be queued is closed.
AskRun(i) ==
    /\ switches < MaxSwitches /\ switches' = switches + 1
    /\ i # importer.run /\ \A j \in RunIds : ~ UnderWay(j)
    /\ runs' = [runs EXCEPT ![i] = [status |-> "QUEUED", job |-> TRUE]]
    /\ UNCHANGED <<asana, local, sync, imported, importer, cache, stale, troubles, missed>>

Current(r) == IF refs[r] = 0 THEN ~ source[r].there
                             ELSE copies[r][refs[r]] = source[r].version
Unfetched == {r \in Records : ~ Current(r)}

\* closeDeadRuns goes by when the run last wrote its progress.  That closes a run
\* whose job is gone ...
CloseRun(i) ==
    /\ runs' = [runs EXCEPT ![i] = NoRun]
    /\ imported' = TRUE /\ stale' = TRUE
    /\ UNCHANGED <<asana, local, sync, importer, cache, switches>>
CloseDeadRun(i) ==
    /\ UnderWay(i) /\ ~ runs[i].job /\ ~ (importer.pc = "add" /\ importer.run = i)
    /\ CloseRun(i)
    /\ UNCHANGED <<troubles, missed>>
\* ... and one that waits or works for longer than that: its job, when a worker next
\* takes it up, finds it finished and does nothing.
CloseLateRun(i) ==
    /\ UnderWay(i) /\ runs[i].job /\ Trouble("late")
    /\ CloseRun(i)
    /\ missed' = missed \cup Unfetched

\* Wherever there is an import to follow.
SwitchOn ==
    /\ switches < MaxSwitches /\ switches' = switches + 1
    /\ imported \/ \E i \in RunIds : UnderWay(i)
    /\ sync' = [enabled |-> TRUE, needsFull |-> TRUE]
    /\ UNCHANGED <<asana, local, runs, imported, importer, cache, stale, troubles, missed>>

SwitchOff ==
    /\ switches < MaxSwitches /\ switches' = switches + 1
    /\ sync.enabled
    /\ sync' = [enabled |-> FALSE, needsFull |-> FALSE]
    /\ stream' = "none" /\ named' = {}
    /\ importer' = [importer EXCEPT !.reset = importer.pc \in {"full", "add", "clear"}]
    /\ UNCHANGED <<source, changes, local, runs, imported, cache, stale, troubles, missed>>

nightlyOff == sync    \* mutant: the nightly job asks for nothing
nightly == [sync EXCEPT !.needsFull = TRUE]
RequestNightlyRuns ==
    /\ importer.pc = "idle" /\ sync.enabled
    /\ sync' = nightly
    /\ UNCHANGED <<asana, local, runs, imported, importer, cache, stale, switches, troubles, missed>>

-----------------------------------------------------------------------------
(* The pool: records, written by a run or by a tick.                       *)

At(r) == {h \in DOMAIN hands : h[2] = r}
Slots == {h[1] : h \in DOMAIN hands}
\* importer.known is what the work in hand believes the refs to be.  A run goes by
\* what it was listed, and asks again about what was not; a tick asks now.
Fetched(r) == IF importer.pc = "run" /\ importer.got[r].there THEN importer.got[r] ELSE source[r]
\* Not listed, but there: left as it is.
LeftAlone(r) == importer.pc = "run" /\ ~ importer.got[r].there /\ source[r].there

\* A record is read, and held until it is written.
Holding(h, held) ==
    /\ hands' = [g \in DOMAIN held \cup {h} |->
                    IF g = h THEN [got |-> Fetched(h[2]), at |-> "read", row |-> 0] ELSE held[g]]
    /\ crossed' = IF importer.known[h[2]] = 0 /\ At(h[2]) # {} THEN crossed \cup {h[2]} ELSE crossed

\* A hand that is free takes up the next record; in a run, a subtask after its task.
TakeUp(r) ==
    /\ importer.pc \in {"run", "apply"} /\ r \in importer.todo
    /\ Cardinality(Slots) < Concurrency
    /\ importer.pc = "run" /\ importer.got[r].there => Parent[r] \notin importer.todo /\ At(Parent[r]) = {}
    /\ importer' = [importer EXCEPT !.todo = @ \ {r}]
    /\ IF LeftAlone(r) THEN UNCHANGED <<hands, crossed>> ELSE Holding(<<r, r>>, hands)
    /\ UNCHANGED <<asana, copies, refs, orphaned, askLost, sync, runs, imported, cache, stale,
                   switches, troubles, missed>>

Known(r) == importer.known[r] # 0
Placeable(h) == hands[h].got.there /\ Parent[h[2]] # Nothing => Known(Parent[h[2]])

\* livePlacement: the task of a new subtask is not here yet, and is brought first.
BringTask(h) ==
    /\ importer.pc = "apply"
    /\ hands[h].at = "read" /\ ~ Placeable(h)
    /\ Holding(<<h[1], Parent[h[2]]>>, [hands EXCEPT ![h].at = "waits"])
    /\ UNCHANGED <<asana, copies, refs, orphaned, askLost, sync, runs, imported, importer, cache,
                   stale, switches, troubles, missed>>

Without(dropped) == [g \in DOMAIN hands \ dropped |-> hands[g]]
Brought(h) == hands[h].at = "waits" => <<h[1], Parent[h[2]]>> \notin DOMAIN hands

\* The task did not come: the subtask is left out.
LeaveOut(h) ==
    /\ hands[h].at = "waits" /\ Brought(h) /\ ~ Placeable(h)
    /\ hands' = Without({h})
    /\ UNCHANGED <<asana, copies, refs, marks, sync, runs, imported, importer, cache, stale,
                   switches, troubles, missed>>

\* upsert: the row its ref names is updated, or archived; without a ref it is made.
Write(h) == LET r == h[2] IN
    /\ hands[h].at \in {"read", "waits"} /\ Brought(h) /\ Placeable(h)
    /\ IF Known(r)
       THEN /\ copies' = [copies EXCEPT ![r][importer.known[r]] = hands[h].got.version]
            /\ hands' = Without({h})
       ELSE IF hands[h].got.there
       THEN /\ copies' = [copies EXCEPT ![r] = Append(@, hands[h].got.version)]
            /\ hands' = [hands EXCEPT ![h].at = "made", ![h].row = Len(copies[r]) + 1]
       ELSE copies' = copies /\ hands' = Without({h})     \* nothing to archive
    /\ missed' = IF hands[h].got = source[r] /\ At(r) = {h} THEN missed \ {r} ELSE missed
    /\ UNCHANGED <<asana, refs, marks, sync, runs, imported, importer, cache, stale, switches, troubles>>

\* remember: the ref is recorded after the row it names.
Remember(h) == LET r == h[2] IN
    /\ hands[h].at = "made"
    /\ refs' = [refs EXCEPT ![r] = hands[h].row]
    /\ importer' = [importer EXCEPT !.known[r] = hands[h].row]
    /\ hands' = Without({h})
    /\ UNCHANGED <<asana, copies, marks, sync, runs, imported, cache, stale, switches, troubles, missed>>

\* A record that cannot be read, written or recorded is counted, and the work goes
\* on: without the subtask it was brought for, and, in a run, without its subtasks.
Made(held) == {h[2] : h \in {g \in held : hands[g].at = "made"}}
Fail(slot) == LET held == {h \in DOMAIN hands : h[1] = slot}
                  below == IF importer.pc # "run" THEN {}
                           ELSE {c \in Subtasks(slot) \cap importer.todo : importer.got[c].there} IN
    /\ Trouble("fail")
    /\ hands' = Without(held)
    /\ importer' = [importer EXCEPT !.todo = @ \ below]
    /\ missed' = missed \cup {h[2] : h \in held} \cup below
    /\ orphaned' = orphaned \cup Made(held)
    /\ UNCHANGED <<asana, copies, refs, crossed, askLost, sync, runs, imported, cache, stale, switches>>

-----------------------------------------------------------------------------
(* A full run.                                                             *)

\* The refs are loaded and everything is listed: what is there, and of what
\* was there and is not listed any more, that it is gone.
TakeRun(i) ==
    /\ importer.pc = "idle" /\ UnderWay(i) /\ runs[i].job
    /\ runs' = [runs EXCEPT ![i].status = "RUNNING"]
    /\ importer' = [Idle EXCEPT !.pc = "run", !.run = i, !.known = refs,
                        !.got = source, !.todo = {r \in Records : source[r].there \/ refs[r] # 0}]
    /\ UNCHANGED <<asana, local, sync, imported, cache, stale, switches, troubles, missed>>

preparedAgainNever == FALSE    \* mutant: the prepared run is kept across full runs
preparedAgain == TRUE
FinishRun ==
    /\ importer.pc = "run" /\ importer.todo = {} /\ hands = << >>
    /\ runs' = [runs EXCEPT ![importer.run] = NoRun]
    /\ importer' = Idle
    /\ imported' = TRUE /\ stale' = preparedAgain
    /\ UNCHANGED <<asana, local, sync, cache, switches, troubles, missed>>

\* The process stops: its job is handed out again, what it held is gone.
Kill ==
    /\ importer.pc # "idle" /\ Trouble("kill")
    /\ importer' = Idle /\ hands' = << >> /\ cache' = Nothing
    /\ missed' = missed \cup (CASE importer.pc = "apply" ->
                                    importer.todo \cup {h[2] : h \in DOMAIN hands}
                                 [] importer.pc \in {"full", "add"} /\ ~ sync.needsFull -> Unfetched
                                 [] importer.pc = "run" /\ ~ UnderWay(importer.run) -> Unfetched
                                 [] OTHER -> {})
    /\ orphaned' = orphaned \cup Made(DOMAIN hands)
    /\ UNCHANGED <<asana, copies, refs, crossed, askLost, sync, runs, imported, stale, switches>>

\* A phase that throws ends the run: FAILED, with what it did kept.
FailRun ==
    /\ importer.pc = "run" /\ hands = << >> /\ Trouble("refuse")
    /\ runs' = [runs EXCEPT ![importer.run] = NoRun]
    /\ importer' = Idle
    /\ imported' = TRUE /\ stale' = preparedAgain
    /\ missed' = missed \cup Unfetched
    /\ UNCHANGED <<asana, local, sync, cache, switches>>

-----------------------------------------------------------------------------
(* A live tick.                                                            *)

\* Not while a run is under way whose job will be done; not before a first import.
\* What was prepared earlier is used again unless a run has finished since.
StartTick ==
    /\ importer.pc = "idle" /\ sync.enabled /\ imported
    /\ \A i \in RunIds : ~ (UnderWay(i) /\ runs[i].job)
    /\ importer' = [Idle EXCEPT !.pc = "read", !.full = sync.needsFull,
                        !.known = IF cache = Nothing \/ stale THEN refs ELSE cache]
    /\ stale' = FALSE
    /\ cache' = importer'.known
    /\ UNCHANGED <<asana, local, sync, runs, imported, switches, troubles, missed>>

\* readStreams: the token is saved before what it covers is applied.
fullOnlyIfAsked == importer.full    \* mutant: a lapsed token is taken for a new stream
fullNeeded == importer.full \/ stream = "lapsed"
ReadStream ==
    /\ importer.pc = "read"
    /\ stream' = "open" /\ named' = {}
    /\ importer' = IF fullNeeded THEN [importer EXCEPT !.pc = "full"]
                                 ELSE [importer EXCEPT !.pc = "apply", !.todo = named]
    /\ UNCHANGED <<source, changes, local, sync, runs, imported, cache, stale, switches, troubles,
                   missed>>

\* startFullRun: the row, its job, and then the request is taken as met.
CreateRun(i) ==
    /\ importer.pc = "full" /\ ~ UnderWay(i)
    /\ runs' = [runs EXCEPT ![i] = [status |-> "QUEUED", job |-> FALSE]]
    /\ importer' = [importer EXCEPT !.pc = "add", !.run = i]
    /\ UNCHANGED <<asana, local, sync, imported, cache, stale, switches, troubles, missed>>
AddJob ==
    /\ importer.pc = "add"
    /\ \/ /\ runs' = [runs EXCEPT ![importer.run].job = TRUE]
          /\ importer' = [importer EXCEPT !.pc = "clear"]
          /\ UNCHANGED <<troubles, missed>>
       \* The add throws, and the tick with it: a lapsed token is then forgotten.
       \/ /\ Trouble("lost add")
          /\ importer' = Idle
          /\ missed' = IF sync.needsFull THEN missed ELSE missed \cup Unfetched
          /\ UNCHANGED runs
    /\ UNCHANGED <<asana, local, sync, imported, cache, stale, switches>>
ClearRequest ==
    /\ importer.pc = "clear"
    /\ sync' = [sync EXCEPT !.needsFull = FALSE]
    /\ importer' = Idle
    /\ askLost' = (askLost \/ (importer.reset /\ sync.enabled))
    /\ UNCHANGED <<asana, copies, refs, hands, orphaned, crossed, runs, imported, cache, stale,
                   switches, troubles, missed>>

\* The prepared run keeps what it learnt for the next tick.
EndTick ==
    /\ importer.pc = "apply" /\ importer.todo = {} /\ hands = << >>
    /\ cache' = importer.known
    /\ importer' = Idle
    /\ UNCHANGED <<asana, local, sync, runs, imported, stale, switches, troubles, missed>>

-----------------------------------------------------------------------------
Tick == StartTick \/ ReadStream \/ AddJob \/ ClearRequest \/ EndTick \/ \E i \in RunIds : CreateRun(i)
Handle(h) == BringTask(h) \/ LeaveOut(h) \/ Write(h) \/ Remember(h)
Pool == (\E r \in Records : TakeUp(r)) \/ \E h \in DOMAIN hands : Handle(h)
Work == Tick \/ FinishRun \/ Pool
AsanaNext ==
    \/ \E r \in Records : SourceChange(r)
    \/ Pool \/ \E slot \in Slots : Fail(slot)
    \/ \E i \in RunIds : AskRun(i) \/ CloseDeadRun(i) \/ CloseLateRun(i) \/ TakeRun(i)
    \/ TokenLapses \/ SwitchOn \/ SwitchOff \/ RequestNightlyRuns
    \/ FinishRun \/ FailRun \/ Kill \/ Tick

AsanaSpec == AsanaInit /\ [][AsanaNext]_svars
\* The worker goes on and takes what waits; the status page closes dead runs;
\* nights come again and again.
AsanaFair ==
    /\ WF_svars(Work) /\ WF_svars(\E i \in RunIds : TakeRun(i))
    /\ WF_svars(\E i \in RunIds : CloseDeadRun(i)) /\ SF_svars(RequestNightlyRuns)

-----------------------------------------------------------------------------
(* Properties.                                                             *)

\* The class comment of AsanaImportRun: a second run converges on the same rows
\* instead of doubling them.  So do runs and ticks in any order, and the hands of a
\* pool.  Two exceptions: a record whose row was made and not recorded, by a process
\* that stopped or an update that failed; and a new record that two hands of one tick
\* were at, a task and a subtask it was brought for: each looks for the ref before
\* the other has recorded it.
NoDoubles == \A r \in Records \ (orphaned \cup crossed) : Len(copies[r]) <= 1

\* While live sync is on, whatever changed in Asana and is not shown here is still
\* to be fetched: by events not read, by a run that is asked for, waits, or listed it,
\* or by the tick in hand.  Else a fault dropped it, and the night makes up for it.
InHand(r) ==
    \/ importer.pc = "run" /\ r \in importer.todo
       /\ (importer.got[r] = source[r] \/ ~ (importer.got[r].there \/ source[r].there))
    \/ importer.pc = "apply" /\ r \in importer.todo
    \/ \E h \in At(r) : hands[h].got = source[r]
    \/ importer.pc \in {"full", "add", "clear"}
Awaited(r) ==
    \/ r \in named \/ stream = "lapsed" \/ sync.needsFull
    \/ \E i \in RunIds : UnderWay(i) /\ runs[i].job /\ importer.run # i
    \/ InHand(r)
ChangesAwaited == sync.enabled /\ ~ askLost => \A r \in Unfetched : Awaited(r) \/ r \in missed

\* Once Asana rests and live sync stays on, everything here is as it is there.
CatchesUp == (<>[] sync.enabled) => <>[](\A r \in Records : Current(r))
=============================================================================
