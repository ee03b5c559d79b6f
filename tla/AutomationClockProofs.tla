------------------------ MODULE AutomationClockProofs ------------------------
(***************************************************************************)
(* AutomationClock, for any rules, tasks, managers, ticks and bounds: its  *)
(* types; that nothing is announced twice, that what a tick claims it      *)
(* says, and that the moments it runs met their rule live; and that the    *)
(* versions of a rule are each what some request meant, numbered once and  *)
(* without a gap, kept, and the newest of them the one that runs.          *)
(*                                                                         *)
(* ClockInv carries the types and the ticks; TicksAccount, on top of it,   *)
(* what a tick still owes; VersionsKept what a rule's requests have read   *)
(* and are about to write.                                                 *)
(***************************************************************************)
EXTENDS AutomationClock, WellFoundedInduction, TLAPS

LEMMA MaxOf ==
    ASSUME NEW N \in Nat, NEW S \in SUBSET (0 .. N), S # {}
    PROVE  \E x \in S : \A y \in S : y <= x
<1> DEFINE T == {y \in Nat : N - y \in S}
<1>1. T \subseteq Nat /\ T # {}
  <2>1. PICK x \in S : TRUE
    OBVIOUS
  <2>2. x \in 0 .. N /\ N - x \in Nat /\ N - (N - x) = x
    BY <2>1
  <2> QED BY <2>1, <2>2
<1>2. \E x \in T : \A y \in T : ~ (<<y, x>> \in OpToRel(<,Nat))
  <2> HIDE DEF T
  <2> QED BY <1>1, NatLessThanWellFounded, WFMin
<1>3. PICK t \in T : \A y \in T : ~ (<<y, t>> \in OpToRel(<,Nat))
  BY <1>2
<1>4. \A y \in T : t <= y
  <2> TAKE y \in T
  <2>1. y \in Nat /\ t \in Nat /\ ~ (<<y, t>> \in {ss \in Nat \X Nat : ss[1] < ss[2]})
    BY <1>3 DEF OpToRel
  <2>2. ~ (y < t)
    BY <2>1
  <2> QED BY <2>1, <2>2
<1>5. ASSUME NEW y \in S PROVE y <= N - t
  <2>1. y \in 0 .. N /\ N - y \in Nat /\ N - (N - y) = y
    OBVIOUS
  <2>2. N - y \in T
    BY <2>1
  <2>3. t <= N - y /\ t \in Nat
    BY <2>2, <1>4, <1>1
  <2> QED BY <2>1, <2>3
<1> QED BY <1>5

\* A schedule's latest occurrence is one of its moments, at or before the time asked about.
LEMMA LatestOccurrence ==
    ASSUME NEW c \in Configs, NEW at \in Moments, latestOccurrence(c, at) # None
    PROVE  /\ latestOccurrence(c, at) \in Moments /\ latestOccurrence(c, at) <= at
           /\ latestOccurrence(c, at) \in Occurs[c]
<1> DEFINE past == {x \in Occurs[c] : x <= at}
<1>1. past # {} /\ past \in SUBSET (0 .. MaxTime) /\ MaxTime \in Nat
  BY ClockAssumption DEF latestOccurrence, Moments
<1>2. \E x \in past : \A y \in past : y <= x
  <2> HIDE DEF past
  <2> QED BY <1>1, MaxOf
<1>3. latestOccurrence(c, at) = CHOOSE x \in past : \A y \in past : y <= x
  BY <1>1 DEF latestOccurrence
<1>4. latestOccurrence(c, at) \in past
  BY <1>2, <1>3
<1> QED BY <1>1, <1>4 DEF Moments

Statuses == {"DRAFT", "ACTIVE", "PAUSED", "ARCHIVED", "GONE"}
Requests == {q \in [pc : {"idle", "columns", "publish", "read", "number", "archive", "delete"},
                     rule : Rules \cup {None}, read : Version \cup {None},
                     steps : Configs \cup {None}, trigger : Configs \cup {None},
                     number : Nat, publish : BOOLEAN] :
                /\ q.pc # "idle" => q.rule \in Rules
                /\ q.pc \in {"read", "number"} => q.trigger \in Configs
                /\ q.pc \in {"read", "number"} => q.steps \in Configs}
TickStates == {q \in [pc : {"idle", "schedules", "scope", "run", "dates", "firing", "announce"},
                       at : Moments, todo : SUBSET Claim, next : Claim \cup Firing \cup {None},
                       left : SUBSET Firing] :
                  /\ q.pc = "scope" => q.next \in Claim
                  /\ q.pc = "announce" => q.next \in Firing /\ q.next.kind = "date"
                  /\ q.pc \in {"firing", "announce"} => \A f \in q.left : f.kind = "date"}

\* Of a rule's versions one has the highest number.
HasLatest == \A r \in Rules : versions[r] # {} =>
    \E v \in versions[r] : \A w \in versions[r] : w.number <= v.number
PeopleTypes ==
    /\ versions \in [Rules -> SUBSET Version] /\ HasLatest
    /\ managers \in [Managers -> Requests]
    /\ meant \in [Rules -> SUBSET (Configs \X Configs)]
    /\ requests \in Nat /\ torn \subseteq Rules /\ raced \subseteq Rules /\ overtaken \subseteq Rules
RulesTyped == rules \in [Rules -> Rule]
TickTypes ==
    /\ ticks \in [Ticks -> TickStates] /\ firings \subseteq Firing
    /\ fired \subseteq Firing /\ again \subseteq Firing
    /\ claimed \subseteq Firing /\ lost \subseteq Firing /\ strays \subseteq Claim
WorldTypes ==
    /\ now \in Moments /\ moves \in Nat /\ faults \in Nat
    /\ alive \subseteq Rules \X Configs \X Moments
    /\ tasks \in [Tasks -> [open : BOOLEAN, date : Moments]]
ClockTypes == PeopleTypes /\ RulesTyped /\ TickTypes /\ WorldTypes

LEMMA TypesSuffice == ClockTypes => TypeOK
BY DEF ClockTypes, PeopleTypes, RulesTyped, TickTypes, WorldTypes, TypeOK, Requests, TickStates

LEMMA LatestVersion ==
    ASSUME PeopleTypes, NEW r \in Rules
    PROVE  latestVersion(r) \in Nat /\ \A v \in versions[r] : v.number <= latestVersion(r)
<1>1. CASE versions[r] = {}
  BY <1>1 DEF latestVersion
<1>2. CASE versions[r] # {}
  <2> DEFINE best == CHOOSE v \in versions[r] : \A w \in versions[r] : w.number <= v.number
  <2>1. best \in versions[r] /\ \A w \in versions[r] : w.number <= best.number
    BY <1>2 DEF PeopleTypes, HasLatest
  <2>2. best \in Version
    BY <2>1 DEF PeopleTypes
  <2>3. latestVersion(r) = best.number
    BY <1>2 DEF latestVersion
  <2> QED BY <2>1, <2>2, <2>3 DEF Version
<1> QED BY <1>1, <1>2

\* What a request sends, and what follows from it.
LEMMA BodyTyped ==
    ASSUME NEW b \in Bodies
    PROVE  /\ b[1] \in Configs \cup {None} /\ columnsOf(b[1], b[2]) \in Configs \cup {None}
           /\ b[1] # None => columnsOf(b[1], b[2]) # None
           /\ b[2] \in Configs \cup {None}
BY ClockAssumption DEF columnsOf

LEMMA ClockInit == Init => ClockTypes
<1> SUFFICES ASSUME Init PROVE ClockTypes
  OBVIOUS
<1>1. PICK steps \in Configs \cup {None}, trigger \in Configs :
        /\ meant = [r \in Rules |-> IF steps = None THEN {} ELSE {<<steps, trigger>>}]
        /\ \/ /\ rules = [r \in Rules |-> [status |-> "DRAFT", steps |-> steps, trigger |-> trigger,
                            published |-> None, publishedAt |-> None, cursor |-> None]]
              /\ versions = [r \in Rules |-> {}]
           \/ /\ steps # None
              /\ rules = [r \in Rules |-> [status |-> "ACTIVE", steps |-> steps, trigger |-> trigger,
                            published |-> [number |-> 1, steps |-> steps, trigger |-> trigger],
                            publishedAt |-> 0, cursor |-> None]]
              /\ versions = [r \in Rules |-> {[number |-> 1, steps |-> steps, trigger |-> trigger]}]
  <2>1. PICK b \in Bodies :
          /\ columnsOf(b[1], b[2]) # None
          /\ meant = [r \in Rules |-> IF b[1] = None THEN {} ELSE {<<b[1], columnsOf(b[1], b[2])>>}]
          /\ \/ /\ rules = [r \in Rules |-> [status |-> "DRAFT", steps |-> b[1],
                              trigger |-> columnsOf(b[1], b[2]),
                              published |-> None, publishedAt |-> None, cursor |-> None]]
                /\ versions = [r \in Rules |-> {}]
             \/ /\ b[1] # None
                /\ rules = [r \in Rules |-> [status |-> "ACTIVE", steps |-> b[1],
                              trigger |-> columnsOf(b[1], b[2]),
                              published |-> [number |-> 1, steps |-> b[1], trigger |-> columnsOf(b[1], b[2])],
                              publishedAt |-> 0, cursor |-> None]]
                /\ versions = [r \in Rules |-> {[number |-> 1, steps |-> b[1],
                                               trigger |-> columnsOf(b[1], b[2])]}]
    BY Zenon DEF Init
  <2>2. b[1] \in Configs \cup {None} /\ columnsOf(b[1], b[2]) \in Configs
    BY <2>1, BodyTyped
  <2> QED BY <2>1, <2>2, Zenon
<1>2. RulesTyped /\ versions \in [Rules -> SUBSET Version] /\ HasLatest
  <2>1. 0 \in Moments /\ 1 \in Nat
    BY ClockAssumption DEF Moments
  <2> QED BY <1>1, <2>1 DEF RulesTyped, HasLatest, Rule, Version, Moment
<1>3. managers \in [Managers -> Requests]
  BY DEF Init, NoRequest, Requests
<1>4. ticks \in [Ticks -> TickStates]
  BY ClockAssumption DEF Init, NoTick, Moments, TickStates
<1>5. WorldTypes
  BY ClockAssumption DEF Init, Moments, WorldTypes
<1>6. meant \in [Rules -> SUBSET (Configs \X Configs)]
  BY <1>1
<1> QED BY <1>2, <1>3, <1>4, <1>5, <1>6 DEF Init, ClockTypes, PeopleTypes, TickTypes

-----------------------------------------------------------------------------
(* What a field's new value keeps.                                         *)

LEMMA StepsEdit ==
    ASSUME NEW f \in [Rules -> Rule], NEW r \in Rules, NEW c \in Configs \cup {None}
    PROVE  [f EXCEPT ![r].steps = c] \in [Rules -> Rule]
<1>1. [f[r] EXCEPT !.steps = c] \in Rule
  BY DEF Rule
<1> QED BY <1>1

LEMMA TriggerEdit ==
    ASSUME NEW f \in [Rules -> Rule], NEW r \in Rules, NEW c \in Configs
    PROVE  [f EXCEPT ![r].trigger = c] \in [Rules -> Rule]
<1>1. [f[r] EXCEPT !.trigger = c] \in Rule
  BY DEF Rule
<1> QED BY <1>1

LEMMA StatusEdit ==
    ASSUME NEW f \in [Rules -> Rule], NEW r \in Rules, NEW s \in Statuses
    PROVE  [f EXCEPT ![r].status = s] \in [Rules -> Rule]
<1>1. [f[r] EXCEPT !.status = s] \in Rule
  BY DEF Rule, Statuses
<1> QED BY <1>1

LEMMA CursorEdit ==
    ASSUME NEW f \in [Rules -> Rule], NEW r \in Rules, NEW at \in Moment
    PROVE  [f EXCEPT ![r].cursor = at] \in [Rules -> Rule]
<1>1. [f[r] EXCEPT !.cursor = at] \in Rule
  BY DEF Rule
<1> QED BY <1>1

LEMMA PublishEdit ==
    ASSUME NEW f \in [Rules -> Rule], NEW r \in Rules, NEW at \in Moment,
           NEW p \in Version \cup {None}
    PROVE  [f EXCEPT ![r].status = "ACTIVE", ![r].publishedAt = at, ![r].published = p]
                \in [Rules -> Rule]
<1>1. [f[r] EXCEPT !.status = "ACTIVE", !.publishedAt = at, !.published = p] \in Rule
  BY DEF Rule
<1> QED BY <1>1

LEMMA RequestEdits ==
    ASSUME NEW f \in [Managers -> Requests], NEW m \in Managers, NEW q \in Requests
    PROVE  [f EXCEPT ![m] = q] \in [Managers -> Requests]
OBVIOUS

LEMMA NewRequests ==
    ASSUME NEW r \in Rules, NEW c \in Configs \cup {None}, NEW b \in BOOLEAN
    PROVE  /\ NoRequest \in Requests
           /\ [NoRequest EXCEPT !.pc = "columns", !.rule = r, !.trigger = c, !.publish = b]
                  \in Requests
           /\ [NoRequest EXCEPT !.pc = "publish", !.rule = r] \in Requests
           /\ [NoRequest EXCEPT !.pc = "archive", !.rule = r] \in Requests
           /\ [NoRequest EXCEPT !.pc = "delete", !.rule = r] \in Requests
BY DEF NoRequest, Requests

LEMMA NewPublish ==
    ASSUME NEW r \in Rules, NEW c \in Configs, NEW d \in Configs, NEW p \in Version \cup {None}
    PROVE  [NoRequest EXCEPT !.pc = "read", !.rule = r, !.read = p, !.steps = c,
                             !.trigger = d] \in Requests
BY DEF NoRequest, Requests

LEMMA IntendingTyped ==
    ASSUME NEW r \in Rules, NEW s \in Configs \cup {None}, NEW t \in Configs \cup {None},
           s # None => t # None, meant \in [Rules -> SUBSET (Configs \X Configs)]
    PROVE  Intending(r, s, t) \in [Rules -> SUBSET (Configs \X Configs)]
BY DEF Intending

-----------------------------------------------------------------------------
(* The steps of people.                                                    *)

PeopleAndRules == PeopleTypes /\ RulesTyped

LEMMA SaveTyped ==
    ASSUME PeopleAndRules, NEW m \in Managers, NEW r \in Rules, NEW s \in Configs \cup {None},
           NEW trig \in Configs \cup {None}, s # None => trig # None,
           NEW publish \in BOOLEAN, WriteSteps(m, r, s, trig, publish)
    PROVE  PeopleAndRules'
<1>1. RulesTyped'
  BY StepsEdit DEF WriteSteps, PeopleAndRules, RulesTyped
<1>2. managers' \in [Managers -> Requests]
  BY NewRequests, RequestEdits DEF WriteSteps, PeopleAndRules, PeopleTypes
<1>3. HasLatest' /\ torn' \subseteq Rules /\ requests' \in Nat
  BY DEF WriteSteps, Ask, PeopleAndRules, PeopleTypes, HasLatest
<1>4. meant' \in [Rules -> SUBSET (Configs \X Configs)]
  BY IntendingTyped DEF WriteSteps, PeopleAndRules, PeopleTypes
<1> QED BY <1>1, <1>2, <1>3, <1>4 DEF WriteSteps, PeopleAndRules, PeopleTypes

LEMMA SaveColumnsTyped ==
    ASSUME PeopleAndRules, NEW m \in Managers, NEW r \in Rules, SaveColumns(m, r)
    PROVE  PeopleAndRules'
<1>1. PICK named \in Configs : /\ rules' = [rules EXCEPT ![r].trigger = named]
                               /\ meant' = Intending(r, rules[r].steps, named)
  <2>1. PICK named \in {b[2] : b \in Bodies} \ {None} :
              /\ rules' = [rules EXCEPT ![r].trigger = named]
              /\ meant' = Intending(r, rules[r].steps, named)
    BY DEF SaveColumns
  <2>2. named \in Configs
    BY BodyTyped
  <2> QED BY <2>1, <2>2
<1>2. RulesTyped' /\ rules[r].steps \in Configs \cup {None} /\ named # None
  BY <1>1, TriggerEdit, ClockAssumption DEF PeopleAndRules, RulesTyped, Rule
<1>3. meant' \in [Rules -> SUBSET (Configs \X Configs)]
  BY <1>1, <1>2, IntendingTyped DEF PeopleAndRules, PeopleTypes
<1>4. HasLatest' /\ torn' \subseteq Rules /\ requests' \in Nat
  BY DEF SaveColumns, Ask, PeopleAndRules, PeopleTypes, HasLatest
<1> QED BY <1>2, <1>3, <1>4 DEF SaveColumns, PeopleAndRules, PeopleTypes

LEMMA ReadTyped ==
    ASSUME PeopleAndRules, NEW m \in Managers, NEW r \in Rules, ReadRule(m, r),
           requests' \in Nat
    PROVE  PeopleAndRules'
<1>1. /\ rules[r].published \in Version \cup {None}
      /\ rules[r].steps \in Configs \cup {None} /\ rules[r].trigger \in Configs
  BY DEF PeopleAndRules, RulesTyped, Rule
<1>2. managers' \in [Managers -> Requests]
  <2>1. CASE rules[r].steps = None
    BY <2>1, NewRequests, RequestEdits DEF ReadRule, PeopleAndRules, PeopleTypes
  <2>2. CASE rules[r].steps # None
    <3>1. [NoRequest EXCEPT !.pc = "read", !.rule = r, !.read = rules[r].published,
                            !.steps = rules[r].steps, !.trigger = rules[r].trigger] \in Requests
      BY <1>1, <2>2, NewPublish
    <3> QED BY <2>2, <3>1, RequestEdits DEF ReadRule, PeopleAndRules, PeopleTypes
  <2> QED BY <2>1, <2>2
<1>3. HasLatest' /\ raced' \subseteq Rules /\ RulesTyped'
  BY DEF ReadRule, PeopleAndRules, PeopleTypes, HasLatest, RulesTyped
<1>4. meant' \in [Rules -> SUBSET (Configs \X Configs)]
  BY <1>1, IntendingTyped, ClockAssumption DEF ReadRule, PeopleAndRules, PeopleTypes
<1> QED BY <1>2, <1>3, <1>4 DEF ReadRule, PeopleAndRules, PeopleTypes

LEMMA PauseTyped ==
    ASSUME PeopleAndRules, NEW m \in Managers, NEW r \in Rules, Pause(m, r)
    PROVE  PeopleAndRules'
<1>1. RulesTyped'
  BY StatusEdit DEF Pause, PeopleAndRules, RulesTyped, Statuses
<1>2. requests' \in Nat
  BY DEF Pause, Ask, PeopleAndRules, PeopleTypes
<1> QED BY <1>1, <1>2 DEF Pause, PeopleAndRules, PeopleTypes, HasLatest

LEMMA RemoveTyped ==
    ASSUME PeopleAndRules, NEW m \in Managers, NEW r \in Rules, Remove(m, r)
    PROVE  PeopleAndRules'
<1>1. managers' \in [Managers -> Requests]
  BY NewRequests, RequestEdits DEF Remove, PeopleAndRules, PeopleTypes
<1>2. requests' \in Nat
  BY DEF Remove, Ask, PeopleAndRules, PeopleTypes
<1> QED BY <1>1, <1>2 DEF Remove, PeopleAndRules, PeopleTypes, HasLatest, RulesTyped

LEMMA RemovedTyped ==
    ASSUME PeopleAndRules, NEW m \in Managers, Archive(m) \/ Delete(m)
    PROVE  PeopleAndRules'
<1> DEFINE r == managers[m].rule
<1>1. r \in Rules
  BY DEF Archive, Delete, PeopleAndRules, PeopleTypes, Requests
<1>2. RulesTyped'
  <2> HIDE DEF r
  <2>1. rules' = [rules EXCEPT ![r].status = "ARCHIVED"] \/ rules' = [rules EXCEPT ![r].status = "GONE"]
    BY DEF Archive, Delete, r
  <2>2. rules \in [Rules -> Rule] /\ "ARCHIVED" \in Statuses /\ "GONE" \in Statuses
    BY DEF PeopleAndRules, RulesTyped, Statuses
  <2>3. CASE rules' = [rules EXCEPT ![r].status = "ARCHIVED"]
    BY <1>1, <2>2, <2>3, StatusEdit DEF RulesTyped
  <2>4. CASE rules' = [rules EXCEPT ![r].status = "GONE"]
    BY <1>1, <2>2, <2>4, StatusEdit DEF RulesTyped
  <2> QED BY <2>1, <2>3, <2>4
<1>3. managers' \in [Managers -> Requests]
  BY <1>1, NewRequests, RequestEdits DEF Archive, Delete, PeopleAndRules, PeopleTypes
<1>4. versions' \in [Rules -> SUBSET Version] /\ \A x \in Rules : versions'[x] \in {versions[x], {}}
  <2>1. CASE Archive(m)
    BY <2>1 DEF Archive, PeopleAndRules, PeopleTypes
  <2>2. CASE Delete(m)
    BY <1>1, <2>2 DEF Delete, PeopleAndRules, PeopleTypes
  <2> QED BY <2>1, <2>2
<1>5. HasLatest'
  BY <1>4 DEF HasLatest, PeopleAndRules, PeopleTypes
<1>6. UNCHANGED <<meant, requests, torn, raced, overtaken>>
  BY DEF Archive, Delete, counts
<1> QED BY <1>2, <1>3, <1>4, <1>5, <1>6 DEF PeopleAndRules, PeopleTypes

LEMMA NumberTyped ==
    ASSUME PeopleAndRules, NEW m \in Managers, NextNumber(m)
    PROVE  PeopleAndRules'
<1> DEFINE q == managers[m]
           n == IF unchanged(m) THEN q.read.number ELSE latestVersion(q.rule) + 1
<1>1. q \in Requests
  BY DEF PeopleAndRules, PeopleTypes
<1>2. n \in Nat
  <2>1. CASE unchanged(m)
    BY <1>1, <2>1 DEF unchanged, Requests, Version
  <2>2. CASE ~unchanged(m)
    BY <1>1, <2>2, LatestVersion DEF PeopleAndRules, NextNumber, Requests
  <2> QED BY <2>1, <2>2
<1>3. [q EXCEPT !.pc = "number", !.number = n] \in Requests
  BY <1>1, <1>2 DEF Requests, NextNumber
<1>4. managers' \in [Managers -> Requests]
  BY <1>3, RequestEdits DEF NextNumber, PeopleAndRules, PeopleTypes
<1> QED BY <1>4 DEF NextNumber, PeopleAndRules, PeopleTypes, HasLatest, RulesTyped, counts

LEMMA CommitTyped ==
    ASSUME PeopleAndRules, now \in Moments, NEW m \in Managers, Commit(m)
    PROVE  PeopleAndRules'
<1> DEFINE q == managers[m]
           r == q.rule
           new == [number |-> q.number, steps |-> q.steps, trigger |-> q.trigger]
<1>1. q \in Requests /\ q.pc = "number"
  BY DEF PeopleAndRules, PeopleTypes, Commit
<1>2. r \in Rules /\ new \in Version /\ q.read \in Version \cup {None}
  BY <1>1 DEF Requests, Version
<1>3. managers' \in [Managers -> Requests]
  <2>1. NoRequest \in Requests
    BY DEF NoRequest, Requests
  <2>2. managers' = [managers EXCEPT ![m] = NoRequest]
    BY DEF Commit
  <2> QED BY <2>1, <2>2, RequestEdits DEF PeopleAndRules, PeopleTypes
<1>4. CASE UNCHANGED <<rules, versions, overtaken>>
  BY <1>3, <1>4 DEF Commit, PeopleAndRules, PeopleTypes, RulesTyped, HasLatest, counts
<1>5. CASE /\ versions' = [versions EXCEPT ![r] = IF unchanged(m) THEN @ ELSE @ \cup {new}]
           /\ rules' = [rules EXCEPT ![r].status = "ACTIVE", ![r].publishedAt = now,
                                     ![r].published = IF unchanged(m) THEN q.read ELSE new]
           /\ overtaken' \subseteq overtaken \cup {r}
  <2>1. RulesTyped'
    <3> DEFINE p == IF unchanged(m) THEN q.read ELSE new
    <3>1. p \in Version \cup {None} /\ now \in Moment
      BY <1>2 DEF Moment
    <3>2. rules' = [rules EXCEPT ![r].status = "ACTIVE", ![r].publishedAt = now, ![r].published = p]
      BY <1>5
    <3> HIDE DEF p, q, r
    <3> QED BY <1>2, <3>1, <3>2, PublishEdit DEF PeopleAndRules, RulesTyped
  <2>2. versions' \in [Rules -> SUBSET Version] /\ overtaken' \subseteq Rules
    BY <1>2, <1>5 DEF PeopleAndRules, PeopleTypes
  <2>3. HasLatest'
    <3> SUFFICES ASSUME NEW s \in Rules, versions'[s] # {}
                 PROVE  \E v \in versions'[s] : \A w \in versions'[s] : w.number <= v.number
      BY DEF HasLatest
    <3>1. CASE versions'[s] = versions[s]
      BY <3>1 DEF PeopleAndRules, PeopleTypes, HasLatest
    <3>2. CASE versions'[s] # versions[s]
      <4>1. s = r /\ versions'[r] = versions[r] \cup {new}
        BY <1>2, <1>5, <3>2 DEF PeopleAndRules, PeopleTypes
      <4>2. CASE versions[r] = {}
        BY <1>2, <4>1, <4>2 DEF Version
      <4>3. CASE versions[r] # {}
        <5>1. PICK v \in versions[r] : \A w \in versions[r] : w.number <= v.number
          BY <1>2, <4>3 DEF PeopleAndRules, PeopleTypes, HasLatest
        <5>2. v.number \in Nat /\ new.number \in Nat /\ \A w \in versions[r] : w.number \in Nat
          BY <1>2 DEF PeopleAndRules, PeopleTypes, Version
        <5>3. CASE new.number <= v.number
          BY <4>1, <5>1, <5>3
        <5>4. CASE v.number < new.number
          BY <4>1, <5>1, <5>2, <5>4
        <5> QED BY <5>2, <5>3, <5>4
      <4> QED BY <4>2, <4>3
    <3> QED BY <3>1, <3>2
  <2> QED BY <1>3, <2>1, <2>2, <2>3 DEF Commit, PeopleAndRules, PeopleTypes, counts
<1> QED BY <1>4, <1>5 DEF Commit

LEMMA PeopleTyped ==
    ASSUME PeopleAndRules, now \in Moments, NEW m \in Managers, Manage(m)
    PROVE  PeopleAndRules'
<1>1. CASE \E r \in Rules : Save(m, r)
  <2>1. PICK r \in Rules, b \in Bodies : WriteSteps(m, r, b[1], columnsOf(b[1], b[2]), FALSE)
    BY <1>1 DEF Save
  <2> QED BY <2>1, BodyTyped, SaveTyped
<1>2. CASE \E r \in Rules : Revert(m, r)
  <2>0. PICK r \in Rules : Revert(m, r)
    BY <1>2
  <2>1. PICK v \in versions[r], publish \in BOOLEAN :
            WriteSteps(m, r, v.steps, v.trigger, publish)
    BY <2>0 DEF Revert
  <2>2. v.steps \in Configs /\ v.trigger \in Configs /\ v.trigger # None
    BY ClockAssumption DEF PeopleAndRules, PeopleTypes, Version
  <2> QED BY <2>1, <2>2, SaveTyped
<1>3. CASE \E r \in Rules : Publish(m, r)
  BY <1>3, ReadTyped DEF Publish, Ask, PeopleAndRules, PeopleTypes
<1>4. CASE \E r \in Rules : Pause(m, r) \/ Remove(m, r) \/ SaveColumns(m, r)
  BY <1>4, PauseTyped, RemoveTyped, SaveColumnsTyped
<1>5. CASE WriteColumns(m)
  <2> DEFINE q == managers[m]
  <2>1. q \in Requests /\ q.pc = "columns" /\ q.rule \in Rules /\ q.trigger \in Configs \cup {None}
    BY <1>5 DEF PeopleAndRules, PeopleTypes, WriteColumns, Requests
  <2>2. followingColumns(m) \in Configs
    BY <2>1 DEF followingColumns, PeopleAndRules, RulesTyped, Rule
  <2>3. RulesTyped'
    BY <1>5, <2>1, <2>2, TriggerEdit DEF PeopleAndRules, RulesTyped, WriteColumns
  <2>4. managers' \in [Managers -> Requests]
    <3>1. [NoRequest EXCEPT !.pc = "publish", !.rule = q.rule] \in Requests
          /\ NoRequest \in Requests
      BY <2>1 DEF NoRequest, Requests
    <3> QED BY <1>5, <3>1, RequestEdits DEF WriteColumns, PeopleAndRules, PeopleTypes
  <2> QED BY <1>5, <2>3, <2>4
           DEF WriteColumns, PeopleAndRules, PeopleTypes, HasLatest, counts
<1>6. CASE PublishRestored(m)
  <2>1. managers[m].rule \in Rules
    BY <1>6 DEF PublishRestored, PeopleAndRules, PeopleTypes, Requests
  <2> QED BY <1>6, <2>1, ReadTyped DEF PublishRestored, PeopleAndRules, PeopleTypes
<1>7. CASE NextNumber(m)
  BY <1>7, NumberTyped
<1>8. CASE Commit(m)
  BY <1>8, CommitTyped
<1>9. CASE RequestEnds(m)
  <2>1. managers' \in [Managers -> Requests]
    <3>1. NoRequest \in Requests
      BY DEF NoRequest, Requests
    <3> QED BY <1>9, <3>1, RequestEdits DEF RequestEnds, PeopleAndRules, PeopleTypes
  <2>2. torn' \subseteq Rules
    BY <1>9 DEF RequestEnds, PeopleAndRules, PeopleTypes, Requests
  <2> QED BY <1>9, <2>1, <2>2 DEF RequestEnds, PeopleAndRules, PeopleTypes, HasLatest, RulesTyped
<1>10. CASE Archive(m) \/ Delete(m)
  BY <1>10, RemovedTyped
<1> QED BY <1>1, <1>2, <1>3, <1>4, <1>5, <1>6, <1>7, <1>8, <1>9, <1>10 DEF Manage

-----------------------------------------------------------------------------
(* The steps of the tick.                                                  *)

LEMMA TickEdits ==
    ASSUME NEW f \in [Ticks -> TickStates], NEW k \in Ticks, NEW q \in TickStates
    PROVE  [f EXCEPT ![k] = q] \in [Ticks -> TickStates]
OBVIOUS

LEMMA OwedTyped ==
    ASSUME RulesTyped, NEW at \in Moments
    PROVE  owed(at) \subseteq Claim
<1> SUFFICES ASSUME NEW r \in Rules, Running(r, "schedule"), due(r, at) # None
             PROVE  [rule |-> r, config |-> rules[r].published.trigger, moment |-> due(r, at),
                     live |-> rules[r].publishedAt, cursor |-> rules[r].cursor] \in Claim
  BY DEF owed
<1>1. /\ rules[r].published \in Version /\ rules[r].publishedAt \in Moment
      /\ rules[r].cursor \in Moment
  BY DEF Running, RulesTyped, Rule
<1>2. rules[r].published.trigger \in Configs
  BY <1>1 DEF Version
<1>3. due(r, at) \in Moments
  BY <1>2, LatestOccurrence DEF due
<1> QED BY <1>1, <1>2, <1>3 DEF Claim

LEMMA DatesTyped ==
    ASSUME RulesTyped
    PROVE  {[rule |-> r, config |-> rules[r].published.trigger, moment |-> 0,
             live |-> rules[r].publishedAt, cursor |-> rules[r].cursor]
            : r \in {r \in Rules : Running(r, "date")}} \subseteq Claim
<1> SUFFICES ASSUME NEW r \in Rules, Running(r, "date")
             PROVE  [rule |-> r, config |-> rules[r].published.trigger, moment |-> 0,
                     live |-> rules[r].publishedAt, cursor |-> rules[r].cursor] \in Claim
  OBVIOUS
<1>1. /\ rules[r].published \in Version /\ rules[r].publishedAt \in Moment
      /\ rules[r].cursor \in Moment
  BY DEF Running, RulesTyped, Rule
<1> QED BY <1>1, ClockAssumption DEF Claim, Version, Moments

LEMMA ScopeTyped ==
    ASSUME NEW o \in Claim
    PROVE  scopeOf(o) \subseteq Firing
BY ClockAssumption DEF scopeOf, inScope, Claim, Firing, Moments

LEMMA DueTyped ==
    ASSUME WorldTypes, NEW k \in Ticks, NEW o \in Claim
    PROVE  dueDates(k, o) \subseteq Firing
<1> SUFFICES ASSUME NEW t \in Tasks
             PROVE  [kind |-> "date", rule |-> o.rule,
                     moment |-> opensAt(o.config, tasks[t].date), task |-> t] \in Firing
  BY DEF dueDates
<1>1. tasks[t].date \in Int /\ Lead[o.config] \in Int /\ o.rule \in Rules
  BY ClockAssumption DEF WorldTypes, Moments, Claim
<1> QED BY <1>1 DEF opensAt, Firing

\* What a tick has taken on itself and not said yet.
Held(k) ==
    CASE ticks[k].pc = "scope" -> {f \in Firing : /\ f.kind = "schedule"
                                                  /\ f.rule = ticks[k].next.rule
                                                  /\ f.moment = ticks[k].next.moment}
      [] ticks[k].pc = "run" -> ticks[k].left
      [] ticks[k].pc = "announce" -> {ticks[k].next}
      [] OTHER -> {}
\* What nobody may take on himself again: the cursor has passed it, or its row is
\* there, or the rule is not.
Behind(f) ==
    IF f.kind = "schedule" THEN rules[f.rule].cursor # None /\ f.moment <= rules[f.rule].cursor
    ELSE f \in firings \/ ~Exists(f.rule)

Once ==
    /\ again = {}
    /\ \A f \in fired : Behind(f)
    /\ \A k \in Ticks : \A f \in Held(k) :
          Behind(f) /\ f \notin fired /\ \A j \in Ticks \ {k} : f \notin Held(j)

\* One tick takes what nobody had, says some of what it held, or drops it.
LEMMA OnceStep ==
    ASSUME Once, TickTypes, NEW k \in Ticks, NEW Fresh, NEW Said \in SUBSET Held(k),
           \A f \in Fresh : ~Behind(f) /\ Behind(f)',
           \A f \in Firing : Behind(f) => Behind(f)',
           Held(k) \subseteq Firing, \A j \in Ticks : Held(j) \subseteq Firing,
           Held(k)' \subseteq (Held(k) \ Said) \cup Fresh,
           \A j \in Ticks \ {k} : Held(j)' = Held(j),
           fired' \subseteq fired \cup Said, again' = {}
    PROVE  Once'
<1>1. \A f \in fired' : Behind(f)'
  BY DEF Once, TickTypes
<1>2. ASSUME NEW j \in Ticks, NEW f \in Held(j)'
      PROVE  Behind(f)' /\ f \notin fired' /\ \A i \in Ticks \ {j} : f \notin Held(i)'
  <2>1. CASE j = k /\ f \in Fresh
    BY <2>1, <1>2 DEF Once
  <2>2. CASE j = k /\ f \notin Fresh
    BY <2>2, <1>2 DEF Once
  <2>3. CASE j # k
    BY <2>3, <1>2 DEF Once
  <2> QED BY <2>1, <2>2, <2>3
<1> QED BY <1>1, <1>2 DEF Once

LEMMA HeldTyped ==
    ASSUME TickTypes, NEW k \in Ticks
    PROVE  Held(k) \subseteq Firing
<1>1. ticks[k] \in TickStates
  BY DEF TickTypes
<1> QED BY <1>1 DEF Held, TickStates

\* Everything a tick's step keeps.
TickInv == TickTypes /\ RulesTyped /\ WorldTypes /\ Once

LEMMA ClaimStep ==
    ASSUME TickInv, NEW k \in Ticks, ClaimSchedule(k)
    PROVE  TickInv'
<1>1. PICK o \in ticks[k].todo :
        /\ ticks[k].pc = "schedules"
        /\ IF ~mayClaim(o)
           THEN /\ ticks' = [ticks EXCEPT ![k].todo = @ \ {o}]
                /\ UNCHANGED <<rules, strays>>
           ELSE /\ rules' = [rules EXCEPT ![o.rule].cursor = o.moment]
                /\ ticks' = IF inTime(k, o)
                            THEN [ticks EXCEPT ![k].pc = "scope", ![k].next = o,
                                               ![k].todo = @ \ {o}]
                            ELSE [ticks EXCEPT ![k].todo = @ \ {o}]
                /\ strays' \subseteq strays \cup {o}
  BY DEF ClaimSchedule
<1> DEFINE t == ticks[k]
           drop == [t EXCEPT !.todo = t.todo \ {o}]
           take == [t EXCEPT !.pc = "scope", !.next = o, !.todo = t.todo \ {o}]
<1>2. t \in TickStates /\ o \in Claim /\ o.rule \in Rules /\ o.moment \in Moments
  BY DEF TickInv, TickTypes, TickStates, Claim
<1>3. drop \in TickStates /\ take \in TickStates
  BY <1>1, <1>2 DEF TickStates
<1>4. Held(k) = {} /\ drop.pc = "schedules" /\ take.pc = "scope" /\ take.next = o
  BY <1>1, <1>2 DEF Held, TickStates
<1>5. UNCHANGED <<clock, tasks, firings, moves, faults, fired, again, claimed, lost>>
  BY DEF ClaimSchedule, counts
<1>51. \A r \in Rules : Exists(r)' <=> Exists(r)
  <2>1. rules' = rules \/ rules' = [rules EXCEPT ![o.rule].cursor = o.moment]
    BY <1>1
  <2> QED BY <1>2, <2>1 DEF Exists, TickInv, RulesTyped, Rule
<1>6. \A j \in Ticks \ {k} : ticks'[j] = ticks[j]
  BY <1>1 DEF TickInv, TickTypes
<1>7. \A j \in Ticks \ {k} : Held(j)' = Held(j)
  BY <1>6 DEF Held
<1>8. \A j \in Ticks : Held(j) \subseteq Firing
  BY HeldTyped DEF TickInv
<1>9. rules' \in [Rules -> Rule] /\ strays' \subseteq Claim
  <2>1. CASE mayClaim(o)
    <3>1. rules' = [rules EXCEPT ![o.rule].cursor = o.moment] /\ strays' \subseteq strays \cup {o}
      BY <1>1, <2>1
    <3> QED BY <1>2, <3>1, CursorEdit DEF TickInv, TickTypes, RulesTyped, Moment
  <2>2. CASE ~mayClaim(o)
    BY <1>1, <2>2 DEF TickInv, TickTypes, RulesTyped
  <2> QED BY <2>1, <2>2
<1>10. ASSUME NEW f \in Firing, Behind(f) PROVE Behind(f)'
  <2>1. CASE ~mayClaim(o)
    BY <1>1, <1>5, <1>10, <2>1 DEF Behind, Exists
  <2>2. CASE mayClaim(o) /\ f.kind = "schedule"
    <3>1. rules[f.rule] \in Rule /\ f.rule \in Rules /\ f.moment \in Int
      BY DEF Firing, TickInv, RulesTyped
    <3>2. rules[f.rule].cursor \in Moments /\ f.moment <= rules[f.rule].cursor
      BY <1>10, <2>2, <3>1 DEF Behind, Rule, Moment
    <3>3. CASE f.rule # o.rule
      <4>1. rules'[f.rule].cursor = rules[f.rule].cursor
        BY <1>1, <1>2, <2>2, <3>1, <3>3 DEF TickInv, RulesTyped
      <4> QED BY <1>10, <2>2, <4>1 DEF Behind
    <3>4. CASE f.rule = o.rule
      <4>1. rules'[f.rule].cursor = o.moment
        BY <1>1, <1>2, <2>2, <3>1, <3>4 DEF TickInv, RulesTyped, Rule
      <4>2. rules[f.rule].cursor < o.moment
        BY <2>2, <3>2, <3>4, ClockAssumption DEF mayClaim, Moments
      <4>3. o.moment # None /\ f.moment <= o.moment
        BY <1>2, <3>1, <3>2, <4>2, ClockAssumption DEF Moments
      <4> QED BY <2>2, <4>1, <4>3 DEF Behind
    <3> QED BY <3>3, <3>4
  <2>3. CASE mayClaim(o) /\ f.kind # "schedule"
    BY <1>5, <1>51, <1>10, <2>3 DEF Behind, Firing
  <2> QED BY <2>1, <2>2, <2>3
<1>11. CASE ticks' = [ticks EXCEPT ![k] = drop]
  <2>1. ticks' \in [Ticks -> TickStates] /\ ticks'[k] = drop
    BY <1>3, <1>11, TickEdits DEF TickInv, TickTypes
  <2>2. Held(k)' = {}
    BY <1>4, <2>1 DEF Held
  <2>3. Once'
    <3>1. /\ {} \in SUBSET Held(k) /\ Held(k)' \subseteq (Held(k) \ {}) \cup {}
          /\ fired' \subseteq fired \cup {} /\ again' = {}
      BY <1>5, <2>2 DEF TickInv, Once
    <3> QED BY <1>7, <1>8, <1>10, <3>1, OnceStep DEF TickInv
  <2> QED BY <1>5, <1>9, <2>1, <2>3 DEF TickInv, TickTypes, WorldTypes, RulesTyped, clock
<1>12. CASE ticks' = [ticks EXCEPT ![k] = take] /\ mayClaim(o)
  <2> DEFINE Fresh == {f \in Firing : f.kind = "schedule" /\ f.rule = o.rule /\ f.moment = o.moment}
  <2>1. ticks' \in [Ticks -> TickStates] /\ ticks'[k] = take
    BY <1>3, <1>12, TickEdits DEF TickInv, TickTypes
  <2>2. Held(k)' = Fresh
    BY <1>4, <2>1 DEF Held
  <2>3. ASSUME NEW f \in Fresh PROVE ~Behind(f) /\ Behind(f)'
    <3>1. rules[o.rule] \in Rule /\ rules'[o.rule].cursor = o.moment
      BY <1>1, <1>2, <1>12 DEF TickInv, RulesTyped, Rule
    <3>2. rules[o.rule].cursor \in Moments \cup {None} /\ o.moment # None
      BY <1>2, <3>1, ClockAssumption DEF Rule, Moment, Moments
    <3>3. ~Behind(f)
      BY <1>2, <1>12, <3>2, ClockAssumption DEF Behind, mayClaim, Moments
    <3>4. Behind(f)'
      BY <1>2, <3>1, <3>2, ClockAssumption DEF Behind, Moments
    <3> QED BY <3>3, <3>4
  <2>4. Once'
    <3> HIDE DEF Fresh
    <3>1. /\ {} \in SUBSET Held(k) /\ Held(k)' \subseteq (Held(k) \ {}) \cup Fresh
          /\ fired' \subseteq fired \cup {} /\ again' = {}
      BY <1>5, <2>2 DEF TickInv, Once
    <3> QED BY <1>7, <1>8, <1>10, <2>3, <3>1, OnceStep DEF TickInv
  <2> QED BY <1>5, <1>9, <2>1, <2>4 DEF TickInv, TickTypes, WorldTypes, RulesTyped, clock
<1> QED BY <1>1, <1>11, <1>12

\* A step that only moves tick k to state q, taking nothing on itself.
LEMMA QuietStep ==
    ASSUME TickInv, NEW k \in Ticks, NEW q \in TickStates, ticks' = [ticks EXCEPT ![k] = q],
           q.pc \notin {"scope", "announce"}, q.pc = "run" => q.left \subseteq Held(k),
           UNCHANGED <<clock, rules, tasks, firings, moves, fired, again, strays>>,
           claimed' \subseteq Firing, lost' \subseteq Firing, faults' \in Nat
    PROVE  TickInv'
<1>1. ticks' \in [Ticks -> TickStates] /\ ticks'[k] = q
  BY TickEdits DEF TickInv, TickTypes
<1>2. \A j \in Ticks \ {k} : Held(j)' = Held(j)
  BY DEF Held, TickInv, TickTypes
<1>3. Held(k)' \subseteq Held(k)
  BY <1>1 DEF Held, TickStates
<1>4. \A j \in Ticks : Held(j) \subseteq Firing
  BY HeldTyped DEF TickInv
<1>5. \A f \in Firing : Behind(f) => Behind(f)'
  BY DEF Behind, Exists
<1>6. Once'
  <2>1. /\ {} \in SUBSET Held(k) /\ Held(k)' \subseteq (Held(k) \ {}) \cup {}
        /\ fired' \subseteq fired \cup {} /\ again' = {}
    BY <1>3 DEF TickInv, Once
  <2> QED BY <1>2, <1>4, <1>5, <2>1, OnceStep DEF TickInv
<1> QED BY <1>1, <1>6 DEF TickInv, TickTypes, WorldTypes, RulesTyped, clock

\* A step that says f, which tick k held, or loses it, and moves k to q.
LEMMA SayStep ==
    ASSUME TickInv, NEW k \in Ticks, NEW f \in Held(k), Say(k, f), NEW q \in TickStates,
           ticks' = [ticks EXCEPT ![k] = q],
           q.pc \notin {"scope", "announce"}, q.pc = "run" => q.left \subseteq Held(k) \ {f},
           UNCHANGED <<clock, rules, tasks, firings, moves, claimed, strays>>
    PROVE  TickInv'
<1>1. ticks' \in [Ticks -> TickStates] /\ ticks'[k] = q
  BY TickEdits DEF TickInv, TickTypes
<1>2. \A j \in Ticks \ {k} : Held(j)' = Held(j)
  BY DEF Held, TickInv, TickTypes
<1>3. Held(k)' \subseteq Held(k) \ {f}
  BY <1>1 DEF Held, TickStates
<1>4. \A j \in Ticks : Held(j) \subseteq Firing
  BY HeldTyped DEF TickInv
<1>5. \A g \in Firing : Behind(g) => Behind(g)'
  BY DEF Behind, Exists
<1>6. f \in Firing /\ f \notin fired /\ again = {}
  BY <1>4 DEF TickInv, Once
<1>7. again' = {} /\ fired' \subseteq fired \cup {f} /\ lost' \subseteq Firing /\ faults' \in Nat
  BY <1>6 DEF Say, TickInv, TickTypes, WorldTypes
<1>8. Once'
  <2> DEFINE Said == {f}
             Fresh == {}
  <2>1. /\ Said \in SUBSET Held(k) /\ Held(k)' \subseteq (Held(k) \ Said) \cup Fresh
        /\ fired' \subseteq fired \cup Said /\ \A g \in Fresh : ~Behind(g) /\ Behind(g)'
    BY <1>3, <1>7
  <2> HIDE DEF Said, Fresh
  <2> QED BY <1>2, <1>4, <1>5, <1>7, <2>1, OnceStep DEF TickInv
<1> QED BY <1>1, <1>4, <1>6, <1>7, <1>8 DEF TickInv, TickTypes, WorldTypes, RulesTyped, clock

LEMMA FiringStep ==
    ASSUME TickInv, NEW k \in Ticks, CreateFiring(k)
    PROVE  TickInv'
<1>1. PICK f \in ticks[k].left :
        /\ ticks[k].pc = "firing"
        /\ \/ /\ Exists(f.rule) /\ ~alreadyFired(f)
              /\ firings' = firings \cup {f} /\ claimed' = claimed \cup {f}
              /\ ticks' = [ticks EXCEPT ![k].pc = "announce", ![k].next = f, ![k].left = @ \ {f}]
           \/ /\ ticks' = [ticks EXCEPT ![k].left = @ \ {f},
                                        ![k].pc = IF ticks[k].left = {f} THEN "dates" ELSE "firing"]
              /\ UNCHANGED <<firings, claimed>>
           \/ /\ ticks' = [ticks EXCEPT ![k] = NoTick]
              /\ UNCHANGED <<firings, claimed>>
  BY DEF CreateFiring
<1>2. UNCHANGED <<clock, rules, tasks, moves, faults, fired, again, lost, strays>>
  BY DEF CreateFiring, counts
<1> DEFINE t == ticks[k]
           pass == [t EXCEPT !.left = t.left \ {f},
                             !.pc = IF t.left = {f} THEN "dates" ELSE "firing"]
           take == [t EXCEPT !.pc = "announce", !.next = f, !.left = t.left \ {f}]
<1>3. t \in TickStates /\ f \in Firing /\ f.kind = "date"
  BY <1>1 DEF TickInv, TickTypes, TickStates
<1>4. pass \in TickStates /\ pass.pc \in {"dates", "firing"}
  BY <1>1, <1>3 DEF TickStates
<1>5. take \in TickStates /\ take.pc = "announce" /\ take.next = f
  BY <1>1, <1>3 DEF TickStates
<1>6. CASE UNCHANGED <<firings, claimed>> /\ ticks' = [ticks EXCEPT ![k] = pass]
  <2> HIDE DEF pass
  <2> QED BY <1>2, <1>4, <1>6, QuietStep DEF TickInv, TickTypes, WorldTypes
<1>61. CASE UNCHANGED <<firings, claimed>> /\ ticks' = [ticks EXCEPT ![k] = NoTick]
  <2>1. NoTick \in TickStates /\ NoTick.pc = "idle"
    BY ClockAssumption DEF NoTick, TickStates, Moments
  <2> QED BY <1>2, <1>61, <2>1, QuietStep DEF TickInv, TickTypes, WorldTypes
<1>7. CASE /\ Exists(f.rule) /\ ~alreadyFired(f)
           /\ ticks' = [ticks EXCEPT ![k] = take] /\ firings' = firings \cup {f}
           /\ claimed' = claimed \cup {f}
  <2>2. ticks' \in [Ticks -> TickStates] /\ ticks'[k] = take
    BY <1>5, <1>7, TickEdits DEF TickInv, TickTypes
  <2>3. \A j \in Ticks \ {k} : Held(j)' = Held(j)
    BY <1>7 DEF Held, TickInv, TickTypes
  <2>4. Held(k)' = {f}
    BY <1>5, <2>2 DEF Held
  <2>5. \A g \in Firing : Behind(g) => Behind(g)'
    BY <1>2, <1>7 DEF Behind, Exists
  <2>6. \A g \in {f} : ~Behind(g) /\ Behind(g)'
    BY <1>3, <1>7 DEF Behind, alreadyFired
  <2>7. \A j \in Ticks : Held(j) \subseteq Firing
    BY HeldTyped DEF TickInv
  <2>8. Once'
    <3> DEFINE Said == {}
               Fresh == {f}
    <3>1. /\ Said \in SUBSET Held(k) /\ Held(k)' \subseteq (Held(k) \ Said) \cup Fresh
          /\ fired' \subseteq fired \cup Said /\ again' = {}
          /\ \A g \in Fresh : ~Behind(g) /\ Behind(g)'
      BY <1>2, <2>4, <2>6 DEF TickInv, Once
    <3> HIDE DEF Said, Fresh
    <3> QED BY <2>3, <2>5, <2>7, <3>1, OnceStep DEF TickInv
  <2> QED BY <1>2, <1>3, <1>7, <2>2, <2>8 DEF TickInv, TickTypes, WorldTypes, RulesTyped, clock
<1> QED BY <1>1, <1>6, <1>61, <1>7

LEMMA TickStep ==
    ASSUME TickInv, NEW k \in Ticks, Tick(k) \/ TickDies(k)
    PROVE  TickInv'
<1> DEFINE t == ticks[k]
<1>0. /\ t \in TickStates /\ NoTick \in TickStates /\ NoTick.pc = "idle" /\ now \in Moments
      /\ claimed \subseteq Firing /\ lost \subseteq Firing /\ faults \in Nat
      /\ ticks \in [Ticks -> TickStates]
  BY ClockAssumption DEF TickInv, TickTypes, WorldTypes, NoTick, TickStates, Moments
<1>1. CASE StartTick(k)
  <2> DEFINE q == [NoTick EXCEPT !.pc = "schedules", !.at = now, !.todo = owed(now)]
  <2>1. q \in TickStates /\ q.pc = "schedules"
    BY <1>0, OwedTyped DEF TickInv, NoTick, TickStates
  <2>2. ticks' = [ticks EXCEPT ![k] = q]
    BY <1>1 DEF StartTick
  <2> HIDE DEF q
  <2> QED BY <1>0, <1>1, <2>1, <2>2, QuietStep DEF StartTick, counts, seen
<1>2. CASE ClaimSchedule(k)
  BY <1>2, ClaimStep
<1>3. CASE ReadScope(k)
  <2> DEFINE all == scopeOf(t.next)
             q == [t EXCEPT !.left = all, !.next = None,
                            !.pc = IF all = {} THEN "schedules" ELSE "run"]
  <2>1. t.next \in Claim /\ t.pc = "scope"
    BY <1>0, <1>3 DEF ReadScope, TickStates
  <2>2. all \subseteq Firing /\ all \subseteq Held(k)
    BY <2>1, ScopeTyped DEF Held, scopeOf
  <2>3. q \in TickStates /\ q.pc \in {"schedules", "run"} /\ q.left = all
    BY <1>0, <2>1, <2>2, ZenonT(30) DEF TickStates
  <2>4. ticks' = [ticks EXCEPT ![k] = q] /\ claimed' = claimed \cup all
    BY <1>3 DEF ReadScope
  <2> HIDE DEF q, all
  <2> QED BY <1>0, <1>3, <2>2, <2>3, <2>4, QuietStep DEF ReadScope, counts
<1>4. CASE RunScheduled(k)
  <2>1. PICK f \in t.left :
          /\ t.pc = "run" /\ Say(k, f)
          /\ ticks' = [ticks EXCEPT ![k].left = @ \ {f},
                                    ![k].pc = IF ticks[k].left = {f} THEN "schedules" ELSE "run"]
    BY <1>4 DEF RunScheduled
  <2> DEFINE q == [t EXCEPT !.left = t.left \ {f},
                            !.pc = IF t.left = {f} THEN "schedules" ELSE "run"]
  <2>2. q \in TickStates /\ q.pc \in {"schedules", "run"} /\ q.left = t.left \ {f}
    BY <1>0, <2>1, ZenonT(30) DEF TickStates
  <2>3. ticks' = [ticks EXCEPT ![k] = q] /\ Held(k) = t.left
    BY <2>1 DEF Held
  <2>4. f \in Held(k) /\ q.left \subseteq Held(k) \ {f}
    BY <2>1, <2>2, <2>3
  <2>5. UNCHANGED <<clock, rules, tasks, firings, moves, claimed, strays>>
    BY <1>4 DEF RunScheduled
  <2> HIDE DEF q
  <2> QED BY <2>1, <2>2, <2>3, <2>4, <2>5, SayStep
<1>5. CASE StartDates(k)
  <2> DEFINE all == {[rule |-> r, config |-> rules[r].published.trigger, moment |-> 0,
                      live |-> rules[r].publishedAt, cursor |-> rules[r].cursor]
                     : r \in {r \in Rules : Running(r, "date")}}
             q == [t EXCEPT !.pc = "dates", !.todo = all]
  <2>1. all \subseteq Claim
    BY DatesTyped DEF TickInv
  <2>2. q \in TickStates /\ q.pc = "dates"
    BY <1>0, <2>1 DEF TickStates
  <2>3. ticks' = [ticks EXCEPT ![k] = q]
    BY <1>5 DEF StartDates
  <2> HIDE DEF q, all
  <2> QED BY <1>0, <1>5, <2>2, <2>3, QuietStep DEF StartDates, counts, seen
<1>6. CASE LookAtDates(k)
  <2>1. PICK o \in t.todo :
          /\ t.pc = "dates"
          /\ ticks' = [ticks EXCEPT ![k].todo = @ \ {o}, ![k].left = dueDates(k, o) \ firings,
                      ![k].pc = IF dueDates(k, o) \ firings = {} THEN "dates" ELSE "firing"]
    BY <1>6 DEF LookAtDates
  <2> DEFINE fresh == dueDates(k, o) \ firings
             q == [t EXCEPT !.todo = t.todo \ {o}, !.left = fresh,
                            !.pc = IF fresh = {} THEN "dates" ELSE "firing"]
  <2>2. fresh \subseteq Firing /\ \A f \in fresh : f.kind = "date"
    BY <1>0, DueTyped DEF TickInv, TickStates, dueDates
  <2>3. q \in TickStates /\ q.pc \in {"dates", "firing"}
    BY <1>0, <2>1, <2>2 DEF TickStates
  <2>4. ticks' = [ticks EXCEPT ![k] = q]
    BY <2>1
  <2> HIDE DEF q, fresh
  <2> QED BY <1>0, <1>6, <2>3, <2>4, QuietStep, ZenonT(30) DEF LookAtDates, counts, seen
<1>7. CASE CreateFiring(k)
  BY <1>7, FiringStep
<1>8. CASE Announce(k)
  <2> DEFINE q == [t EXCEPT !.next = None, !.pc = IF t.left = {} THEN "dates" ELSE "firing"]
  <2>1. t.pc = "announce" /\ t.next \in Held(k) /\ Say(k, t.next)
    BY <1>8 DEF Announce, Held
  <2>2. q \in TickStates /\ q.pc \in {"dates", "firing"}
    BY <1>0, <2>1 DEF TickStates
  <2>3. ticks' = [ticks EXCEPT ![k] = q]
    BY <1>8 DEF Announce
  <2> HIDE DEF q
  <2> QED BY <1>0, <1>8, <2>1, <2>2, <2>3, SayStep DEF Announce
<1>9. CASE EndTick(k)
  BY <1>0, <1>9, QuietStep DEF EndTick, counts, seen
<1>10. CASE TickDies(k)
  <2>1. owing(k) \subseteq Firing
    BY <1>0 DEF owing, TickStates
  <2>2. /\ UNCHANGED <<clock, rules, tasks, firings, moves, fired, again, strays>>
        /\ ticks' = [ticks EXCEPT ![k] = NoTick] /\ claimed' \subseteq Firing
        /\ lost' \subseteq Firing /\ faults' \in Nat
    BY <1>0, <1>10, <2>1 DEF TickDies
  <2> QED BY <1>0, <2>2, QuietStep
<1> QED BY <1>1, <1>2, <1>3, <1>4, <1>5, <1>6, <1>7, <1>8, <1>9, <1>10 DEF Tick

-----------------------------------------------------------------------------
(* All of it together.                                                     *)

ClockInv == PeopleTypes /\ TickInv

\* A step of people or of time takes nothing on a tick.
LEMMA OthersStep ==
    ASSUME TickInv, RulesTyped', WorldTypes',
           UNCHANGED <<ticks, fired, again, claimed, lost, strays>>,
           firings' \subseteq Firing, \A f \in Firing : Behind(f) => Behind(f)'
    PROVE  TickInv'
<1>1. \A k \in Ticks : Held(k)' = Held(k) /\ Held(k) \subseteq Firing
  BY HeldTyped DEF Held, TickInv
<1>2. Once'
  BY <1>1 DEF Once, TickInv, TickTypes
<1> QED BY <1>2 DEF TickInv, TickTypes

\* What a request may do to a rule, as the ticks see it: never move its cursor,
\* nor bring it back.
LEMMA RulesKept ==
    ASSUME PeopleAndRules, NEW m \in Managers, Manage(m), NEW x \in Rules
    PROVE  /\ rules'[x].cursor = rules[x].cursor
           /\ ~Exists(x) => ~Exists(x)'
<1>1. rules \in [Rules -> Rule] /\ managers[m] \in Requests
  BY DEF PeopleAndRules, PeopleTypes, RulesTyped
<1>2. ASSUME NEW r \in Rules, NEW s, rules' = [rules EXCEPT ![r].steps = s] \/ rules' = [rules EXCEPT ![r].trigger = s]
      PROVE  rules'[x].cursor = rules[x].cursor /\ rules'[x].status = rules[x].status
  BY <1>1, <1>2 DEF Rule
<1>3. ASSUME NEW r \in Rules, NEW s, rules' = [rules EXCEPT ![r].status = s], Exists(r)
      PROVE  rules'[x].cursor = rules[x].cursor /\ (~Exists(x) => ~Exists(x)')
  BY <1>1, <1>3 DEF Rule, Exists
<1>4. ASSUME NEW r \in Rules, Save(m, r) \/ Revert(m, r) \/ SaveColumns(m, r)
      PROVE  \E s : rules' = [rules EXCEPT ![r].steps = s] \/ rules' = [rules EXCEPT ![r].trigger = s]
  BY <1>4 DEF Save, Revert, SaveColumns, WriteSteps
<1>5. ASSUME WriteColumns(m)
      PROVE  managers[m].rule \in Rules
             /\ rules' = [rules EXCEPT ![managers[m].rule].trigger = followingColumns(m)]
  BY <1>1, <1>5 DEF WriteColumns, Requests
<1>6. ASSUME NEW r \in Rules, Pause(m, r) PROVE rules' = [rules EXCEPT ![r].status = "PAUSED"] /\ Exists(r)
  BY <1>6 DEF Pause, Ask
<1>7. ASSUME Archive(m) \/ Delete(m)
      PROVE  /\ managers[m].rule \in Rules /\ Exists(managers[m].rule)
             /\ \E s : rules' = [rules EXCEPT ![managers[m].rule].status = s]
  BY <1>1, <1>7 DEF Archive, Delete, Requests
<1>8. ASSUME Commit(m) PROVE rules'[x].cursor = rules[x].cursor /\ (~Exists(x) => ~Exists(x)')
  <2>1. managers[m].rule \in Rules
    BY <1>1, <1>8 DEF Commit, Requests
  <2>2. CASE rules' = rules
    BY <2>2 DEF Exists
  <2>3. CASE rules' # rules
    <3>1. PICK p : rules' = [rules EXCEPT ![managers[m].rule].status = "ACTIVE",
                                          ![managers[m].rule].publishedAt = now,
                                          ![managers[m].rule].published = p]
                   /\ Exists(managers[m].rule)
      BY <1>8, <2>3 DEF Commit
    <3> QED BY <1>1, <2>1, <3>1 DEF Rule, Exists
  <2> QED BY <2>2, <2>3
<1>9. ASSUME \/ \E r \in Rules : Publish(m, r) \/ Remove(m, r)
             \/ PublishRestored(m) \/ NextNumber(m) \/ RequestEnds(m)
      PROVE  rules' = rules
  BY <1>9 DEF Publish, PublishRestored, ReadRule, Remove, NextNumber, RequestEnds
<1>10. rules' = rules => rules'[x].cursor = rules[x].cursor /\ (~Exists(x) => ~Exists(x)')
  BY DEF Exists
<1>11. rules'[x].status = rules[x].status => (~Exists(x) => ~Exists(x)')
  BY DEF Exists
<1>12. ASSUME NEW r \in Rules, Save(m, r) \/ Revert(m, r) \/ SaveColumns(m, r)
       PROVE  rules'[x].cursor = rules[x].cursor /\ (~Exists(x) => ~Exists(x)')
  BY <1>2, <1>4, <1>11, <1>12
<1>13. ASSUME NEW r \in Rules, Pause(m, r)
       PROVE  rules'[x].cursor = rules[x].cursor /\ (~Exists(x) => ~Exists(x)')
  BY <1>3, <1>6, <1>13
<1>14. ASSUME WriteColumns(m)
       PROVE  rules'[x].cursor = rules[x].cursor /\ (~Exists(x) => ~Exists(x)')
  BY <1>2, <1>5, <1>11, <1>14
<1>15. ASSUME Archive(m) \/ Delete(m)
       PROVE  rules'[x].cursor = rules[x].cursor /\ (~Exists(x) => ~Exists(x)')
  BY <1>3, <1>7, <1>15
<1> QED BY <1>8, <1>9, <1>10, <1>12, <1>13, <1>14, <1>15 DEF Manage

LEMMA PeopleStep ==
    ASSUME ClockInv, NEW m \in Managers, Manage(m)
    PROVE  ClockInv'
<1>1. PeopleAndRules /\ now \in Moments /\ firings \subseteq Firing
  BY DEF ClockInv, TickInv, PeopleAndRules, WorldTypes, TickTypes
<1>2. PeopleAndRules'
  BY <1>1, PeopleTyped
<1>3. UNCHANGED <<clock, tasks, ticks, moves, fired, again, claimed, lost, strays>>
  BY DEF Manage, Save, SaveColumns, Revert, WriteSteps, Publish, PublishRestored, ReadRule, Pause,
         Remove, Archive, Delete, WriteColumns, NextNumber, Commit, RequestEnds, counts, seen
<1>4. faults' \in Nat
  <2>1. faults \in Nat
    BY DEF ClockInv, TickInv, WorldTypes
  <2>2. faults' = faults \/ faults' = faults + 1
    BY DEF Manage, Save, SaveColumns, Revert, WriteSteps, Publish, PublishRestored, ReadRule, Pause,
           Remove, Archive, Delete, WriteColumns, NextNumber, Commit, RequestEnds, counts
  <2> QED BY <2>1, <2>2
<1>5. WorldTypes'
  BY <1>3, <1>4 DEF ClockInv, TickInv, WorldTypes, clock
<1>6. firings' \subseteq firings /\ \A f \in firings \ firings' : ~Exists(f.rule)'
  <2>1. CASE Delete(m)
    <3>1. PICK r \in Rules : r = managers[m].rule
      BY <1>1, <2>1 DEF Delete, PeopleAndRules, PeopleTypes, Requests
    <3>2. rules'[r].status = "GONE" /\ firings' = {f \in firings : f.rule # r}
      BY <1>1, <2>1, <3>1 DEF Delete, PeopleAndRules, RulesTyped, Rule
    <3> QED BY <3>2 DEF Exists
  <2>2. CASE ~Delete(m)
    BY <2>2 DEF Manage, Save, SaveColumns, Revert, WriteSteps, Publish, PublishRestored, ReadRule, Pause,
           Remove, Archive, WriteColumns, NextNumber, Commit, RequestEnds
  <2> QED BY <2>1, <2>2
<1>7. ASSUME NEW f \in Firing, Behind(f) PROVE Behind(f)'
  <2>1. f.rule \in Rules
    BY DEF Firing
  <2>2. rules'[f.rule].cursor = rules[f.rule].cursor /\ (~Exists(f.rule) => ~Exists(f.rule)')
    BY <1>1, <2>1, RulesKept
  <2>3. CASE f.kind = "schedule"
    BY <1>7, <2>2, <2>3 DEF Behind
  <2>4. CASE f.kind # "schedule"
    <3>1. CASE ~Exists(f.rule)
      BY <2>2, <2>4, <3>1 DEF Behind
    <3>2. CASE Exists(f.rule)
      BY <1>6, <1>7, <2>4, <3>2 DEF Behind
    <3> QED BY <3>1, <3>2
  <2> QED BY <2>3, <2>4
<1>8. TickInv'
  <2>1. TickInv /\ RulesTyped' /\ firings' \subseteq Firing
    BY <1>1, <1>2, <1>6 DEF ClockInv, PeopleAndRules
  <2> QED BY <1>3, <1>5, <1>7, <2>1, OthersStep
<1> QED BY <1>2, <1>8 DEF ClockInv, PeopleAndRules

LEMMA WorldStep ==
    ASSUME ClockInv, Advance \/ \E t \in Tasks : Close(t) \/ MoveDate(t)
    PROVE  ClockInv'
<1>1. UNCHANGED <<rules, versions, managers, meant, torn, raced, overtaken, requests>>
  BY DEF Advance, Close, MoveDate, edits, counts
<1>2. UNCHANGED <<ticks, firings, fired, again, claimed, lost, strays>>
  BY DEF Advance, Close, MoveDate, seen
<1>3. WorldTypes'
  <2>1. CASE Advance
    <3>1. now' \in Moments
      BY <2>1, ClockAssumption DEF Advance, WorldTypes, ClockInv, TickInv, Moments
    <3>2. ASSUME NEW r \in Rules, Running(r, "schedule") PROVE rules[r].published.trigger \in Configs
      <4>1. rules[r].published \in Version
        BY <3>2 DEF Running, ClockInv, TickInv, RulesTyped, Rule
      <4> QED BY <4>1 DEF Version
    <3>3. alive' \subseteq Rules \X Configs \X Moments
      BY <2>1, <3>1, <3>2 DEF Advance, WorldTypes, ClockInv, TickInv
    <3> QED BY <2>1, <3>1, <3>3 DEF Advance, WorldTypes, ClockInv, TickInv, counts
  <2>2. ASSUME NEW t \in Tasks, Close(t) PROVE WorldTypes'
    <3>1. [tasks[t] EXCEPT !.open = FALSE] \in [open : BOOLEAN, date : Moments]
      BY DEF WorldTypes, ClockInv, TickInv
    <3> QED BY <2>2, <3>1 DEF Close, WorldTypes, ClockInv, TickInv, clock
  <2>3. ASSUME NEW t \in Tasks, MoveDate(t) PROVE WorldTypes'
    <3>1. PICK d \in Moments : tasks' = [tasks EXCEPT ![t].date = d]
      BY <2>3 DEF MoveDate
    <3>2. [tasks[t] EXCEPT !.date = d] \in [open : BOOLEAN, date : Moments]
      BY DEF WorldTypes, ClockInv, TickInv
    <3> QED BY <2>3, <3>1, <3>2 DEF MoveDate, WorldTypes, ClockInv, TickInv, clock
  <2> QED BY <2>1, <2>2, <2>3
<1>4. \A f \in Firing : Behind(f) => Behind(f)'
  BY <1>1, <1>2 DEF Behind, Exists
<1>5. TickInv'
  BY <1>1, <1>2, <1>3, <1>4, OthersStep DEF ClockInv, TickInv, TickTypes, RulesTyped
<1> QED BY <1>1, <1>5 DEF ClockInv, PeopleTypes, HasLatest

LEMMA ClockStep == ClockInv /\ [Next]_vars => ClockInv'
<1> SUFFICES ASSUME ClockInv, [Next]_vars PROVE ClockInv'
  OBVIOUS
<1>1. CASE Advance \/ \E t \in Tasks : Close(t) \/ MoveDate(t)
  BY <1>1, WorldStep
<1>2. CASE \E m \in Managers : Manage(m)
  BY <1>2, PeopleStep
<1>3. CASE \E k \in Ticks : Tick(k) \/ TickDies(k)
  <2>1. TickInv'
    BY <1>3, TickStep DEF ClockInv
  <2>2. UNCHANGED <<versions, managers, meant, torn, raced, overtaken, requests>>
    <3>1. PICK k \in Ticks : Tick(k) \/ TickDies(k)
      BY <1>3
    <3>2. CASE StartTick(k) \/ ReadScope(k) \/ StartDates(k) \/ LookAtDates(k) \/ EndTick(k)
      BY <3>2 DEF StartTick, ReadScope, StartDates, LookAtDates, EndTick, edits, counts
    <3>3. CASE ClaimSchedule(k) \/ RunScheduled(k) \/ CreateFiring(k) \/ Announce(k) \/ TickDies(k)
      BY <3>3 DEF ClaimSchedule, RunScheduled, CreateFiring, Announce, TickDies, edits, counts
    <3> QED BY <3>1, <3>2, <3>3 DEF Tick
  <2> QED BY <2>1, <2>2 DEF ClockInv, PeopleTypes, HasLatest
<1>4. CASE UNCHANGED vars
  <2>0. \A f \in Firing : Behind(f) => Behind(f)'
    BY <1>4 DEF vars, Behind, Exists
  <2>1. TickInv'
    BY <1>4, <2>0, OthersStep DEF vars, ClockInv, TickInv, RulesTyped, WorldTypes, TickTypes
  <2> QED BY <1>4, <2>1 DEF vars, ClockInv, PeopleTypes, HasLatest
<1> QED BY <1>1, <1>2, <1>3, <1>4 DEF Next

LEMMA ClockInvInit == Init => ClockInv
<1> SUFFICES ASSUME Init PROVE ClockInv
  OBVIOUS
<1>1. ClockTypes
  BY ClockInit
<1>2. again = {} /\ fired = {} /\ \A k \in Ticks : Held(k) = {}
  BY DEF Init, Held, NoTick
<1> QED BY <1>1, <1>2 DEF ClockTypes, ClockInv, TickInv, Once

\* Whatever the rules, calendars, ticks and managers, the clock's state keeps its types.
THEOREM ClockTyped == Spec => []TypeOK
<1>2. ClockInv => TypeOK
  BY TypesSuffice DEF ClockInv, TickInv, ClockTypes
<1> QED BY <1>2, ClockInvInit, ClockStep, PTL DEF Spec

\* No moment of a schedule and no date of a task is announced twice for a rule,
\* however many ticks overlap and whatever is published in between.
THEOREM AnnouncedOnce == Spec => []FiresOnce
<1>2. ClockInv => FiresOnce
  BY DEF ClockInv, TickInv, Once, FiresOnce
<1> QED BY <1>2, ClockInvInit, ClockStep, PTL DEF Spec

-----------------------------------------------------------------------------
(* ClaimedIsSaid and RunWasLive: what a tick holds, and since when. *)

\* A live rule's moments since it was published all met it live.
LiveSince(r) == rules[r].status = "ACTIVE" /\ rules[r].published # None =>
    /\ rules[r].publishedAt \in Moments
    /\ Kind[rules[r].published.trigger] = "schedule" =>
           \A x \in Occurs[rules[r].published.trigger] :
               rules[r].publishedAt < x /\ x <= now => <<r, rules[r].published.trigger, x>> \in alive

\* So what is on a tick's list met its rule live, or its rule had run before and was
\* published again.
MetLive(o) == \/ <<o.rule, o.config, o.moment>> \in alive
              \/ o.cursor # None /\ o.live >= o.moment
ListsLive == \A k \in Ticks : ticks[k].pc = "schedules" \/ ticks[k].pc = "scope" \/ ticks[k].pc = "run" =>
    \A o \in ticks[k].todo : MetLive(o)

TicksAccount == ClaimedIsSaid /\ ListsLive /\ RunWasLive /\ \A r \in Rules : LiveSince(r)

\* A tick may let go of what it is owing only by saying or losing it.
LEMMA AccountKept ==
    ASSUME ClaimedIsSaid, ticks \in [Ticks -> TickStates], NEW k \in Ticks,
           \A j \in Ticks \ {k} : ticks'[j] = ticks[j],
           claimed' \subseteq claimed \cup owing(k)',
           owing(k) \subseteq owing(k)' \cup fired' \cup lost',
           fired \subseteq fired', lost \subseteq lost'
    PROVE  ClaimedIsSaid'
<1> SUFFICES ASSUME NEW f \in claimed', f \notin fired', f \notin lost'
             PROVE  \E j \in Ticks : f \in owing(j)'
  BY DEF ClaimedIsSaid
<1>1. CASE f \in owing(k)'
  BY <1>1
<1>2. CASE f \notin owing(k)'
  <2>1. PICK j \in Ticks : f \in owing(j)
    BY <1>2 DEF ClaimedIsSaid
  <2>2. j # k
    BY <1>2, <2>1
  <2>3. owing(j)' = owing(j)
    BY <2>2 DEF owing
  <2> QED BY <2>1, <2>3
<1> QED BY <1>1, <1>2

\* A step of tick k that leaves its list no longer, and rules but for a cursor.
LEMMA ListsKept ==
    ASSUME ListsLive, ticks \in [Ticks -> TickStates], NEW k \in Ticks,
           \A j \in Ticks \ {k} : ticks'[j] = ticks[j], alive' = alive,
           ticks'[k].pc \in {"schedules", "scope", "run"} =>
               ticks[k].pc \in {"schedules", "scope", "run"} /\ ticks'[k].todo \subseteq ticks[k].todo
    PROVE  ListsLive'
<1>1. \A o : MetLive(o)' <=> MetLive(o)
  BY DEF MetLive
<1> SUFFICES ASSUME NEW j \in Ticks, ticks'[j].pc \in {"schedules", "scope", "run"},
                    NEW o \in ticks'[j].todo
             PROVE  MetLive(o)
  BY <1>1 DEF ListsLive
<1>2. ticks[j].pc \in {"schedules", "scope", "run"} /\ o \in ticks[j].todo
  OBVIOUS
<1> QED BY <1>2 DEF ListsLive

LEMMA LiveSinceKept ==
    ASSUME NEW r \in Rules, LiveSince(r), now' = now, alive \subseteq alive',
           \/ rules'[r].status # "ACTIVE"
           \/ /\ rules'[r].status = rules[r].status /\ rules'[r].published = rules[r].published
              /\ rules'[r].publishedAt = rules[r].publishedAt
    PROVE  LiveSince(r)'
BY DEF LiveSince

\* What a tick is to run met its rule live, or the rule had run before.
LEMMA OwedMetLive ==
    ASSUME RulesTyped, \A r \in Rules : LiveSince(r), now \in Moments, NEW o \in owed(now)
    PROVE  MetLive(o)
<1>1. PICK r \in Rules :
        /\ o = [rule |-> r, config |-> rules[r].published.trigger, moment |-> due(r, now),
                live |-> rules[r].publishedAt, cursor |-> rules[r].cursor]
        /\ Running(r, "schedule") /\ since(r) # None /\ due(r, now) # None /\ due(r, now) > since(r)
  BY DEF owed
<1>2. rules[r] \in Rule /\ rules[r].publishedAt \in Moments /\ rules[r].published.trigger \in Configs
  BY <1>1 DEF RulesTyped, LiveSince, Running, Rule, Version
<1>3. due(r, now) \in Occurs[rules[r].published.trigger] /\ due(r, now) <= now
  BY <1>1, <1>2, LatestOccurrence DEF due
<1>4. CASE rules[r].publishedAt >= due(r, now)
  <2>1. rules[r].cursor # None
    <3>1. SUFFICES ASSUME rules[r].cursor = None PROVE FALSE
      OBVIOUS
    <3>2. due(r, now) > rules[r].publishedAt
      BY <1>1, <3>1 DEF since
    <3>3. due(r, now) \in Moments
      BY <1>2, <1>3, ClockAssumption
    <3> QED BY <1>2, <1>4, <3>2, <3>3 DEF Moments
  <2> QED BY <1>1, <1>4, <2>1 DEF MetLive
<1>5. CASE ~(rules[r].publishedAt >= due(r, now))
  <2>1. due(r, now) \in Moments
    BY <1>2, <1>3, ClockAssumption
  <2>2. rules[r].publishedAt < due(r, now)
    BY <1>2, <1>5, <2>1 DEF Moments
  <2>3. <<r, rules[r].published.trigger, due(r, now)>> \in alive
    BY <1>1, <1>2, <1>3, <2>2 DEF LiveSince, Running
  <2> QED BY <1>1, <2>3 DEF MetLive
<1> QED BY <1>4, <1>5

LEMMA TickAccount ==
    ASSUME TickInv, TicksAccount,
           NEW k \in Ticks, Tick(k) \/ TickDies(k)
    PROVE  TicksAccount'
<1> DEFINE t == ticks[k]
           u == ticks'[k]
<1>0. ticks \in [Ticks -> TickStates] /\ t \in TickStates /\ rules \in [Rules -> Rule] /\ now \in Moments
  BY DEF TickInv, TickTypes, RulesTyped, WorldTypes
<1>1. \A j \in Ticks \ {k} : ticks'[j] = ticks[j]
  BY <1>0 DEF Tick, TickDies, StartTick, ClaimSchedule, ReadScope, RunScheduled, StartDates,
              LookAtDates, CreateFiring, Announce, EndTick
<1>10. UNCHANGED <<now, alive>>
  BY DEF Tick, TickDies, StartTick, ClaimSchedule, ReadScope, RunScheduled, StartDates, LookAtDates,
         CreateFiring, Announce, EndTick, clock
<1>11. ASSUME rules' = rules PROVE \A r \in Rules : LiveSince(r)'
  BY <1>10, <1>11, LiveSinceKept DEF TicksAccount
<1>2. CASE StartTick(k)
  <2>1. u = [NoTick EXCEPT !.pc = "schedules", !.at = now, !.todo = owed(now)]
        /\ t.pc = "idle" /\ UNCHANGED <<rules, claimed, lost, fired, strays>>
    BY <1>0, <1>2 DEF StartTick, seen
  <2>2. u.pc = "schedules" /\ u.todo = owed(now)
    BY <2>1 DEF NoTick
  <2>3. ClaimedIsSaid'
    <3>1. owing(k) = {}
      BY <2>1 DEF owing
    <3> QED BY <1>0, <1>1, <2>1, <3>1, AccountKept DEF TicksAccount
  <2>4. ListsLive'
    <3>1. \A o \in u.todo : MetLive(o)
      BY <1>0, <2>2, OwedMetLive DEF RulesTyped, TicksAccount
    <3>2. \A o : MetLive(o)' <=> MetLive(o)
      BY <1>10 DEF MetLive
    <3>3. ASSUME NEW j \in Ticks \ {k}, NEW o \in ticks'[j].todo, ticks'[j].pc \in {"schedules", "scope", "run"}
          PROVE  MetLive(o)
      BY <1>1, <3>3 DEF TicksAccount, ListsLive
    <3> QED BY <3>1, <3>2, <3>3 DEF ListsLive
  <2> QED BY <1>11, <2>1, <2>3, <2>4 DEF TicksAccount, RunWasLive
<1>3. CASE ClaimSchedule(k)
  <2>1. PICK o \in t.todo :
          /\ t.pc = "schedules" /\ rules' \in {rules, [rules EXCEPT ![o.rule].cursor = o.moment]}
          /\ ticks' \in {[ticks EXCEPT ![k].pc = "scope", ![k].next = o, ![k].todo = @ \ {o}],
                         [ticks EXCEPT ![k].todo = @ \ {o}]}
          /\ \/ strays' = strays
             \/ strays' = strays \cup {o} /\ <<o.rule, o.config, o.moment>> \notin alive
    BY <1>3 DEF ClaimSchedule
  <2>2. o.rule \in Rules /\ o.moment \in Moments /\ o.moment # None
    BY <1>0, ClockAssumption DEF TickStates, Claim, Moments
  <2>3. \A r \in Rules : LiveSince(r)'
    <3>1. \A r \in Rules : /\ rules'[r].status = rules[r].status /\ rules'[r].published = rules[r].published
                           /\ rules'[r].publishedAt = rules[r].publishedAt
      BY <1>0, <2>1, <2>2 DEF Rule
    <3> QED BY <1>10, <3>1, LiveSinceKept DEF TicksAccount
  <2>4. u.pc \in {"schedules", "scope"} /\ u.todo \subseteq t.todo
    BY <1>0, <2>1 DEF TickStates
  <2>5. UNCHANGED <<claimed, lost, fired>> /\ owing(k) = {}
    BY <1>3, <2>1 DEF ClaimSchedule, owing
  <2>6. RunWasLive'
    <3>1. MetLive(o)
      BY <2>1 DEF TicksAccount, ListsLive
    <3> QED BY <2>1, <3>1 DEF RunWasLive, MetLive, TicksAccount
  <2>7. ClaimedIsSaid'
    BY <1>0, <1>1, <2>5, AccountKept DEF TicksAccount
  <2>8. ListsLive'
    BY <1>0, <1>1, <1>10, <2>1, <2>4, ListsKept DEF TicksAccount
  <2> QED BY <2>3, <2>6, <2>7, <2>8 DEF TicksAccount
<1>4. CASE ReadScope(k)
  <2> DEFINE all == scopeOf(t.next)
  <2>1. /\ t.pc = "scope" /\ u.left = all /\ u.pc = IF all = {} THEN "schedules" ELSE "run"
        /\ u.todo = t.todo /\ claimed' = claimed \cup all
        /\ UNCHANGED <<rules, fired, lost, strays>>
    BY <1>0, <1>4 DEF ReadScope, TickStates
  <2>2. owing(k) = {}
    BY <2>1 DEF owing
  <2>3. all \subseteq owing(k)'
    BY <2>1 DEF owing
  <2>4. ClaimedIsSaid'
    <3> HIDE DEF all
    <3> QED BY <1>0, <1>1, <2>1, <2>2, <2>3, AccountKept DEF TicksAccount
  <2>5. ListsLive'
    BY <1>0, <1>1, <1>10, <2>1, ListsKept DEF TicksAccount
  <2> QED BY <1>11, <2>1, <2>4, <2>5 DEF TicksAccount, RunWasLive
<1>5. CASE RunScheduled(k)
  <2>1. PICK f \in t.left : /\ t.pc = "run" /\ Say(k, f) /\ u.todo = t.todo /\ u.left = t.left \ {f}
                            /\ u.pc = IF t.left = {f} THEN "schedules" ELSE "run"
    BY <1>0, <1>5 DEF RunScheduled, TickStates
  <2>2. owing(k) = t.left /\ t.left \ {f} \subseteq owing(k)'
    BY <2>1 DEF owing
  <2>3. f \in fired' \cup lost' /\ fired \subseteq fired' /\ lost \subseteq lost'
    BY <2>1 DEF Say
  <2>4. UNCHANGED <<rules, claimed, strays>>
    BY <1>5 DEF RunScheduled
  <2>5. ClaimedIsSaid'
    BY <1>0, <1>1, <2>2, <2>3, <2>4, AccountKept DEF TicksAccount
  <2>6. ListsLive'
    BY <1>0, <1>1, <1>10, <2>1, <2>4, ListsKept DEF TicksAccount
  <2> QED BY <1>11, <2>4, <2>5, <2>6 DEF TicksAccount, RunWasLive
<1>6. CASE CreateFiring(k)
  <2>1. PICK f \in t.left :
          /\ t.pc = "firing"
          /\ \/ claimed' = claimed /\ u.pc \in {"dates", "firing", "idle"}
             \/ claimed' = claimed \cup {f} /\ u.pc = "announce" /\ u.next = f
    BY <1>0, <1>6 DEF CreateFiring, TickStates, NoTick
  <2>2. owing(k) = {} /\ claimed' \subseteq claimed \cup owing(k)'
    BY <2>1 DEF owing
  <2>3. UNCHANGED <<rules, fired, lost, strays>>
    BY <1>6 DEF CreateFiring
  <2>4. ClaimedIsSaid'
    BY <1>0, <1>1, <2>2, <2>3, AccountKept DEF TicksAccount
  <2>5. ListsLive'
    BY <1>0, <1>1, <1>10, <2>1, <2>3, ListsKept DEF TicksAccount
  <2> QED BY <1>11, <2>3, <2>4, <2>5 DEF TicksAccount, RunWasLive
<1>7. CASE Announce(k)
  <2>1. t.pc = "announce" /\ Say(k, t.next) /\ u.pc \in {"dates", "firing"}
    BY <1>0, <1>7 DEF Announce, TickStates
  <2>2. owing(k) = {t.next} /\ t.next \in fired' \cup lost' /\ fired \subseteq fired' /\ lost \subseteq lost'
    BY <2>1 DEF owing, Say
  <2>3. UNCHANGED <<rules, claimed, strays>>
    BY <1>7 DEF Announce
  <2>4. ClaimedIsSaid'
    BY <1>0, <1>1, <2>2, <2>3, AccountKept DEF TicksAccount
  <2>5. ListsLive'
    BY <1>0, <1>1, <1>10, <2>1, <2>3, ListsKept DEF TicksAccount
  <2> QED BY <1>11, <2>3, <2>4, <2>5 DEF TicksAccount, RunWasLive
<1>8. CASE StartDates(k) \/ LookAtDates(k) \/ EndTick(k)
  <2>1. t.pc \in {"schedules", "dates"} /\ u.pc \in {"dates", "firing", "idle"}
    <3>1. CASE StartDates(k)
      BY <1>0, <3>1 DEF StartDates, TickStates
    <3>2. CASE LookAtDates(k)
      BY <1>0, <3>2 DEF LookAtDates, TickStates
    <3>3. CASE EndTick(k)
      BY <1>0, <3>3 DEF EndTick, NoTick
    <3> QED BY <1>8, <3>1, <3>2, <3>3
  <2>2. owing(k) = {} /\ UNCHANGED <<rules, claimed, fired, lost, strays>>
    BY <1>8, <2>1 DEF StartDates, LookAtDates, EndTick, owing, seen
  <2>3. ClaimedIsSaid'
    BY <1>0, <1>1, <2>2, AccountKept DEF TicksAccount
  <2>4. ListsLive'
    BY <1>0, <1>1, <1>10, <2>1, <2>2, ListsKept DEF TicksAccount
  <2> QED BY <1>11, <2>2, <2>3, <2>4 DEF TicksAccount, RunWasLive
<1>9. CASE TickDies(k)
  <2>1. u.pc = "idle" /\ lost' = lost \cup owing(k) /\ UNCHANGED <<rules, claimed, fired, strays>>
    BY <1>0, <1>9 DEF TickDies, NoTick
  <2>2. ClaimedIsSaid'
    BY <1>0, <1>1, <2>1, AccountKept DEF TicksAccount
  <2>3. ListsLive'
    BY <1>0, <1>1, <1>10, <2>1, ListsKept DEF TicksAccount
  <2> QED BY <1>11, <2>1, <2>2, <2>3 DEF TicksAccount, RunWasLive
<1> QED BY <1>2, <1>3, <1>4, <1>5, <1>6, <1>7, <1>8, <1>9 DEF Tick

\* What a request may do to whether a rule is live: end it, or begin it now.
LEMMA LiveKept ==
    ASSUME PeopleAndRules, NEW m \in Managers, Manage(m), NEW x \in Rules
    PROVE  \/ rules'[x].status # "ACTIVE"
           \/ rules'[x].publishedAt = now
           \/ /\ rules'[x].status = rules[x].status /\ rules'[x].published = rules[x].published
              /\ rules'[x].publishedAt = rules[x].publishedAt
<1> DEFINE Same == /\ rules'[x].status = rules[x].status /\ rules'[x].published = rules[x].published
                   /\ rules'[x].publishedAt = rules[x].publishedAt
<1>1. rules \in [Rules -> Rule] /\ managers[m] \in Requests
  BY DEF PeopleAndRules, PeopleTypes, RulesTyped
<1>2. ASSUME NEW r \in Rules, NEW s, rules' = [rules EXCEPT ![r].steps = s] \/ rules' = [rules EXCEPT ![r].trigger = s]
      PROVE  Same
  BY <1>1, <1>2 DEF Rule
<1>3. ASSUME NEW r \in Rules, NEW s, s # "ACTIVE", rules' = [rules EXCEPT ![r].status = s]
      PROVE  Same \/ rules'[x].status # "ACTIVE"
  BY <1>1, <1>3 DEF Rule
<1>4. ASSUME NEW r \in Rules, Save(m, r) \/ Revert(m, r) \/ SaveColumns(m, r) PROVE Same
  <2>1. \E s : rules' = [rules EXCEPT ![r].steps = s] \/ rules' = [rules EXCEPT ![r].trigger = s]
    BY <1>4 DEF Save, Revert, SaveColumns, WriteSteps
  <2> HIDE DEF Same
  <2> QED BY <1>2, <2>1
<1>5. ASSUME WriteColumns(m) PROVE Same
  <2>1. managers[m].rule \in Rules /\ rules' = [rules EXCEPT ![managers[m].rule].trigger = followingColumns(m)]
    BY <1>1, <1>5 DEF WriteColumns, Requests
  <2> HIDE DEF Same
  <2> QED BY <1>2, <2>1
<1>6. ASSUME NEW r \in Rules, Pause(m, r) PROVE Same \/ rules'[x].status # "ACTIVE"
  BY <1>3, <1>6 DEF Pause
<1>7. ASSUME Archive(m) \/ Delete(m) PROVE Same \/ rules'[x].status # "ACTIVE"
  <2>1. managers[m].rule \in Rules
    BY <1>1, <1>7 DEF Archive, Delete, Requests
  <2> HIDE DEF Same
  <2> QED BY <1>3, <1>7, <2>1 DEF Archive, Delete
<1>8. ASSUME Commit(m) PROVE Same \/ rules'[x].publishedAt = now
  <2>1. managers[m].rule \in Rules
    BY <1>1, <1>8 DEF Commit, Requests
  <2>2. CASE rules' = rules
    BY <2>2
  <2>3. CASE rules' # rules
    <3>1. PICK p : rules' = [rules EXCEPT ![managers[m].rule].status = "ACTIVE",
                                          ![managers[m].rule].publishedAt = now,
                                          ![managers[m].rule].published = p]
      BY <1>8, <2>3 DEF Commit
    <3> QED BY <1>1, <2>1, <3>1 DEF Rule
  <2> QED BY <2>2, <2>3
<1>9. ASSUME \/ \E r \in Rules : Publish(m, r) \/ Remove(m, r)
             \/ PublishRestored(m) \/ NextNumber(m) \/ RequestEnds(m)
      PROVE  Same
  BY <1>9 DEF Publish, PublishRestored, ReadRule, Remove, NextNumber, RequestEnds
<1> QED BY <1>4, <1>5, <1>6, <1>7, <1>8, <1>9 DEF Manage

\* People and time leave the ticks alone, and a live rule's moments live.
LEMMA OthersAccount ==
    ASSUME TicksAccount, ticks \in [Ticks -> TickStates],
           UNCHANGED <<ticks, fired, claimed, lost, strays>>, alive \subseteq alive',
           \A r \in Rules : LiveSince(r)'
    PROVE  TicksAccount'
<1>1. \A k \in Ticks : owing(k)' = owing(k)
  BY DEF owing
<1>2. \A k \in Ticks : \A o \in ticks[k].todo : MetLive(o) => MetLive(o)'
  BY DEF MetLive
<1>3. ListsLive'
  BY <1>2 DEF TicksAccount, ListsLive
<1> QED BY <1>1, <1>3 DEF TicksAccount, ClaimedIsSaid, RunWasLive

LEMMA AdvanceLive ==
    ASSUME TicksAccount, RulesTyped, now \in Moments, Advance, NEW r \in Rules
    PROVE  LiveSince(r)'
<1> USE DEF LiveSince
<1> SUFFICES ASSUME rules[r].status = "ACTIVE", rules[r].published # None
             PROVE  /\ rules[r].publishedAt \in Moments
                    /\ Kind[rules[r].published.trigger] = "schedule" =>
                           \A x \in Occurs[rules[r].published.trigger] :
                               rules[r].publishedAt < x /\ x <= now' =>
                                   <<r, rules[r].published.trigger, x>> \in alive'
  BY DEF Advance
<1>1. rules[r].publishedAt \in Moments /\ rules[r].published.trigger \in Configs
  BY DEF TicksAccount, RulesTyped, Rule, Version
<1>2. ASSUME Kind[rules[r].published.trigger] = "schedule", NEW x \in Occurs[rules[r].published.trigger],
             rules[r].publishedAt < x, x <= now'
      PROVE  <<r, rules[r].published.trigger, x>> \in alive'
  <2>1. x \in Moments /\ now' = now + 1
    BY <1>1, ClockAssumption DEF Advance
  <2>2. CASE x <= now
    BY <1>2, <2>2 DEF TicksAccount, Advance
  <2>3. CASE ~(x <= now)
    <3>1. x = now'
      BY <1>2, <2>1, <2>3 DEF Moments
    <3>2. Running(r, "schedule")
      BY <1>2 DEF Running
    <3> QED BY <1>2, <3>1, <3>2 DEF Advance
  <2> QED BY <2>2, <2>3
<1> QED BY <1>1, <1>2

LEMMA ManageLive ==
    ASSUME PeopleAndRules, PeopleAndRules', now \in Moments, NEW m \in Managers, Manage(m), UNCHANGED clock,
           NEW r \in Rules, LiveSince(r)
    PROVE  LiveSince(r)'
<1>0. now' = now /\ alive' = alive
  BY DEF clock
<1>1. CASE rules'[r].publishedAt = now /\ rules'[r].status = "ACTIVE" /\ rules'[r].published # None
  <2>1. rules'[r].published.trigger \in Configs
    BY <1>1 DEF PeopleAndRules, RulesTyped, Rule, Version
  <2>2. Occurs[rules'[r].published.trigger] \subseteq Moments
    BY <2>1, ClockAssumption
  <2>3. \A x \in Occurs[rules'[r].published.trigger] : ~(now < x /\ x <= now)
    BY <2>2 DEF Moments
  <2> QED BY <1>0, <1>1, <2>3 DEF LiveSince
<1>2. CASE ~(rules'[r].publishedAt = now /\ rules'[r].status = "ACTIVE" /\ rules'[r].published # None)
  <2>1. CASE rules'[r].published = None
    BY <2>1 DEF LiveSince
  <2>2. CASE rules'[r].published # None
    BY <1>0, <1>2, <2>2, LiveKept, LiveSinceKept
  <2> QED BY <2>1, <2>2
<1> QED BY <1>1, <1>2

LEMMA AccountStep == ClockInv /\ TicksAccount /\ [Next]_vars => TicksAccount'
<1> SUFFICES ASSUME ClockInv, TicksAccount, [Next]_vars PROVE TicksAccount'
  OBVIOUS
<1>0. ticks \in [Ticks -> TickStates] /\ RulesTyped /\ now \in Moments
  BY DEF ClockInv, TickInv, TickTypes, WorldTypes
<1>1. CASE Advance
  <2>1. UNCHANGED <<ticks, fired, claimed, lost, strays>> /\ alive \subseteq alive'
    BY <1>1 DEF Advance, seen
  <2>2. \A r \in Rules : LiveSince(r)'
    BY <1>0, <1>1, AdvanceLive
  <2> QED BY <1>0, <2>1, <2>2, OthersAccount
<1>5. CASE \E t \in Tasks : Close(t) \/ MoveDate(t)
  <2>1. UNCHANGED <<ticks, fired, claimed, lost, strays, now, alive, rules>>
    BY <1>5 DEF Close, MoveDate, seen, clock
  <2>2. \A r \in Rules : LiveSince(r)'
    BY <2>1, LiveSinceKept DEF TicksAccount
  <2> QED BY <1>0, <2>1, <2>2, OthersAccount
<1>2. CASE \E m \in Managers : Manage(m)
  <2>1. PICK m \in Managers : Manage(m)
    BY <1>2
  <2>2. UNCHANGED <<ticks, fired, claimed, lost, strays, clock>>
    BY <2>1 DEF Manage, Save, SaveColumns, Revert, WriteSteps, Publish, PublishRestored, ReadRule, Pause,
         Remove, Archive, Delete, WriteColumns, NextNumber, Commit, RequestEnds, counts, seen
  <2>3. PeopleAndRules /\ PeopleAndRules'
    BY <1>0, <2>1, PeopleTyped DEF ClockInv, TickInv, PeopleAndRules
  <2>4. \A r \in Rules : LiveSince(r)'
    BY <1>0, <2>1, <2>2, <2>3, ManageLive DEF TicksAccount
  <2> QED BY <1>0, <2>2, <2>4, OthersAccount DEF clock
<1>3. CASE \E k \in Ticks : Tick(k) \/ TickDies(k)
  BY <1>3, TickAccount DEF ClockInv
<1>4. CASE UNCHANGED vars
  <2>1. \A r \in Rules : LiveSince(r)'
    BY <1>4, LiveSinceKept DEF vars, TicksAccount
  <2> QED BY <1>0, <1>4, <2>1, OthersAccount DEF vars
<1> QED BY <1>1, <1>2, <1>3, <1>4, <1>5 DEF Next

LEMMA AccountInit == Init => TicksAccount
<1> SUFFICES ASSUME Init PROVE TicksAccount
  OBVIOUS
<1>1. ASSUME NEW r \in Rules PROVE LiveSince(r)
  <2>1. PICK b \in Bodies : LET steps == b[1]  trigger == columnsOf(b[1], b[2]) IN
        \/ rules = [x \in Rules |-> [status |-> "DRAFT", steps |-> steps, trigger |-> trigger,
                            published |-> None, publishedAt |-> None, cursor |-> None]]
        \/ /\ steps # None /\ trigger # None
           /\ rules = [x \in Rules |-> [status |-> "ACTIVE", steps |-> steps, trigger |-> trigger,
                            published |-> [number |-> 1, steps |-> steps, trigger |-> trigger],
                            publishedAt |-> 0, cursor |-> None]]
    BY DEF Init
  <2>2. rules[r].status = "ACTIVE" => rules[r].publishedAt = 0 /\ rules[r].published.trigger \in Configs
    BY <2>1, ClockAssumption DEF columnsOf
  <2>3. \A c \in Configs : \A x \in Occurs[c] : ~(0 < x /\ x <= 0)
    BY ClockAssumption DEF Moments
  <2>4. 0 \in Moments /\ now = 0
    BY ClockAssumption DEF Moments, Init
  <2> QED BY <2>2, <2>3, <2>4 DEF LiveSince
<1> QED BY <1>1 DEF Init, TicksAccount, ClaimedIsSaid, ListsLive, RunWasLive, NoTick

\* What a tick claims it says, unless it stops or the add fails, however the
\* others claim and whatever is published or closed in between.
THEOREM ClaimsAreSaid == Spec => []ClaimedIsSaid
<1>1. TicksAccount => ClaimedIsSaid
  BY DEF TicksAccount
<1> QED BY <1>1, AccountInit, ClockInvInit, ClockStep, AccountStep, PTL DEF Spec

\* What a tick runs in time met its rule live, unless the rule had run before and was
\* published again since: however late the tick, and whatever was paused and published
\* after it looked.
THEOREM RunsMetLiveRules == Spec => []RunWasLive
<1>1. TicksAccount => RunWasLive
  BY DEF TicksAccount
<1> QED BY <1>1, AccountInit, ClockInvInit, ClockStep, AccountStep, PTL DEF Spec
-----------------------------------------------------------------------------
(* VersionsWhole, NewestRuns, HistoryKept: people and a rule's versions.   *)

\* Manager m is between the two writes of a save of r; or in a publish of it.
Saving(m, r) == managers[m].pc = "columns" /\ managers[m].rule = r
Publishing(m, r) == managers[m].pc \in {"read", "number"} /\ managers[m].rule = r

\* What versions hold and publishes have read is what some request set out to leave.
Intended(r) ==
    /\ \A v \in versions[r] : <<v.steps, v.trigger>> \in meant[r]
    /\ \A m \in Managers : Publishing(m, r) => <<managers[m].steps, managers[m].trigger>> \in meant[r]

\* While nothing tore rule r, one manager at most is at its columns, and will leave
\* with the steps what he set out to; with nobody at them the draft is that.
Drafted(r) == r \notin torn =>
    /\ (\A m \in Managers : ~Saving(m, r)) /\ rules[r].steps # None =>
           <<rules[r].steps, rules[r].trigger>> \in meant[r]
    /\ \A m \in Managers : Saving(m, r) =>
          /\ rules[r].steps # None => /\ managers[m].trigger # None
                                      /\ <<rules[r].steps, managers[m].trigger>> \in meant[r]
          /\ \A n \in Managers \ {m} : ~Saving(n, r)

\* A rule never published has no version, nor has one about to be deleted, unless
\* a publish overtook the removal.
Unpublished(r) ==
    /\ rules[r].publishedAt = None => versions[r] = {}
    /\ \A m \in Managers : managers[m].pc = "delete" /\ managers[m].rule = r /\ Exists(r) =>
          versions[r] = {} \/ r \in overtaken

\* No version has another's number; and while no two publishes of rule r overlap,
\* the one there is read what runs, and numbers what no version passes.
Newest(r) ==
    /\ \A v, w \in versions[r] : v.number = w.number => v = w
    /\ r \notin raced =>
        /\ rules[r].published # None => \A v \in versions[r] : v.number <= rules[r].published.number
        /\ \A m \in Managers : Publishing(m, r) =>
              /\ managers[m].read = rules[r].published
              /\ managers[m].pc = "number" => \A v \in versions[r] : v.number <= managers[m].number
              /\ \A n \in Managers \ {m} : ~Publishing(n, r)

\* Numbers 1 to n have been given to versions of r.
Given(r, n) == \A i \in 1 .. n : \E v \in versions[r] : v.number = i
\* No number was left out, nor will be by the publish that has chosen one.
Gapless(r) ==
    /\ \A v \in versions[r] : Given(r, v.number)
    /\ Exists(r) => \A m \in Managers :
          managers[m].pc = "number" /\ managers[m].rule = r /\ ~unchanged(m) =>
              Given(r, managers[m].number - 1)

Kept(r) == Newest(r) /\ Gapless(r) /\ Intended(r) /\ Drafted(r) /\ Unpublished(r)
VersionsKept == \A r \in Rules : Kept(r)

\* The other managers' requests stay as they are.
OthersWait(m) == \A n \in Managers \ {m} : managers'[n] = managers[n]

LEMMA GivenKept ==
    ASSUME NEW r \in Rules, NEW n, Given(r, n), versions[r] \subseteq versions'[r]
    PROVE  Given(r, n)'
BY DEF Given

LEMMA GaplessKept ==
    ASSUME NEW r \in Rules, Gapless(r), NEW m \in Managers, OthersWait(m),
           versions[r] \subseteq versions'[r], Exists(r)' => Exists(r),
           \A v \in versions'[r] \ versions[r] : Given(r, v.number)',
           (Exists(r)' /\ managers'[m].pc = "number" /\ managers'[m].rule = r /\ ~unchanged(m)')
               => Given(r, managers[m].number - 1)'
    PROVE  Gapless(r)'
<1>1. ASSUME NEW v \in versions'[r] PROVE Given(r, v.number)'
  BY GivenKept DEF Gapless
<1>2. ASSUME NEW n \in Managers, managers'[n].pc = "number" /\ managers'[n].rule = r, ~unchanged(n)',
             Exists(r)'
      PROVE  Given(r, managers[n].number - 1)'
  <2>1. CASE n = m
    BY <1>2, <2>1
  <2>2. CASE n # m
    <3>1. managers'[n] = managers[n]
      BY <2>2 DEF OthersWait
    <3>2. ~unchanged(n)
      BY <1>2, <3>1 DEF unchanged
    <3>3. Given(r, managers[n].number - 1)
      BY <1>2, <3>1, <3>2 DEF Gapless
    <3>4. PICK k : k = managers[n].number - 1
      OBVIOUS
    <3>5. Given(r, k)'
      BY <3>3, <3>4, GivenKept
    <3> QED BY <3>1, <3>4, <3>5
  <2> QED BY <2>1, <2>2
<1> QED BY <1>1, <1>2 DEF Gapless

\* No request comes to publish r, and what runs stays.
LEMMA NewestKept ==
    ASSUME NEW r \in Rules, Newest(r), NEW m \in Managers, OthersWait(m),
           versions'[r] = versions[r], rules'[r].published = rules[r].published,
           raced \subseteq raced', ~Publishing(m, r)'
    PROVE  Newest(r)'
BY DEF Newest, OthersWait, Publishing

\* No request of r comes to its columns or leaves them.
LEMMA DraftedKept ==
    ASSUME NEW r \in Rules, Drafted(r), NEW m \in Managers, OthersWait(m), r \in torn => r \in torn',
           rules'[r].steps = rules[r].steps, rules'[r].trigger = rules[r].trigger,
           meant[r] \subseteq meant'[r], ~Saving(m, r), ~Saving(m, r)'
    PROVE  Drafted(r)'
<1>1. \A n \in Managers : Saving(n, r)' <=> Saving(n, r)
  BY DEF OthersWait, Saving
<1>2. \A n \in Managers : Saving(n, r) => managers'[n] = managers[n]
  BY DEF OthersWait
<1>3. SUFFICES ASSUME r \notin torn' PROVE Drafted(r)'
  BY DEF Drafted
<1> QED BY <1>1, <1>2, <1>3 DEF Drafted

\* No request comes to publish or delete r, and its versions and what runs stay.
LEMMA RuleKept ==
    ASSUME NEW r \in Rules, Kept(r), NEW m \in Managers, OthersWait(m),
           versions'[r] = versions[r], rules'[r].published = rules[r].published,
           Exists(r)' => Exists(r), rules'[r].publishedAt = None => rules[r].publishedAt = None,
           raced \subseteq raced', overtaken \subseteq overtaken', meant[r] \subseteq meant'[r],
           ~Publishing(m, r)', ~(managers'[m].pc = "delete" /\ managers'[m].rule = r), Drafted(r)'
    PROVE  Kept(r)'
<1>1. Newest(r)'
  BY NewestKept DEF Kept
<1>2. Gapless(r)'
  BY GaplessKept DEF Kept, Publishing
<1>3. Intended(r)'
  <2>1. \A n \in Managers : Publishing(n, r)' => Publishing(n, r) /\ managers'[n] = managers[n]
    BY DEF OthersWait, Publishing
  <2> QED BY <2>1 DEF Kept, Intended
<1>4. Unpublished(r)'
  BY DEF Kept, Unpublished, OthersWait
<1> QED BY <1>1, <1>2, <1>3, <1>4 DEF Kept

\* A request about another rule.
LEMMA ElsewhereKept ==
    ASSUME NEW r \in Rules, Kept(r), NEW m \in Managers, OthersWait(m),
           versions'[r] = versions[r], rules'[r] = rules[r], meant[r] \subseteq meant'[r],
           raced \subseteq raced', overtaken \subseteq overtaken', r \in torn => r \in torn',
           managers[m].pc = "idle" \/ managers[m].rule # r,
           managers'[m].pc = "idle" \/ managers'[m].rule # r
    PROVE  Kept(r)'
<1>1. ~Saving(m, r) /\ ~Saving(m, r)' /\ ~Publishing(m, r)'
  BY DEF Saving, Publishing
<1>2. Exists(r)' => Exists(r)
  BY DEF Exists
<1>3. Drafted(r)'
  BY <1>1, DraftedKept DEF Kept
<1> QED BY <1>1, <1>2, <1>3, RuleKept

\* A rule's draft, as a request leaves it.
LEMMA IntendingKept ==
    ASSUME PeopleTypes, NEW r \in Rules, NEW s, NEW t, meant' = Intending(r, s, t)
    PROVE  /\ \A x \in Rules : meant[x] \subseteq meant'[x]
           /\ s # None => <<s, t>> \in meant'[r]
BY DEF Intending, PeopleTypes

LEMMA WriteKept ==
    ASSUME PeopleAndRules, VersionsKept, NEW m \in Managers, NEW r \in Rules,
           NEW s \in Configs \cup {None}, NEW trig \in Configs \cup {None}, NEW publish \in BOOLEAN,
           WriteSteps(m, r, s, trig, publish), s # None => trig # None
    PROVE  VersionsKept'
<1>0. rules \in [Rules -> Rule] /\ managers \in [Managers -> Requests] /\ PeopleTypes
  BY DEF PeopleAndRules, RulesTyped, PeopleTypes
<1>1. /\ managers[m].pc = "idle" /\ managers'[m].pc = "columns" /\ managers'[m].rule = r
      /\ managers'[m].trigger = trig /\ OthersWait(m)
  BY <1>0 DEF WriteSteps, Ask, NoRequest, OthersWait
<1>2. /\ rules'[r].steps = s /\ rules'[r].published = rules[r].published
      /\ rules'[r].publishedAt = rules[r].publishedAt /\ rules'[r].status = rules[r].status
      /\ \A x \in Rules \ {r} : rules'[x] = rules[x]
  BY <1>0 DEF WriteSteps, Rule
<1>3. /\ versions' = versions /\ raced' = raced /\ overtaken' = overtaken
      /\ \A x \in Rules \ {r} : x \in torn => x \in torn'
      /\ HalfWritten(m, r) => r \in torn'
  BY DEF WriteSteps
<1>4. /\ \A x \in Rules : meant[x] \subseteq meant'[x]
      /\ s # None => <<s, trig>> \in meant'[r]
  <2>1. meant' = Intending(r, s, trig)
    BY DEF WriteSteps
  <2> QED BY <1>0, <2>1, IntendingKept
<1>5. Saving(m, r)' /\ ~Publishing(m, r)'
  BY <1>1 DEF Saving, Publishing
<1>6. Drafted(r)'
  <2>1. SUFFICES ASSUME r \notin torn' PROVE Drafted(r)'
    BY DEF Drafted
  <2>2. \A n \in Managers \ {m} : ~Saving(n, r)'
    BY <1>1, <1>3, <2>1 DEF HalfWritten, Saving, OthersWait
  <2> QED BY <1>1, <1>2, <1>4, <1>5, <2>2 DEF Drafted
<1>7. Kept(r)'
  <2>1. Exists(r)' => Exists(r)
    BY <1>2 DEF Exists
  <2> QED BY <1>1, <1>2, <1>3, <1>4, <1>5, <1>6, <2>1, RuleKept DEF VersionsKept
<1>8. ASSUME NEW x \in Rules, x # r PROVE Kept(x)'
  BY <1>1, <1>2, <1>3, <1>4, <1>8, ElsewhereKept DEF VersionsKept
<1> QED BY <1>7, <1>8 DEF VersionsKept

LEMMA SaveColumnsKept ==
    ASSUME PeopleAndRules, VersionsKept, NEW m \in Managers, NEW r \in Rules, SaveColumns(m, r)
    PROVE  VersionsKept'
<1>0. rules \in [Rules -> Rule] /\ managers \in [Managers -> Requests] /\ PeopleTypes
  BY DEF PeopleAndRules, RulesTyped, PeopleTypes
<1>1. PICK named : /\ rules' = [rules EXCEPT ![r].trigger = named]
                   /\ meant' = Intending(r, rules[r].steps, named)
  BY DEF SaveColumns
<1>2. /\ rules'[r].steps = rules[r].steps /\ rules'[r].trigger = named
      /\ rules'[r].published = rules[r].published
      /\ rules'[r].publishedAt = rules[r].publishedAt /\ rules'[r].status = rules[r].status
      /\ \A x \in Rules \ {r} : rules'[x] = rules[x]
  BY <1>0, <1>1 DEF Rule
<1>3. /\ versions' = versions /\ raced' = raced /\ overtaken' = overtaken /\ managers' = managers
      /\ torn \subseteq torn' /\ (HalfWritten(m, r) => r \in torn') /\ managers[m].pc = "idle"
  BY DEF SaveColumns, Ask
<1>4. /\ \A x \in Rules : meant[x] \subseteq meant'[x]
      /\ rules[r].steps # None => <<rules[r].steps, named>> \in meant'[r]
  BY <1>0, <1>1, IntendingKept
<1>5. ~Saving(m, r)' /\ ~Publishing(m, r)' /\ OthersWait(m) /\ managers'[m].pc = "idle"
  BY <1>3 DEF Saving, Publishing, OthersWait
<1>6. Drafted(r)'
  <2>1. SUFFICES ASSUME r \notin torn' PROVE Drafted(r)'
    BY DEF Drafted
  <2>2. \A n \in Managers : ~Saving(n, r)'
    BY <1>3, <1>5, <2>1 DEF HalfWritten, Saving
  <2> QED BY <1>2, <1>4, <2>2 DEF Drafted
<1>7. Kept(r)'
  <2>1. Exists(r)' => Exists(r)
    BY <1>2 DEF Exists
  <2> QED BY <1>2, <1>3, <1>4, <1>5, <1>6, <2>1, RuleKept DEF VersionsKept
<1>8. ASSUME NEW x \in Rules, x # r PROVE Kept(x)'
  <2>1. x \in torn => x \in torn'
    BY <1>3
  <2> QED BY <1>2, <1>3, <1>4, <1>5, <1>8, <2>1, ElsewhereKept DEF VersionsKept
<1> QED BY <1>7, <1>8 DEF VersionsKept

LEMMA ColumnsKept ==
    ASSUME PeopleAndRules, VersionsKept, NEW m \in Managers, WriteColumns(m)
    PROVE  VersionsKept'
<1> DEFINE q == managers[m]
<1>0. rules \in [Rules -> Rule] /\ managers \in [Managers -> Requests]
  BY DEF PeopleAndRules, RulesTyped, PeopleTypes
<1>1. PICK r \in Rules : r = q.rule
  BY <1>0 DEF WriteColumns, Requests
<1>2. q.pc = "columns" /\ OthersWait(m) /\ managers'[m].pc \in {"idle", "publish"}
      /\ (managers'[m].pc = "publish" => managers'[m].rule = r)
  BY <1>0, <1>1 DEF WriteColumns, NoRequest, OthersWait
<1>3. /\ q.trigger # None => rules'[r].trigger = q.trigger
      /\ rules'[r].steps = rules[r].steps
      /\ rules'[r].published = rules[r].published
      /\ rules'[r].publishedAt = rules[r].publishedAt /\ rules'[r].status = rules[r].status
      /\ \A x \in Rules \ {r} : rules'[x] = rules[x]
  <2>1. PICK t : t = followingColumns(m)
    OBVIOUS
  <2>2. q.trigger # None => t = q.trigger
    BY <2>1 DEF followingColumns
  <2>3. rules' = [rules EXCEPT ![r].trigger = t]
    BY <1>1, <2>1 DEF WriteColumns
  <2> QED BY <1>0, <2>2, <2>3 DEF Rule
<1>4. UNCHANGED <<versions, raced, torn, overtaken, meant>>
  BY DEF WriteColumns
<1>5. Saving(m, r) /\ ~Saving(m, r)' /\ ~Publishing(m, r)'
  BY <1>1, <1>2 DEF Saving, Publishing
<1>6. Drafted(r)'
  <2>1. SUFFICES ASSUME r \notin torn PROVE Drafted(r)'
    BY <1>4 DEF Drafted
  <2>2. Drafted(r)
    BY DEF VersionsKept, Kept
  <2>3. \A n \in Managers : ~Saving(n, r)'
    BY <1>2, <1>5, <2>1, <2>2 DEF OthersWait, Saving, Drafted
  <2> QED BY <1>3, <1>4, <1>5, <2>1, <2>2, <2>3 DEF Drafted
<1>7. Kept(r)'
  <2>1. Exists(r)' => Exists(r)
    BY <1>3 DEF Exists
  <2> QED BY <1>2, <1>3, <1>4, <1>5, <1>6, <2>1, RuleKept DEF VersionsKept
<1>8. ASSUME NEW x \in Rules, x # r PROVE Kept(x)'
  BY <1>1, <1>2, <1>3, <1>4, <1>8, ElsewhereKept DEF VersionsKept
<1> QED BY <1>7, <1>8 DEF VersionsKept

LEMMA ReadKept ==
    ASSUME PeopleAndRules, VersionsKept, NEW m \in Managers, NEW r \in Rules, ReadRule(m, r),
           managers[m].pc = "idle" \/ (managers[m].pc = "publish" /\ managers[m].rule = r)
    PROVE  VersionsKept'
<1>0. managers \in [Managers -> Requests] /\ PeopleTypes
  BY DEF PeopleAndRules, PeopleTypes
<1>1. /\ OthersWait(m)
      /\ \/ rules[r].steps = None /\ managers'[m].pc = "idle"
         \/ /\ rules[r].steps # None /\ managers'[m].pc = "read" /\ managers'[m].rule = r
            /\ managers'[m].read = rules[r].published
            /\ managers'[m].steps = rules[r].steps /\ managers'[m].trigger = rules[r].trigger
  BY <1>0 DEF ReadRule, NoRequest, OthersWait
<1>2. /\ UNCHANGED <<versions, rules, torn, overtaken>> /\ raced \subseteq raced'
      /\ HalfPublished(m, r) => r \in raced'
  BY DEF ReadRule
<1>3. /\ \A x \in Rules : meant[x] \subseteq meant'[x]
      /\ (r \in torn \/ HalfWritten(m, r)) /\ rules[r].steps # None =>
             <<rules[r].steps, rules[r].trigger>> \in meant'[r]
  <2>1. CASE meant' = Intending(r, rules[r].steps, rules[r].trigger)
    BY <1>0, <2>1, IntendingKept
  <2>2. CASE meant' = meant /\ ~(r \in torn \/ HalfWritten(m, r))
    BY <2>2
  <2> QED BY <2>1, <2>2 DEF ReadRule
<1>4. ~Saving(m, r) /\ ~Saving(m, r)' /\ Kept(r)
  BY <1>1 DEF Saving, VersionsKept
<1>5. Newest(r)'
  <2>1. ASSUME r \notin raced' PROVE \A n \in Managers \ {m} : ~Publishing(n, r)'
    BY <1>1, <1>2, <2>1 DEF HalfPublished, Publishing, OthersWait
  <2> QED BY <1>1, <1>2, <1>4, <2>1 DEF Kept, Newest, Publishing
<1>6. Gapless(r)'
  <2>1. Exists(r)' => Exists(r)
    BY <1>2 DEF Exists
  <2> QED BY <1>1, <1>2, <1>4, <2>1, GaplessKept DEF Kept
<1>7. Drafted(r)'
  BY <1>1, <1>2, <1>3, <1>4, DraftedKept DEF Kept
<1>8. Unpublished(r)'
  BY <1>1, <1>2, <1>4 DEF Kept, Unpublished, OthersWait, Exists
<1>9. Intended(r)'
  <2>1. rules[r].steps # None => <<rules[r].steps, rules[r].trigger>> \in meant'[r]
    <3>1. CASE r \in torn \/ HalfWritten(m, r)
      BY <1>3, <3>1
    <3>2. CASE r \notin torn /\ ~HalfWritten(m, r)
      <4>1. \A n \in Managers : ~Saving(n, r)
        BY <1>4, <3>2 DEF HalfWritten, Saving
      <4> QED BY <1>3, <1>4, <3>2, <4>1 DEF Kept, Drafted
    <3> QED BY <3>1, <3>2
  <2>2. ASSUME NEW n \in Managers, Publishing(n, r)'
        PROVE  <<managers'[n].steps, managers'[n].trigger>> \in meant'[r]
    <3>1. CASE n = m
      BY <1>1, <2>1, <2>2, <3>1 DEF Publishing
    <3>2. CASE n # m
      BY <1>1, <1>3, <1>4, <2>2, <3>2 DEF OthersWait, Publishing, Kept, Intended
    <3> QED BY <3>1, <3>2
  <2> QED BY <1>2, <1>3, <1>4, <2>2 DEF Kept, Intended
<1>10. ASSUME NEW x \in Rules, x # r PROVE Kept(x)'
  BY <1>1, <1>2, <1>3, <1>10, ElsewhereKept DEF VersionsKept
<1> QED BY <1>5, <1>6, <1>7, <1>8, <1>9, <1>10 DEF VersionsKept, Kept

\* The number a publish takes is above all of its rule's, and next to the highest;
\* or that of what runs.
LEMMA NumberKept ==
    ASSUME PeopleAndRules, VersionsKept, NEW m \in Managers, NextNumber(m)
    PROVE  VersionsKept'
<1> DEFINE q == managers[m]
           n == IF unchanged(m) THEN q.read.number ELSE latestVersion(q.rule) + 1
<1>0. managers \in [Managers -> Requests] /\ versions \in [Rules -> SUBSET Version]
  BY DEF PeopleAndRules, PeopleTypes
<1>1. PICK r \in Rules : r = q.rule
  BY <1>0 DEF NextNumber, Requests
<1>2. /\ q.pc = "read" /\ managers' = [managers EXCEPT ![m].pc = "number", ![m].number = n]
      /\ UNCHANGED <<versions, rules, raced, torn, overtaken, meant>>
  BY DEF NextNumber
<1>3. /\ managers'[m].pc = "number" /\ managers'[m].number = n /\ managers'[m].rule = r
      /\ managers'[m].read = q.read /\ managers'[m].steps = q.steps /\ managers'[m].trigger = q.trigger
      /\ OthersWait(m)
  <2> HIDE DEF n
  <2> QED BY <1>0, <1>1, <1>2 DEF Requests, OthersWait
<1>4. Publishing(m, r) /\ Publishing(m, r)' /\ ~Saving(m, r) /\ ~Saving(m, r)'
  BY <1>1, <1>2, <1>3 DEF Publishing, Saving
<1>5. latestVersion(r) \in Nat /\ \A v \in versions[r] : v.number \in Nat /\ v.number <= latestVersion(r)
  BY <1>0, LatestVersion DEF PeopleAndRules, Version
<1>6. Newest(r)'
  <2>1. Newest(r)
    BY DEF VersionsKept, Kept
  <2>2. ASSUME r \notin raced PROVE \A v \in versions[r] : v.number <= n
    <3>1. q.read = rules[r].published
      BY <1>4, <2>1, <2>2 DEF Newest
    <3>2. CASE unchanged(m)
      <4>1. rules[r].published # None
        BY <3>1, <3>2 DEF unchanged
      <4> QED BY <2>1, <2>2, <3>1, <3>2, <4>1 DEF Newest
    <3>3. CASE ~unchanged(m)
      BY <1>1, <1>5, <3>3
    <3> QED BY <3>2, <3>3
  <2>3. \A x \in Managers : Publishing(x, r)' <=> Publishing(x, r)
    BY <1>3, <1>4 DEF OthersWait, Publishing
  <2>4. ASSUME r \notin raced, NEW x \in Managers, Publishing(x, r)
        PROVE  /\ managers'[x].read = rules[r].published
               /\ managers'[x].pc = "number" => \A v \in versions[r] : v.number <= managers'[x].number
               /\ \A y \in Managers \ {x} : ~Publishing(y, r)
    <3> HIDE DEF n
    <3>1. x = m
      BY <1>4, <2>1, <2>4 DEF Newest
    <3> QED BY <1>3, <2>1, <2>2, <2>4, <3>1 DEF Newest
  <2> QED BY <1>2, <2>1, <2>3, <2>4 DEF Newest
<1>7. Gapless(r)'
  <2>1. Gapless(r) /\ PeopleTypes
    BY DEF VersionsKept, Kept, PeopleAndRules
  <2>2. Given(r, latestVersion(r))
    <3>1. CASE versions[r] = {}
      BY <3>1 DEF latestVersion, Given
    <3>2. CASE versions[r] # {}
      <4> DEFINE best == CHOOSE v \in versions[r] : \A w \in versions[r] : w.number <= v.number
      <4>1. best \in versions[r]
        BY <2>1, <3>2 DEF PeopleTypes, HasLatest
      <4>2. latestVersion(r) = best.number
        BY <3>2 DEF latestVersion
      <4> HIDE DEF best
      <4> QED BY <2>1, <4>1, <4>2 DEF Gapless
    <3> QED BY <3>1, <3>2
  <2>3. ASSUME ~unchanged(m)' PROVE Given(r, managers[m].number - 1)'
    <3>1. ~unchanged(m)
      BY <1>3, <2>3 DEF unchanged
    <3>2. managers'[m].number - 1 = latestVersion(r)
      BY <1>1, <1>3, <1>5, <3>1
    <3>3. Given(r, managers'[m].number - 1)
      BY <2>2, <3>2
    <3> QED BY <1>2, <3>3 DEF Given
  <2>4. Exists(r)' => Exists(r)
    BY <1>2 DEF Exists
  <2> QED BY <1>2, <1>3, <2>1, <2>3, <2>4, GaplessKept
<1>8. Intended(r)' /\ Drafted(r)' /\ Unpublished(r)'
  <2>1. Intended(r) /\ Drafted(r) /\ Unpublished(r)
    BY DEF VersionsKept, Kept
  <2>2. Drafted(r)'
    BY <1>2, <1>3, <1>4, <2>1, DraftedKept
  <2>3. Unpublished(r)'
    BY <1>2, <1>3, <2>1 DEF Unpublished, OthersWait, Exists
  <2>4. ASSUME NEW x \in Managers, Publishing(x, r)'
        PROVE  <<managers'[x].steps, managers'[x].trigger>> \in meant[r]
    <3> HIDE DEF n
    <3>1. /\ Publishing(x, r) /\ managers'[x].steps = managers[x].steps
          /\ managers'[x].trigger = managers[x].trigger
      BY <1>3, <1>4, <2>4 DEF OthersWait, Publishing
    <3> QED BY <2>1, <3>1 DEF Intended
  <2> QED BY <1>2, <2>1, <2>2, <2>3, <2>4 DEF Intended
<1>9. ASSUME NEW x \in Rules, x # r PROVE Kept(x)'
  BY <1>1, <1>2, <1>3, <1>9, ElsewhereKept DEF VersionsKept
<1> QED BY <1>6, <1>7, <1>8, <1>9 DEF VersionsKept, Kept

\* A publish that goes through runs a new version, the highest, or what it read.
LEMMA CommitKept ==
    ASSUME PeopleAndRules, VersionsKept, NEW m \in Managers, Commit(m), now \in Moments
    PROVE  VersionsKept'
<1> DEFINE q == managers[m]
<1>0. /\ managers \in [Managers -> Requests] /\ versions \in [Rules -> SUBSET Version]
      /\ rules \in [Rules -> Rule]
  BY DEF PeopleAndRules, PeopleTypes, RulesTyped
<1>1. PICK r \in Rules : r = q.rule
  BY <1>0 DEF Commit, Requests
<1>11. PICK new : new = [number |-> q.number, steps |-> q.steps, trigger |-> q.trigger]
  OBVIOUS
<1>2. /\ q.pc = "number" /\ q.number \in Nat /\ managers'[m].pc = "idle" /\ OthersWait(m)
      /\ UNCHANGED <<raced, torn, meant>> /\ overtaken \subseteq overtaken'
  BY <1>0 DEF Commit, NoRequest, OthersWait, Requests
<1>3. Publishing(m, r) /\ ~Publishing(m, r)' /\ ~Saving(m, r) /\ ~Saving(m, r)'
  BY <1>1, <1>2 DEF Publishing, Saving
<1>4. \/ rules' = rules /\ versions' = versions
      \/ /\ Exists(r) /\ (unchanged(m) \/ ~numberTaken(r, q.number))
         /\ Removing(m, r) => r \in overtaken'
         /\ versions' = [versions EXCEPT ![r] = IF unchanged(m) THEN @ ELSE @ \cup {new}]
         /\ rules' = [rules EXCEPT ![r].status = "ACTIVE", ![r].publishedAt = now,
                                   ![r].published = IF unchanged(m) THEN q.read ELSE new]
  BY <1>1, <1>11 DEF Commit
<1>5. Newest(r) /\ Gapless(r) /\ Intended(r) /\ Drafted(r) /\ Unpublished(r)
  BY DEF VersionsKept, Kept
<1>6. /\ rules'[r].steps = rules[r].steps /\ rules'[r].trigger = rules[r].trigger
      /\ \A x \in Rules \ {r} : rules'[x] = rules[x] /\ versions'[x] = versions[x]
  <2>1. PICK p : p = IF unchanged(m) THEN q.read ELSE new
    OBVIOUS
  <2>2. rules' = rules \/ rules' = [rules EXCEPT ![r].status = "ACTIVE", ![r].publishedAt = now,
                                                 ![r].published = p]
    BY <1>4, <2>1
  <2>3. \A x \in Rules \ {r} : versions'[x] = versions[x]
    BY <1>0, <1>4
  <2> QED BY <1>0, <2>2, <2>3 DEF Rule
<1>12. now # None
  BY ClockAssumption DEF Moments
<1>13. Exists(r)' => Exists(r)
  BY <1>4 DEF Exists
<1>14. Drafted(r)'
  <2>1. torn' = torn /\ meant' = meant
    BY <1>2
  <2> QED BY <1>2, <1>3, <1>5, <1>6, <2>1, DraftedKept
<1>15. rules'[r].publishedAt = None => rules' = rules /\ versions' = versions
  <2>1. CASE rules' = rules /\ versions' = versions
    BY <2>1
  <2>2. CASE ~(rules' = rules /\ versions' = versions)
    <3>1. PICK p : rules' = [rules EXCEPT ![r].status = "ACTIVE", ![r].publishedAt = now,
                                          ![r].published = p]
      BY <1>4, <2>2
    <3> QED BY <1>0, <1>12, <3>1 DEF Rule
  <2> QED BY <2>1, <2>2
<1>7. ASSUME versions'[r] = versions[r] /\ (unchanged(m) \/ rules' = rules) PROVE Kept(r)'
  <2>1. r \notin raced => rules'[r].published = rules[r].published
    <3>1. rules'[r].published \in {rules[r].published, q.read}
      BY <1>0, <1>4, <1>7 DEF Rule
    <3> QED BY <1>3, <1>5, <3>1 DEF Newest
  <2>2. Newest(r)'
    <3>1. CASE r \in raced
      BY <1>2, <1>5, <1>7, <3>1 DEF Newest
    <3>2. CASE r \notin raced
      BY <1>2, <1>3, <1>5, <1>7, <2>1, <3>2, NewestKept
    <3> QED BY <3>1, <3>2
  <2>3. Gapless(r)'
    BY <1>2, <1>5, <1>7, <1>13, GaplessKept
  <2>4. Intended(r)'
    <3>1. \A x \in Managers : Publishing(x, r)' => Publishing(x, r) /\ managers'[x] = managers[x]
      BY <1>2, <1>3 DEF OthersWait, Publishing
    <3> QED BY <1>2, <1>5, <1>7, <3>1 DEF Intended
  <2>5. Unpublished(r)'
    BY <1>2, <1>5, <1>7, <1>13, <1>15 DEF Unpublished, OthersWait
  <2> QED BY <1>14, <2>2, <2>3, <2>4, <2>5 DEF Kept
<1>8. ASSUME ~unchanged(m) /\ ~numberTaken(r, q.number), Exists(r), Removing(m, r) => r \in overtaken',
             rules'[r].publishedAt # None,
             versions'[r] = versions[r] \cup {new} /\ rules'[r].published = new
      PROVE  Kept(r)'
  <2>1. new.number = q.number /\ new.steps = q.steps /\ new.trigger = q.trigger
    BY <1>11
  <2>2. \A v \in versions[r] : v.number # q.number
    BY <1>8 DEF numberTaken
  <2>3. Newest(r)'
    <3>1. \A v, w \in versions'[r] : v.number = w.number => v = w
      BY <1>5, <1>8, <2>1, <2>2 DEF Newest
    <3>2. ASSUME r \notin raced PROVE \A x \in Managers : ~Publishing(x, r)'
      BY <1>2, <1>3, <1>5, <3>2 DEF Newest, OthersWait, Publishing
    <3>3. ASSUME r \notin raced PROVE \A v \in versions'[r] : v.number <= rules'[r].published.number
      BY <1>2, <1>3, <1>5, <1>8, <2>1, <3>3 DEF Newest
    <3> QED BY <1>2, <3>1, <3>2, <3>3 DEF Newest
  <2>4. Gapless(r)'
    <3>1. Given(r, q.number - 1)
      BY <1>1, <1>2, <1>5, <1>8 DEF Gapless
    <3>2. Given(r, new.number)'
      <4>1. ASSUME NEW i \in 1 .. new.number PROVE \E v \in versions'[r] : v.number = i
        BY <1>2, <1>8, <2>1, <3>1 DEF Given
      <4> QED BY <4>1 DEF Given
    <3> QED BY <1>2, <1>5, <1>8, <1>13, <3>2, GaplessKept
  <2>5. Intended(r)'
    <3>1. <<new.steps, new.trigger>> \in meant[r]
      BY <1>3, <1>5, <2>1 DEF Intended
    <3>2. \A x \in Managers : Publishing(x, r)' => Publishing(x, r) /\ managers'[x] = managers[x]
      BY <1>2, <1>3 DEF OthersWait, Publishing
    <3> QED BY <1>2, <1>5, <1>8, <3>1, <3>2 DEF Intended
  <2>6. Unpublished(r)'
    <3>1. ASSUME NEW x \in Managers, managers'[x].pc = "delete" /\ managers'[x].rule = r
          PROVE  r \in overtaken'
      <4>1. x # m /\ managers'[x] = managers[x]
        BY <1>2, <3>1 DEF OthersWait
      <4> QED BY <1>8, <3>1, <4>1 DEF Removing
    <3> QED BY <1>8, <3>1 DEF Unpublished
  <2> QED BY <1>14, <2>3, <2>4, <2>5, <2>6 DEF Kept
<1>9. Kept(r)'
  <2>1. CASE rules' = rules /\ versions' = versions
    BY <1>7, <2>1
  <2>2. CASE /\ Exists(r) /\ (unchanged(m) \/ ~numberTaken(r, q.number))
             /\ Removing(m, r) => r \in overtaken'
             /\ versions' = [versions EXCEPT ![r] = IF unchanged(m) THEN @ ELSE @ \cup {new}]
             /\ rules' = [rules EXCEPT ![r].status = "ACTIVE", ![r].publishedAt = now,
                                       ![r].published = IF unchanged(m) THEN q.read ELSE new]
    <3>1. CASE unchanged(m)
      BY <1>0, <1>7, <2>2, <3>1
    <3>2. CASE ~unchanged(m)
      <4>1. rules' = [rules EXCEPT ![r].status = "ACTIVE", ![r].publishedAt = now, ![r].published = new]
        BY <2>2, <3>2
      <4>2. rules'[r].published = new /\ rules'[r].publishedAt # None
        BY <1>0, <1>12, <4>1 DEF Rule
      <4> QED BY <1>0, <1>8, <2>2, <3>2, <4>2
    <3> QED BY <3>1, <3>2
  <2> QED BY <1>4, <2>1, <2>2
<1>10. ASSUME NEW x \in Rules, x # r PROVE Kept(x)'
  BY <1>1, <1>2, <1>6, <1>10, ElsewhereKept DEF VersionsKept
<1> QED BY <1>9, <1>10 DEF VersionsKept

\* A rule's status is written, or removing it begins.
LEMMA RemovingKept ==
    ASSUME PeopleAndRules, VersionsKept, NEW m \in Managers, NEW r \in Rules,
           Pause(m, r) \/ Remove(m, r) \/ (Archive(m) /\ managers[m].rule = r)
    PROVE  VersionsKept'
<1>0. managers \in [Managers -> Requests] /\ rules \in [Rules -> Rule]
  BY DEF PeopleAndRules, PeopleTypes, RulesTyped
<1>1. /\ UNCHANGED <<versions, meant, torn, raced, overtaken>> /\ OthersWait(m)
      /\ \A x \in Rules : /\ rules'[x].published = rules[x].published /\ rules'[x].steps = rules[x].steps
                          /\ rules'[x].publishedAt = rules[x].publishedAt
                          /\ rules'[x].trigger = rules[x].trigger /\ (Exists(x)' => Exists(x))
  <2>1. PICK status : rules' = rules \/ (rules' = [rules EXCEPT ![r].status = status] /\ Exists(r))
    BY DEF Pause, Remove, Archive, Ask
  <2>2. UNCHANGED <<versions, meant, torn, raced, overtaken>> /\ OthersWait(m)
    BY <1>0 DEF Pause, Remove, Archive, OthersWait
  <2> QED BY <1>0, <2>1, <2>2 DEF Rule, Exists
<1>2. /\ managers[m].pc \in {"idle", "archive"} /\ managers'[m].pc \in {"idle", "archive", "delete"}
      /\ managers'[m].pc = "delete" => managers'[m].rule = r /\ rules[r].publishedAt = None
  <2>1. CASE Pause(m, r)
    BY <2>1 DEF Pause, Ask
  <2>2. CASE Remove(m, r)
    <3>1. managers'[m] = [NoRequest EXCEPT !.pc = IF hasHistory(r) THEN "archive" ELSE "delete", !.rule = r]
      BY <1>0, <2>2 DEF Remove
    <3> QED BY <2>2, <3>1 DEF Remove, Ask, NoRequest, hasHistory
  <2>3. CASE Archive(m)
    BY <1>0, <2>3 DEF Archive, NoRequest
  <2> QED BY <2>1, <2>2, <2>3
<1>3. ASSUME NEW x \in Rules PROVE Kept(x)'
  <2>1. Kept(x) /\ ~Saving(m, x) /\ ~Saving(m, x)' /\ ~Publishing(m, x)'
    BY <1>2 DEF VersionsKept, Saving, Publishing
  <2>2. Drafted(x)'
    BY <1>1, <2>1, DraftedKept DEF Kept
  <2>3. CASE ~(managers'[m].pc = "delete" /\ managers'[m].rule = x)
    BY <1>1, <2>1, <2>2, <2>3, RuleKept
  <2>4. CASE managers'[m].pc = "delete" /\ managers'[m].rule = x
    <3>1. x = r /\ versions[r] = {}
      BY <1>2, <2>1, <2>4 DEF Kept, Unpublished
    <3>2. Newest(x)' /\ Intended(x)' /\ Unpublished(x)'
      <4>1. versions'[x] = {}
        BY <1>1, <3>1
      <4>2. Unpublished(x)'
        BY <4>1 DEF Unpublished
      <4>3. Intended(x)'
        BY <1>1, <2>1, <4>1 DEF Kept, Intended, OthersWait, Publishing
      <4>4. Newest(x)'
        BY <1>1, <2>1, NewestKept DEF Kept
      <4> QED BY <4>2, <4>3, <4>4
    <3>3. Gapless(x)'
      BY <1>1, <2>1, <2>4, GaplessKept DEF Kept
    <3> QED BY <2>2, <3>2, <3>3 DEF Kept
  <2> QED BY <2>3, <2>4
<1> QED BY <1>3 DEF VersionsKept

\* A rule that goes takes its versions along.
LEMMA DeleteKept ==
    ASSUME PeopleAndRules, VersionsKept, NEW m \in Managers, Delete(m)
    PROVE  VersionsKept'
<1>0. /\ managers \in [Managers -> Requests] /\ rules \in [Rules -> Rule]
      /\ versions \in [Rules -> SUBSET Version]
  BY DEF PeopleAndRules, PeopleTypes, RulesTyped
<1>1. PICK r \in Rules : r = managers[m].rule
  BY <1>0 DEF Delete, Requests
<1>2. /\ UNCHANGED <<meant, torn, raced, overtaken>> /\ OthersWait(m)
      /\ managers[m].pc = "delete" /\ managers'[m].pc = "idle"
      /\ versions'[r] = {} /\ ~Exists(r)'
      /\ rules'[r].steps = rules[r].steps /\ rules'[r].trigger = rules[r].trigger
      /\ rules'[r].published = rules[r].published
      /\ \A x \in Rules \ {r} : rules'[x] = rules[x] /\ versions'[x] = versions[x]
  BY <1>0, <1>1 DEF Delete, NoRequest, OthersWait, Rule, Exists
<1>3. ~Saving(m, r) /\ ~Saving(m, r)' /\ ~Publishing(m, r)' /\ Kept(r)
  BY <1>2 DEF Saving, Publishing, VersionsKept
<1>4. Drafted(r)'
  BY <1>2, <1>3, DraftedKept DEF Kept
<1>5. Gapless(r)' /\ Unpublished(r)'
  BY <1>2 DEF Gapless, Unpublished
<1>6. \A n \in Managers : Publishing(n, r)' => Publishing(n, r) /\ managers'[n] = managers[n]
  BY <1>2, <1>3 DEF OthersWait, Publishing
<1>7. Intended(r)'
  BY <1>2, <1>3, <1>6 DEF Kept, Intended
<1>8. Newest(r)'
  <2>1. \A n \in Managers : r \notin raced /\ Publishing(n, r)' =>
            \A o \in Managers \ {n} : ~Publishing(o, r)'
    BY <1>3, <1>6 DEF Kept, Newest
  <2> QED BY <1>2, <1>3, <1>6, <2>1 DEF Kept, Newest
<1>9. ASSUME NEW x \in Rules, x # r PROVE Kept(x)'
  BY <1>1, <1>2, <1>9, ElsewhereKept DEF VersionsKept
<1> QED BY <1>3, <1>4, <1>5, <1>7, <1>8, <1>9 DEF VersionsKept, Kept

\* Only the cursor of a rule is written.
LEMMA CursorKept ==
    ASSUME VersionsKept, UNCHANGED edits,
           \A r \in Rules : /\ rules'[r].published = rules[r].published
                            /\ rules'[r].publishedAt = rules[r].publishedAt
                            /\ rules'[r].steps = rules[r].steps /\ rules'[r].trigger = rules[r].trigger
                            /\ rules'[r].status = rules[r].status
    PROVE  VersionsKept'
<1> USE DEF edits
<1> SUFFICES ASSUME NEW r \in Rules PROVE Kept(r)'
  BY DEF VersionsKept
<1>0. Kept(r) /\ (Exists(r)' <=> Exists(r))
  BY DEF VersionsKept, Exists
<1>1. Newest(r)'
  BY <1>0 DEF Kept, Newest, Publishing
<1>2. Gapless(r)'
  BY <1>0 DEF Kept, Gapless, Given, unchanged
<1>3. Intended(r)'
  BY <1>0 DEF Kept, Intended, Publishing
<1>4. Drafted(r)'
  BY <1>0 DEF Kept, Drafted, Saving
<1>5. Unpublished(r)'
  BY <1>0 DEF Kept, Unpublished
<1> QED BY <1>1, <1>2, <1>3, <1>4, <1>5 DEF Kept

\* A request that stops between its two writes has torn the rule; in a publish, nothing.
LEMMA EndKept ==
    ASSUME PeopleAndRules, VersionsKept, NEW m \in Managers, RequestEnds(m)
    PROVE  VersionsKept'
<1>0. managers \in [Managers -> Requests]
  BY DEF PeopleAndRules, PeopleTypes
<1>1. PICK r \in Rules : r = managers[m].rule
  BY <1>0 DEF RequestEnds, Requests
<1>2. /\ managers'[m].pc = "idle" /\ OthersWait(m) /\ UNCHANGED <<versions, rules, raced, overtaken, meant>>
      /\ torn \subseteq torn' /\ (managers[m].pc = "columns" => r \in torn')
  BY <1>0, <1>1 DEF RequestEnds, NoRequest, OthersWait
<1>3. ~Saving(m, r)' /\ ~Publishing(m, r)' /\ Kept(r) /\ (Exists(r)' => Exists(r))
  BY <1>2 DEF Saving, Publishing, VersionsKept, Exists
<1>4. Drafted(r)'
  <2>1. CASE Saving(m, r)
    BY <1>2, <2>1 DEF Saving, Drafted
  <2>2. CASE ~Saving(m, r)
    BY <1>2, <1>3, <2>2, DraftedKept DEF Kept
  <2> QED BY <2>1, <2>2
<1>5. Kept(r)'
  BY <1>2, <1>3, <1>4, RuleKept
<1>6. ASSUME NEW x \in Rules, x # r PROVE Kept(x)'
  <2>1. x \in torn => x \in torn'
    BY <1>2
  <2> QED BY <1>1, <1>2, <1>6, <2>1, ElsewhereKept DEF VersionsKept
<1> QED BY <1>5, <1>6 DEF VersionsKept

LEMMA ManageKept ==
    ASSUME PeopleAndRules, VersionsKept, NEW m \in Managers, Manage(m), now \in Moments
    PROVE  VersionsKept'
<1>0. rules \in [Rules -> Rule] /\ versions \in [Rules -> SUBSET Version]
  BY DEF PeopleAndRules, RulesTyped, PeopleTypes
<1>1. ASSUME NEW r \in Rules, Save(m, r) PROVE VersionsKept'
  <2>1. PICK b \in Bodies : WriteSteps(m, r, b[1], columnsOf(b[1], b[2]), FALSE)
    BY <1>1 DEF Save
  <2>2. /\ b[1] \in Configs \cup {None} /\ columnsOf(b[1], b[2]) \in Configs \cup {None}
        /\ b[1] # None => columnsOf(b[1], b[2]) # None
    BY ClockAssumption DEF columnsOf
  <2> QED BY <2>1, <2>2, WriteKept
<1>2. ASSUME NEW r \in Rules, Revert(m, r) PROVE VersionsKept'
  <2>1. PICK v \in versions[r], publish \in BOOLEAN : WriteSteps(m, r, v.steps, v.trigger, publish)
    BY <1>2 DEF Revert
  <2>2. v.steps \in Configs /\ v.trigger \in Configs /\ v.trigger # None
    BY <1>0, ClockAssumption DEF Version
  <2> QED BY <2>1, <2>2, WriteKept
<1>3. ASSUME NEW r \in Rules, Publish(m, r) PROVE VersionsKept'
  BY <1>3, ReadKept DEF Publish, Ask
<1>4. ASSUME PublishRestored(m) PROVE VersionsKept'
  <2>1. managers[m].rule \in Rules
    BY <1>4 DEF PublishRestored, PeopleAndRules, PeopleTypes, Requests
  <2> QED BY <1>4, <2>1, ReadKept DEF PublishRestored
<1>5. ASSUME Archive(m) PROVE VersionsKept'
  <2>1. managers[m].rule \in Rules
    BY <1>5 DEF Archive, PeopleAndRules, PeopleTypes, Requests
  <2> QED BY <1>5, <2>1, RemovingKept
<1> QED BY <1>1, <1>2, <1>3, <1>4, <1>5, SaveColumnsKept, ColumnsKept, NumberKept, CommitKept, EndKept,
           RemovingKept, DeleteKept DEF Manage

LEMMA VersionsStep == ClockInv /\ VersionsKept /\ [Next]_vars => VersionsKept'
<1> SUFFICES ASSUME ClockInv, VersionsKept, [Next]_vars PROVE VersionsKept'
  OBVIOUS
<1>0. PeopleAndRules /\ rules \in [Rules -> Rule] /\ ticks \in [Ticks -> TickStates] /\ now \in Moments
  BY DEF ClockInv, TickInv, PeopleAndRules, RulesTyped, TickTypes, WorldTypes
<1>1. CASE Advance \/ \E t \in Tasks : Close(t) \/ MoveDate(t)
  BY <1>1, CursorKept DEF Advance, Close, MoveDate
<1>2. CASE \E m \in Managers : Manage(m)
  BY <1>0, <1>2, ManageKept
<1>3. CASE \E k \in Ticks : Tick(k) \/ TickDies(k)
  <2>1. PICK k \in Ticks : Tick(k) \/ TickDies(k)
    BY <1>3
  <2>2. UNCHANGED edits
    BY <2>1 DEF Tick, TickDies, StartTick, ClaimSchedule, ReadScope, RunScheduled, StartDates,
                LookAtDates, CreateFiring, Announce, EndTick
  <2>3. \A x \in Rules : /\ rules'[x].published = rules[x].published
                         /\ rules'[x].publishedAt = rules[x].publishedAt
                         /\ rules'[x].steps = rules[x].steps /\ rules'[x].trigger = rules[x].trigger
                         /\ rules'[x].status = rules[x].status
    <3>1. CASE ClaimSchedule(k)
      <4>1. PICK o \in ticks[k].todo : rules' \in {rules, [rules EXCEPT ![o.rule].cursor = o.moment]}
        BY <3>1 DEF ClaimSchedule
      <4> QED BY <1>0, <4>1 DEF Rule
    <3>2. CASE ~ClaimSchedule(k)
      BY <2>1, <3>2 DEF Tick, TickDies, StartTick, ReadScope, RunScheduled, StartDates,
                LookAtDates, CreateFiring, Announce, EndTick
    <3> QED BY <3>1, <3>2
  <2> QED BY <2>2, <2>3, CursorKept
<1>4. CASE UNCHANGED vars
  BY <1>4, CursorKept DEF vars, edits
<1> QED BY <1>1, <1>2, <1>3, <1>4 DEF Next

LEMMA VersionsInit == Init => VersionsKept
<1> SUFFICES ASSUME Init, NEW r \in Rules PROVE Kept(r)
  BY DEF VersionsKept
<1>1. \A m \in Managers : ~Saving(m, r) /\ ~Publishing(m, r) /\ managers[m].pc = "idle"
  BY DEF Init, NoRequest, Saving, Publishing
<1>2. PICK s, t :
        /\ rules[r].steps = s /\ rules[r].trigger = t /\ meant[r] = IF s = None THEN {} ELSE {<<s, t>>}
        /\ \/ versions[r] = {} /\ rules[r].published = None
           \/ /\ s # None /\ versions[r] = {[number |-> 1, steps |-> s, trigger |-> t]}
              /\ rules[r].published = [number |-> 1, steps |-> s, trigger |-> t]
              /\ rules[r].publishedAt = 0
  <2>1. PICK b \in Bodies : LET steps == b[1]  trigger == columnsOf(b[1], b[2]) IN
        /\ meant = [x \in Rules |-> IF steps = None THEN {} ELSE {<<steps, trigger>>}]
        /\ \/ /\ rules = [x \in Rules |-> [status |-> "DRAFT", steps |-> steps, trigger |-> trigger,
                            published |-> None, publishedAt |-> None, cursor |-> None]]
              /\ versions = [x \in Rules |-> {}]
           \/ LET v == [number |-> 1, steps |-> steps, trigger |-> trigger] IN
              /\ steps # None
              /\ rules = [x \in Rules |-> [status |-> "ACTIVE", steps |-> steps, trigger |-> trigger,
                            published |-> v, publishedAt |-> 0, cursor |-> None]]
              /\ versions = [x \in Rules |-> {v}]
    BY DEF Init
  <2>2. PICK s, t : s = b[1] /\ t = columnsOf(b[1], b[2])
    OBVIOUS
  <2>3. /\ rules[r].steps = s /\ rules[r].trigger = t /\ meant[r] = IF s = None THEN {} ELSE {<<s, t>>}
        /\ \/ versions[r] = {} /\ rules[r].published = None
           \/ /\ s # None /\ versions[r] = {[number |-> 1, steps |-> s, trigger |-> t]}
              /\ rules[r].published = [number |-> 1, steps |-> s, trigger |-> t]
              /\ rules[r].publishedAt = 0
    <3>1. meant[r] = IF s = None THEN {} ELSE {<<s, t>>}
      BY <2>1, <2>2
    <3>2. CASE versions = [x \in Rules |-> {}]
      BY <2>1, <2>2, <3>1, <3>2
    <3>3. CASE versions # [x \in Rules |-> {}]
      BY <2>1, <2>2, <3>1, <3>3
    <3> QED BY <3>2, <3>3
  <2> QED BY <2>3
<1>3. \A v \in versions[r] : Given(r, v.number)
  BY <1>2 DEF Given
<1>4. Newest(r) /\ Gapless(r)
  BY <1>1, <1>2, <1>3 DEF Newest, Gapless
<1>5. Intended(r) /\ Drafted(r)
  BY <1>1, <1>2 DEF Intended, Drafted
<1>6. 0 # None
  BY ClockAssumption
<1>7. Unpublished(r)
  BY <1>1, <1>2, <1>6 DEF Unpublished
<1> QED BY <1>4, <1>5, <1>7 DEF Kept

\* Whoever saves, restores and publishes, and whether the columns follow the canvas or
\* are named, a version holds what some one request set out to leave.
THEOREM VersionsAreWhole == Spec => []VersionsWhole
<1>1. VersionsKept => VersionsWhole
  BY DEF VersionsKept, Kept, Intended, VersionsWhole
<1> QED BY <1>1, VersionsInit, ClockInvInit, ClockStep, VersionsStep, PTL DEF Spec

\* However many managers publish, no number is given twice, and what runs is the
\* newest version of a rule whose publishes never overlapped.
THEOREM NewestIsRun == Spec => []NewestRuns
<1>1. VersionsKept => NewestRuns
  BY DEF VersionsKept, Kept, Newest, NewestRuns
<1> QED BY <1>1, VersionsInit, ClockInvInit, ClockStep, VersionsStep, PTL DEF Spec

\* No step leaves a number out, and none removes a version but the removal of a rule
\* that a publish overtook: what was published before a removal began stays.
THEOREM VersionsOnlyGrow == Spec => HistoryKept
<1> DEFINE Grows == \A r \in Rules :
            /\ \/ versions[r] \subseteq versions'[r]
               \/ r \in overtaken /\ rules'[r].status = "GONE"
            /\ \A v \in versions'[r] : \A n \in 1 .. v.number : \E w \in versions'[r] : w.number = n
<1>1. ClockInv /\ VersionsKept /\ VersionsKept' /\ [Next]_vars => [Grows]_vars
  <2> SUFFICES ASSUME ClockInv, VersionsKept, VersionsKept', [Next]_vars, NEW r \in Rules
               PROVE  /\ \/ versions[r] \subseteq versions'[r]
                         \/ r \in overtaken /\ rules'[r].status = "GONE"
                      /\ \A v \in versions'[r] : \A n \in 1 .. v.number :
                             \E w \in versions'[r] : w.number = n
    OBVIOUS
  <2>1. versions[r] \subseteq versions'[r] \/ (r \in overtaken /\ rules'[r].status = "GONE")
    <3>1. CASE \E m \in Managers : Commit(m)
      BY <3>1 DEF Commit, ClockInv, PeopleTypes
    <3>2. ASSUME NEW m \in Managers, Delete(m)
          PROVE  versions[r] \subseteq versions'[r] \/ (r \in overtaken /\ rules'[r].status = "GONE")
      <4>1. /\ managers[m].pc = "delete" /\ Exists(managers[m].rule)
            /\ versions' = [versions EXCEPT ![managers[m].rule] = {}]
            /\ rules' = [rules EXCEPT ![managers[m].rule].status = "GONE"]
        BY <3>2 DEF Delete
      <4>2. versions \in [Rules -> SUBSET Version] /\ rules \in [Rules -> Rule]
        BY DEF ClockInv, PeopleTypes, TickInv, RulesTyped
      <4>3. CASE r = managers[m].rule
        BY <4>1, <4>2, <4>3 DEF VersionsKept, Kept, Unpublished, Rule
      <4>4. CASE r # managers[m].rule
        BY <4>1, <4>2, <4>4
      <4> QED BY <4>3, <4>4
    <3>3. CASE ~ \E m \in Managers : Commit(m) \/ Delete(m)
      <4>1. ASSUME NEW m \in Managers, Manage(m) PROVE versions' = versions
        BY <3>3, <4>1 DEF Manage, Save, SaveColumns, Revert, WriteSteps, Publish, PublishRestored, ReadRule,
              Pause, Remove, Archive, WriteColumns, NextNumber, RequestEnds
      <4>2. ASSUME NEW k \in Ticks, Tick(k) \/ TickDies(k) PROVE versions' = versions
        BY <4>2 DEF Tick, TickDies, StartTick, ClaimSchedule, ReadScope, RunScheduled, StartDates,
              LookAtDates, CreateFiring, Announce, EndTick, edits
      <4>3. ASSUME Advance \/ \E t \in Tasks : Close(t) \/ MoveDate(t) PROVE versions' = versions
        BY <4>3 DEF Advance, Close, MoveDate, edits
      <4>4. versions' = versions
        BY <4>1, <4>2, <4>3 DEF Next, vars
      <4> QED BY <4>4
    <3> QED BY <3>1, <3>2, <3>3
  <2>2. ASSUME NEW v \in versions'[r], NEW n \in 1 .. v.number
        PROVE  \E w \in versions'[r] : w.number = n
    BY DEF VersionsKept, Kept, Gapless, Given
  <2> QED BY <2>1, <2>2
<1> HIDE DEF Grows
<1>2. Spec => [][Grows]_vars
  BY <1>1, VersionsInit, ClockInvInit, ClockStep, VersionsStep, PTL DEF Spec
<1> QED BY <1>2 DEF HistoryKept, Grows
=============================================================================
