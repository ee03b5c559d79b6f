------------------------ MODULE TaskDependenciesProofs ------------------------
(***************************************************************************)
(* The links between tasks, for any number of tasks and of requests: they  *)
(* close no ring, and who is freed is told.                                *)
(*                                                                         *)
(* That there is no ring is said by a ranking: every task comes after what *)
(* it waits on.  A request that has walked the graph from `blocking` knows *)
(* a set of tasks closed under waiting, which `blocked` is not in; ranking *)
(* that set first and the rest after it, each in the order they had, makes *)
(* room for the new link.  No induction over the walk is needed: a hop     *)
(* keeps "whatever was asked about, its answer has been seen".             *)
(*                                                                         *)
(* That the freed are told needs one thing more of the job that is to tell *)
(* them: that its blocker is not archived, or reopening it would hold      *)
(* nobody back and the job, finding it open, would tell nobody.            *)
(***************************************************************************)
EXTENDS TaskDependencies, FiniteSetTheorems, TLAPS

Linker == [pc : {"idle", "walk", "create", "delete", "count"},
           blocked : LinkTasks \cup {NoTask}, blocking : LinkTasks \cup {NoTask},
           seen : SUBSET LinkTasks, frontier : SUBSET LinkTasks, quiet : BOOLEAN]

\* Links are between tasks, and so is what a request is about.
LinksTyped ==
    /\ links \subseteq LinkTasks \X LinkTasks
    /\ held \subseteq LinkTasks
    /\ crossing \in BOOLEAN
    /\ linkers \in [LinkRequests -> Linker]
    /\ \A q \in LinkRequests : linkers[q].pc # "idle" =>
        linkers[q].blocked \in LinkTasks /\ linkers[q].blocking \in LinkTasks

\* What a walk has asked about, it has seen the answer to; the task that is to wait
\* is not among what it has seen.
WalkKnows(q) == LET me == linkers[q] IN
    me.pc \in {"walk", "create"} =>
        /\ me.blocking \in me.seen /\ me.blocked \notin me.seen
        /\ me.pc = "create" => me.frontier = {}
        /\ \A s, t \in LinkTasks :
            <<s, t>> \in links /\ s \in me.seen /\ s \notin me.frontier => t \in me.seen

WalksKnow == ~ crossing => \A q \in LinkRequests : WalkKnows(q)

Ranking == [LinkTasks -> 1 .. Cardinality(LinkTasks)]
Ranks(place, es) == \A s, t \in LinkTasks : <<s, t>> \in es => place[t] < place[s]
Ranked == ~ crossing => \E place \in Ranking : Ranks(place, links)

\* No task of a set waits on one outside it.
Closed(ts, es) == \A s, t \in LinkTasks : <<s, t>> \in es /\ s \in ts => t \in ts

LoopInv == LinksTyped /\ WalksKnow /\ Ranked

\* The steps that are no request's: tasks come and go, and word of it is passed on.
TaskTurns == \E t \in LinkTasks :
    \/ \E depth \in 0 .. MaxDepth : CompleteTask(t, depth)
    \/ CompleteUnsaid(t) \/ ReopenTask(t) \/ ArchiveTask(t) \/ RestoreTask(t)
Words == (\E c \in publishing : Publish(c)) \/ \E c \in completions : HearCompletion(c)

-----------------------------------------------------------------------------
(* Rankings.                                                               *)

\* The tasks before one in an irreflexive, transitive order number fewer than all
\* tasks, and fewer than those before any later one: counting them ranks the tasks.
LEMMA CountingRanks ==
    ASSUME NEW B,
           \A t \in LinkTasks : <<t, t>> \notin B,
           \A s, t, u \in LinkTasks : <<s, t>> \in B /\ <<t, u>> \in B => <<s, u>> \in B
    PROVE  \E place \in Ranking :
            \A s, t \in LinkTasks : <<s, t>> \in B => place[s] < place[t]
<1> DEFINE T == LinkTasks
<1>0. IsFiniteSet(T)  BY LinkAssumption
<1> DEFINE before(t) == {s \in T : <<s, t>> \in B}
<1> DEFINE place == [t \in T |-> Cardinality(before(t)) + 1]
<1>1. \A t \in T : /\ IsFiniteSet(before(t)) /\ Cardinality(before(t)) \in Nat
                   /\ Cardinality(before(t)) < Cardinality(T)
  <2> TAKE t \in T
  <2>1. before(t) \in SUBSET T /\ t \notin before(t)  OBVIOUS
  <2> HIDE DEF before
  <2>2. IsFiniteSet(before(t)) /\ Cardinality(before(t)) <= Cardinality(T)
    BY <1>0, <2>1, FS_Subset
  <2>3. Cardinality(T) # Cardinality(before(t))  BY <1>0, <2>1, FS_Subset
  <2>4. Cardinality(T) \in Nat /\ Cardinality(before(t)) \in Nat  BY <1>0, <2>2, FS_CardinalityType
  <2> QED BY <2>2, <2>3, <2>4
<1>2. \A s, t \in T : <<s, t>> \in B => Cardinality(before(s)) < Cardinality(before(t))
  <2> SUFFICES ASSUME NEW s \in T, NEW t \in T, <<s, t>> \in B
               PROVE  Cardinality(before(s)) < Cardinality(before(t))
    OBVIOUS
  <2>1. before(s) \in SUBSET before(t) /\ s \in before(t) /\ s \notin before(s)  OBVIOUS
  <2>2. /\ IsFiniteSet(before(t)) /\ Cardinality(before(t)) \in Nat
        /\ Cardinality(before(s)) \in Nat
    BY <1>1
  <2> HIDE DEF before
  <2>3. Cardinality(before(s)) <= Cardinality(before(t))  BY <2>1, <2>2, FS_Subset
  <2>4. Cardinality(before(t)) # Cardinality(before(s))  BY <2>1, <2>2, FS_Subset
  <2> QED BY <2>2, <2>3, <2>4
<1>3. Cardinality(T) \in Nat  BY <1>0, FS_CardinalityType
<1> HIDE DEF before
<1>4. place \in [T -> 1 .. Cardinality(T)]
  <2> SUFFICES ASSUME NEW t \in T PROVE Cardinality(before(t)) + 1 \in 1 .. Cardinality(T)
    OBVIOUS
  <2>1. Cardinality(before(t)) \in Nat /\ Cardinality(before(t)) < Cardinality(T)  BY <1>1
  <2> QED BY <2>1, <1>3
<1>5. ASSUME NEW s \in T, NEW t \in T, <<s, t>> \in B
      PROVE  place[s] < place[t]
  <2>1. Cardinality(before(s)) < Cardinality(before(t))  BY <1>5, <1>2
  <2>2. Cardinality(before(s)) \in Nat /\ Cardinality(before(t)) \in Nat  BY <1>1
  <2> QED BY <2>1, <2>2
<1> HIDE DEF place
<1> QED BY <1>4, <1>5 DEF Ranking

\* A set of tasks that wait on none outside it can be ranked before the others, so
\* that one of the others may come to wait on one of them.
LEMMA RoomForOneMore ==
    ASSUME NEW L, NEW S,
           NEW a \in LinkTasks, NEW b \in LinkTasks, a \notin S, b \in S,
           Closed(S, L), NEW P \in Ranking, Ranks(P, L)
    PROVE  \E place \in Ranking : Ranks(place, L \cup {<<a, b>>})
<1> DEFINE earlier(s, t) == \/ s \in S /\ t \notin S
                            \/ (s \in S <=> t \in S) /\ P[s] < P[t]
<1> DEFINE B == {e \in LinkTasks \X LinkTasks : earlier(e[1], e[2])}
<1>1. \A s, t \in LinkTasks : <<s, t>> \in B <=> earlier(s, t)  OBVIOUS
<1>2. \A t \in LinkTasks : P[t] \in Int
  BY FS_CardinalityType, LinkAssumption DEF Ranking
<1>3. \A t \in LinkTasks : <<t, t>> \notin B  BY <1>1, <1>2
<1>4. \A s, t, u \in LinkTasks : earlier(s, t) /\ earlier(t, u) => earlier(s, u)  BY <1>2
<1>5. \A s, t, u \in LinkTasks : <<s, t>> \in B /\ <<t, u>> \in B => <<s, u>> \in B
  BY <1>1, <1>4
<1>6. \A s, t \in LinkTasks : <<s, t>> \in L \cup {<<a, b>>} => <<t, s>> \in B
  <2> SUFFICES ASSUME NEW s \in LinkTasks, NEW t \in LinkTasks, <<s, t>> \in L \cup {<<a, b>>}
               PROVE  earlier(t, s)
    BY <1>1
  <2>1. CASE <<s, t>> \in L  BY <2>1 DEF Closed, Ranks
  <2>2. CASE s = a /\ t = b  BY <2>2
  <2> QED BY <2>1, <2>2
<1> HIDE DEF B
<1> HIDE DEF earlier
<1>7. \E place \in Ranking : \A s, t \in LinkTasks : <<s, t>> \in B => place[s] < place[t]
  BY <1>3, <1>5, CountingRanks
<1> QED BY <1>6, <1>7 DEF Ranks

-----------------------------------------------------------------------------
(* No ring.                                                                *)

LEMMA Idle == Unasked \in Linker /\ Unasked.pc = "idle"
BY DEF Unasked, Linker

LEMMA LinksTypedInit == LinksInit => LinksTyped
BY Idle DEF LinksInit, LinksTyped

LEMMA LinksTypedStep ==
    ASSUME LinksTyped, [LinksNext]_linkVars
    PROVE  LinksTyped'
<1> USE DEF LinksTyped, Linker
<1>1. \A ts : waitsOn(ts, links) \subseteq LinkTasks  BY DEF waitsOn
<1>2. ASSUME NEW q \in LinkRequests, NEW s \in LinkTasks, NEW t \in LinkTasks,
             AddDependency(q, s, t)
      PROVE  LinksTyped'
  BY <1>2 DEF AddDependency, Unasked
<1>3. ASSUME NEW q \in LinkRequests, Walk(q)
      PROVE  LinksTyped'
  <2>1. waitsOn(linkers[q].frontier, links) \subseteq LinkTasks  BY <1>1
  <2> DEFINE me == linkers[q]
  <2> DEFINE found == waitsOn(me.frontier, links)
  <2> DEFINE asked == [me EXCEPT !.seen = @ \cup found, !.frontier = onward(q, found),
                                 !.pc = IF onward(q, found) = {} THEN "create" ELSE "walk"]
  <2>2. /\ me.pc = "walk" /\ UNCHANGED <<links, held, crossing>>
        /\ linkers' = [linkers EXCEPT ![q] = IF me.blocked \in found THEN Unasked ELSE asked]
    BY <1>3 DEF Walk
  <2>3. asked \in Linker /\ asked.blocked = me.blocked /\ asked.blocking = me.blocking
    BY <2>1 DEF onward
  <2> HIDE DEF asked, Linker
  <2> QED BY <2>2, <2>3, Idle
<1>4. ASSUME NEW q \in LinkRequests, CreateLink(q)
      PROVE  LinksTyped'
  <2>1. linkers[q].blocked \in LinkTasks /\ linkers[q].blocking \in LinkTasks
    BY <1>4 DEF CreateLink
  <2> QED BY <1>4, <2>1 DEF CreateLink, Unasked, Tell
<1>5. ASSUME NEW q \in LinkRequests, RemoveDependency(q)
      PROVE  LinksTyped'
  <2>1. PICK e \in links : linkers' = [linkers EXCEPT ![q] =
            [Unasked EXCEPT !.pc = "delete", !.blocked = e[1], !.blocking = e[2],
                            !.quiet = e[2] \in completed \/ e[1] \in completed \cup archived \/ e[1] \notin placed]]
    BY <1>5 DEF RemoveDependency
  <2>2. PICK gone :
            gone = (e[2] \in completed \/ e[1] \in completed \cup archived \/ e[1] \notin placed)
    OBVIOUS
  <2>3. e[1] \in LinkTasks /\ e[2] \in LinkTasks /\ gone \in BOOLEAN  BY <2>2
  <2>4. linkers'[q] = [Unasked EXCEPT !.pc = "delete", !.blocked = e[1], !.blocking = e[2],
                                      !.quiet = gone]
    BY <2>1, <2>2
  <2>5. linkers'[q] \in Linker /\ linkers'[q].blocked = e[1] /\ linkers'[q].blocking = e[2]
    BY <2>3, <2>4 DEF Unasked
  <2>6. linkers' \in [LinkRequests -> Linker]
        /\ \A p \in LinkRequests \ {q} : linkers'[p] = linkers[p]
    <3> HIDE DEF Linker
    <3> QED BY <2>1, <2>5
  <2>7. UNCHANGED <<links, held, crossing>>  BY <1>5 DEF RemoveDependency
  <2> QED BY <2>3, <2>5, <2>6, <2>7
<1>6. ASSUME NEW q \in LinkRequests, DeleteLink(q)
      PROVE  LinksTyped'
  BY <1>6 DEF DeleteLink, Unasked, Tell
<1>7. ASSUME NEW q \in LinkRequests, AnnounceIfUnblocked(q)
      PROVE  LinksTyped'
  BY <1>7 DEF AnnounceIfUnblocked, Unasked, Tell
<1>8. ASSUME TaskTurns \/ Words
      PROVE  LinksTyped'
  BY <1>8 DEF TaskTurns, Words, CompleteTask, CompleteUnsaid, ReopenTask, ArchiveTask, RestoreTask, Publish,
              HearCompletion, Tell
<1>9. ASSUME UNCHANGED linkVars
      PROVE  LinksTyped'
  BY <1>9 DEF linkVars
<1> QED BY <1>2, <1>3, <1>4, <1>5, <1>6, <1>7, <1>8, <1>9 DEF LinksNext, TaskTurns, Words

\* A step that adds no link, and leaves every request where it was or out of its
\* walk, keeps what walks know and the ranking.
LEMMA NothingAdded ==
    ASSUME LoopInv, links' \subseteq links, crossing' = crossing,
           \A q \in LinkRequests : linkers'[q] = linkers[q]
                                  \/ linkers'[q].pc \notin {"walk", "create"}
    PROVE  WalksKnow' /\ Ranked'
<1>1. WalksKnow'  BY DEF LoopInv, WalksKnow, WalkKnows
<1>2. Ranked'  BY DEF LoopInv, Ranked, Ranks, Ranking
<1> QED BY <1>1, <1>2

LEMMA LoopStep ==
    ASSUME LoopInv, [LinksNext]_linkVars
    PROVE  LoopInv'
<1>1. LinksTyped /\ LinksTyped'  BY LinksTypedStep DEF LoopInv
<1>2. ASSUME NEW q \in LinkRequests, NEW s \in LinkTasks, NEW t \in LinkTasks,
             AddDependency(q, s, t)
      PROVE  WalksKnow' /\ Ranked'
  <2>1. /\ links' = links /\ crossing' = crossing /\ s # t
        /\ linkers' = [linkers EXCEPT ![q] =
                [Unasked EXCEPT !.pc = "walk", !.blocked = s, !.blocking = t,
                                !.seen = {t}, !.frontier = {t}]]
    BY <1>2 DEF AddDependency
  <2>2. linkers'[q] = [Unasked EXCEPT !.pc = "walk", !.blocked = s, !.blocking = t,
                                      !.seen = {t}, !.frontier = {t}]
    BY <1>1, <2>1 DEF LinksTyped
  <2>3. /\ linkers'[q].blocked = s /\ linkers'[q].blocking = t /\ linkers'[q].pc = "walk"
        /\ linkers'[q].seen = {t} /\ linkers'[q].frontier = {t}
    BY <2>2 DEF Unasked
  <2>4. WalkKnows(q)'  BY <2>1, <2>3 DEF WalkKnows
  <2>5. \A p \in LinkRequests \ {q} : linkers'[p] = linkers[p]  BY <1>1, <2>1 DEF LinksTyped
  <2>6. \A p \in LinkRequests \ {q} : WalkKnows(p) => WalkKnows(p)'
    BY <2>1, <2>5 DEF WalkKnows
  <2>7. WalksKnow'  BY <2>1, <2>4, <2>6 DEF LoopInv, WalksKnow
  <2>8. Ranked'  BY <2>1 DEF LoopInv, Ranked, Ranks, Ranking
  <2> QED BY <2>7, <2>8
<1>3. ASSUME NEW q \in LinkRequests, Walk(q)
      PROVE  WalksKnow' /\ Ranked'
  <2> DEFINE me == linkers[q]
  <2> DEFINE found == waitsOn(me.frontier, links)
  <2>1. /\ links' = links /\ crossing' = crossing /\ me.pc = "walk"
        /\ linkers' = [linkers EXCEPT ![q] =
                IF me.blocked \in found THEN Unasked
                ELSE [me EXCEPT !.seen = @ \cup found, !.frontier = onward(q, found),
                        !.pc = IF onward(q, found) = {} THEN "create" ELSE "walk"]]
    BY <1>3 DEF Walk
  <2>2. \A p \in LinkRequests \ {q} : linkers'[p] = linkers[p]  BY <1>1, <2>1 DEF LinksTyped
  <2>3. Ranked'  BY <2>1 DEF LoopInv, Ranked, Ranks, Ranking
  <2>4. CASE me.blocked \in found
    <3>1. linkers'[q].pc = "idle"  BY <1>1, <2>1, <2>4 DEF LinksTyped, Unasked
    <3> QED BY <2>1, <2>2, <3>1, NothingAdded
  <2>5. CASE me.blocked \notin found
    <3>1. linkers'[q] = [me EXCEPT !.seen = @ \cup found, !.frontier = onward(q, found),
                            !.pc = IF onward(q, found) = {} THEN "create" ELSE "walk"]
      BY <1>1, <2>1, <2>5 DEF LinksTyped
    <3>2. me \in Linker  BY <1>1 DEF LinksTyped
    <3>3. /\ linkers'[q].blocked = me.blocked /\ linkers'[q].blocking = me.blocking
          /\ linkers'[q].seen = me.seen \cup found /\ linkers'[q].frontier = found \ me.seen
          /\ linkers'[q].pc = "create" => linkers'[q].frontier = {}
      BY <3>1, <3>2 DEF Linker, onward
    <3>4. \A s, t \in LinkTasks : <<s, t>> \in links /\ s \in me.frontier => t \in found
      BY DEF waitsOn
    <3> HIDE DEF found
    <3>5. WalkKnows(q) => WalkKnows(q)'
      <4> SUFFICES ASSUME WalkKnows(q) PROVE WalkKnows(q)'  OBVIOUS
      <4>1. /\ me.blocking \in me.seen /\ me.blocked \notin me.seen
            /\ \A s, t \in LinkTasks :
                <<s, t>> \in links /\ s \in me.seen /\ s \notin me.frontier => t \in me.seen
        BY <2>1 DEF WalkKnows
      <4> HIDE DEF me
      <4> QED BY <2>1, <2>5, <3>3, <3>4, <4>1 DEF WalkKnows
    <3>6. \A p \in LinkRequests \ {q} : WalkKnows(p) => WalkKnows(p)'
      BY <2>1, <2>2 DEF WalkKnows
    <3>7. WalksKnow'  BY <2>1, <3>5, <3>6 DEF LoopInv, WalksKnow
    <3> QED BY <2>3, <3>7
  <2> QED BY <2>4, <2>5
<1>4. ASSUME NEW q \in LinkRequests, CreateLink(q)
      PROVE  WalksKnow' /\ Ranked'
  <2>1. PICK a, b, S : a = linkers[q].blocked /\ b = linkers[q].blocking /\ S = linkers[q].seen
    OBVIOUS
  <2>2. /\ links' = links \cup {<<a, b>>}
        /\ crossing' = (crossing \/ \E p \in LinkRequests \ {q} : linkers[p].pc \in {"walk", "create"})
        /\ linkers[q].pc = "create" /\ linkers' = [linkers EXCEPT ![q] = Unasked]
    BY <1>4, <2>1 DEF CreateLink
  <2>3. linkers'[q].pc = "idle" /\ \A p \in LinkRequests \ {q} : linkers'[p] = linkers[p]
    BY <1>1, <2>2 DEF LinksTyped, Unasked
  <2>4. WalksKnow'  BY <2>2, <2>3 DEF WalksKnow, WalkKnows
  <2>5. ASSUME ~ crossing'
        PROVE  \E place \in Ranking : Ranks(place, links')
    <3>1. ~ crossing  BY <1>1, <2>2, <2>5 DEF LinksTyped
    <3>2. WalkKnows(q)  BY <3>1 DEF LoopInv, WalksKnow
    <3>3. b \in S /\ a \notin S /\ Closed(S, links)
      BY <2>1, <2>2, <3>2 DEF WalkKnows, Closed
    <3>4. a \in LinkTasks /\ b \in LinkTasks
      BY <1>1, <2>1, <2>2 DEF LinksTyped
    <3>5. PICK P \in Ranking : Ranks(P, links)  BY <3>1 DEF LoopInv, Ranked
    <3>6. \E place \in Ranking : Ranks(place, links \cup {<<a, b>>})
      BY <3>3, <3>4, <3>5, RoomForOneMore
    <3> QED BY <2>2, <3>6
  <2>6. Ranked'  BY <2>5 DEF Ranked, Ranks, Ranking
  <2> QED BY <2>4, <2>6
<1>5. ASSUME NEW q \in LinkRequests, RemoveDependency(q)
      PROVE  WalksKnow' /\ Ranked'
  <2>1. PICK e \in links : linkers' = [linkers EXCEPT ![q] =
            [Unasked EXCEPT !.pc = "delete", !.blocked = e[1], !.blocking = e[2],
                            !.quiet = e[2] \in completed \/ e[1] \in completed \cup archived
                                        \/ e[1] \notin placed]]
    BY <1>5 DEF RemoveDependency
  <2>2. linkers'[q].pc = "delete" /\ \A p \in LinkRequests \ {q} : linkers'[p] = linkers[p]
    BY <1>1, <2>1 DEF LinksTyped, Unasked
  <2>3. links' = links /\ crossing' = crossing  BY <1>5 DEF RemoveDependency
  <2> QED BY <2>2, <2>3, NothingAdded
<1>6. ASSUME NEW q \in LinkRequests, DeleteLink(q) \/ AnnounceIfUnblocked(q)
      PROVE  WalksKnow' /\ Ranked'
  <2>1. links' \subseteq links /\ crossing' = crossing
    BY <1>6 DEF DeleteLink, AnnounceIfUnblocked
  <2>2. linkers[q] \in Linker  BY <1>1 DEF LinksTyped
  <2>3. linkers'[q].pc \in {"count", "idle"} /\ \A p \in LinkRequests \ {q} : linkers'[p] = linkers[p]
    BY <1>1, <1>6, <2>2 DEF DeleteLink, AnnounceIfUnblocked, LinksTyped, Linker, Unasked
  <2> QED BY <2>1, <2>3, NothingAdded
<1>7. ASSUME TaskTurns \/ Words
      PROVE  WalksKnow' /\ Ranked'
  <2>1. links' = links /\ crossing' = crossing /\ linkers' = linkers
    BY <1>7 DEF TaskTurns, Words, CompleteTask, CompleteUnsaid, ReopenTask, ArchiveTask, RestoreTask, Publish,
                HearCompletion
  <2> QED BY <2>1, NothingAdded
<1>8. ASSUME UNCHANGED linkVars
      PROVE  WalksKnow' /\ Ranked'
  BY <1>8, NothingAdded DEF linkVars
<1>9. WalksKnow' /\ Ranked'
  BY <1>2, <1>3, <1>4, <1>5, <1>6, <1>7, <1>8 DEF LinksNext, TaskTurns, Words
<1> QED BY <1>1, <1>9 DEF LoopInv

\* Where there are no links any ranking does.
LEMMA LoopStart == LinksInit => LoopInv
<1> SUFFICES ASSUME LinksInit PROVE LoopInv  OBVIOUS
<1>1. LinksTyped  BY LinksTypedInit
<1>2. WalksKnow  BY DEF LinksInit, WalksKnow, WalkKnows, Unasked
<1>3. \E place \in Ranking : Ranks(place, {})  BY CountingRanks DEF Ranks
<1>4. Ranked  BY <1>3 DEF LinksInit, Ranked
<1> QED BY <1>1, <1>2, <1>4 DEF LoopInv

\* No ring of tasks waits on itself, of any length and among any number of tasks,
\* unless a link was written while another was being checked.
THEOREM NoRing == LinksSpec => []NoLoop
<1>1. LoopInv => NoLoop
  BY DEF LoopInv, LinksTyped, Ranked, Ranks, Ranking, NoLoop
<1> QED BY <1>1, LoopStart, LoopStep, PTL DEF LinksSpec

-----------------------------------------------------------------------------
(* The freed are told.                                                     *)

\* A completion that is still to be worked through will find the task; a blocker that
\* was archived since may hold it back no more when it is reopened, so it counts
\* for nothing.
OnTheWay == publishing \cup completions
JobFinds(t) == \E c \in OnTheWay : c[1] \in completed \ archived /\ <<t, c[1]>> \in links
Counting(t) == \E q \in LinkRequests : linkers[q].pc = "count" /\ linkers[q].blocked = t
HasWord(t) == Blocked(t) \/ t \in lapsed \/ JobFinds(t) \/ Counting(t)
WordInv == \A t \in (held \cap placed) \ (completed \cup archived) : HasWord(t)

\* What blocks a task is unfinished, not archived, and linked to it.
LEMMA WhoBlocks ==
    \A t : Blocked(t) <=> \E e \in links : e[1] = t /\ e[2] \notin completed \cup archived
BY DEF Blocked, blockers, waitsOn

LEMMA WhoBlocksNext ==
    \A t : Blocked(t)' <=> \E e \in links' : e[1] = t /\ e[2] \notin completed' \cup archived'
BY DEF Blocked, blockers, waitsOn

\* Whoever is held after a step and free was held before it and not told in it; and was
\* left without a word before, or in the step, is so after.
LEMMA WhoIsHeld ==
    ASSUME NEW told, NEW missed, Tell(told, missed), NEW t \in held', ~ Blocked(t)'
    PROVE  t \in held /\ t \notin told /\ (t \in lapsed \cup missed => t \in lapsed')
<1>1. Blocked(t)' <=> waitsOn({t}, links') \ (completed' \cup archived') # {}
  BY DEF Blocked, blockers, waitsOn
<1> QED BY <1>1 DEF Tell

\* A step that changes neither links nor tasks, nor what is on its way: a word may be
\* said or lost in it, but to those told or missed.
LEMMA WordKept ==
    ASSUME LinksTyped, WordInv, UNCHANGED <<links, tasks>>,
           NEW t \in (held' \cap placed') \ (completed' \cup archived'), ~ Blocked(t)',
           t \in held, t \in lapsed => t \in lapsed',
           JobFinds(t) => JobFinds(t)' \/ t \in lapsed', Counting(t) => Counting(t)' \/ t \in lapsed'
    PROVE  t \in lapsed' \/ JobFinds(t)' \/ Counting(t)'
<1>1. ~ Blocked(t)  BY WhoBlocks, WhoBlocksNext DEF tasks
<1>2. HasWord(t)  BY DEF WordInv, tasks
<1> QED BY <1>1, <1>2 DEF HasWord

LEMMA WordStep ==
    ASSUME LinksTyped, WordInv, [LinksNext]_linkVars
    PROVE  WordInv'
<1> SUFFICES ASSUME NEW t \in (held' \cap placed') \ (completed' \cup archived'), ~ Blocked(t)'
             PROVE  t \in lapsed' \/ JobFinds(t)' \/ Counting(t)'
  BY DEF WordInv, HasWord
<1> DEFINE Goal == t \in lapsed' \/ JobFinds(t)' \/ Counting(t)'
<1>0. \A p, q \in LinkRequests : \A r : linkers' = [linkers EXCEPT ![q] = r] =>
        linkers'[q] = r /\ (p # q => linkers'[p] = linkers[p])
  BY DEF LinksTyped
<1>1. ASSUME NEW q \in LinkRequests,
             \/ \E s, u \in LinkTasks : AddDependency(q, s, u)
             \/ Walk(q) \/ RemoveDependency(q)
      PROVE  Goal
  <2>1. PICK r : linkers' = [linkers EXCEPT ![q] = r]
    BY <1>1 DEF AddDependency, Walk, RemoveDependency
  <2>2. linkers[q].pc # "count" /\ UNCHANGED <<links, tasks, events, held, lapsed>>
    BY <1>1 DEF AddDependency, Walk, RemoveDependency
  <2>3. Counting(t) => Counting(t)'  BY <1>0, <2>1, <2>2 DEF Counting
  <2>4. JobFinds(t) => JobFinds(t)'  BY <2>2 DEF JobFinds, OnTheWay, events, tasks
  <2> QED BY <2>2, <2>3, <2>4, WordKept
<1>3. ASSUME NEW q \in LinkRequests, CreateLink(q)
      PROVE  Goal
  <2>1. t \in held /\ (t \in lapsed => t \in lapsed')  BY <1>3, WhoIsHeld DEF CreateLink
  <2>2. links \subseteq links' /\ linkers[q].pc = "create" /\ UNCHANGED <<tasks, events>>
    BY <1>3 DEF CreateLink
  <2>3. ~ Blocked(t) /\ (JobFinds(t) => JobFinds(t)')
    BY <2>2, WhoBlocks, WhoBlocksNext DEF JobFinds, OnTheWay, events, tasks
  <2>4. Counting(t) => Counting(t)'  BY <1>0, <1>3, <2>2 DEF CreateLink, Counting
  <2>5. HasWord(t)  BY <2>1, <2>2 DEF WordInv, tasks
  <2> QED BY <2>1, <2>3, <2>4, <2>5 DEF HasWord
<1>5. ASSUME NEW q \in LinkRequests, DeleteLink(q)
      PROVE  Goal
  <2> DEFINE me == linkers[q]
             e == <<me.blocked, me.blocking>>
             missed == IF me.quiet /\ e \in links THEN {me.blocked} ELSE {}
  <2>1. t \in held /\ (t \in lapsed \cup missed => t \in lapsed')
    BY <1>5, WhoIsHeld DEF DeleteLink
  <2>2. me.pc = "delete" /\ links' = links \ {e} /\ UNCHANGED <<tasks, events>>
    BY <1>5 DEF DeleteLink
  <2>3. HasWord(t)  BY <2>1, <2>2 DEF WordInv, tasks
  <2>4. CASE t # me.blocked
    <3>1. ~ Blocked(t)  BY <2>2, <2>4, WhoBlocks, WhoBlocksNext DEF tasks
    <3>2. JobFinds(t) => JobFinds(t)'  BY <2>2, <2>4 DEF JobFinds, OnTheWay, events, tasks
    <3>3. Counting(t) => Counting(t)'  BY <1>0, <1>5, <2>2 DEF DeleteLink, Counting
    <3> QED BY <2>1, <2>3, <3>1, <3>2, <3>3 DEF HasWord
  <2>5. CASE t = me.blocked /\ e \in links
    <3>1. CASE me.quiet
      BY <2>1, <2>5, <3>1
    <3>2. CASE ~ me.quiet
      <4>1. linkers' = [linkers EXCEPT ![q] = [me EXCEPT !.pc = "count"]]
        BY <1>5, <2>5, <3>2 DEF DeleteLink
      <4>2. linkers'[q].pc = "count" /\ linkers'[q].blocked = t
        BY <1>0, <2>5, <4>1 DEF LinksTyped, Linker
      <4> QED BY <4>2 DEF Counting
    <3> QED BY <3>1, <3>2
  <2>6. CASE t = me.blocked /\ e \notin links
    <3>1. links' = links  BY <2>2, <2>6
    <3>2. ~ Blocked(t) /\ (JobFinds(t) => JobFinds(t)')
      BY <2>2, <3>1, WhoBlocks, WhoBlocksNext DEF JobFinds, OnTheWay, events, tasks
    <3>3. Counting(t) => Counting(t)'  BY <1>0, <1>5, <2>2 DEF DeleteLink, Counting
    <3> QED BY <2>1, <2>3, <3>2, <3>3 DEF HasWord
  <2> QED BY <2>4, <2>5, <2>6
<1>6. ASSUME NEW q \in LinkRequests, AnnounceIfUnblocked(q)
      PROVE  Goal
  <2> DEFINE told == {u \in {linkers[q].blocked} : stillBlocking(u) = {}}
  <2>1. /\ linkers[q].pc = "count" /\ linkers' = [linkers EXCEPT ![q] = Unasked]
        /\ UNCHANGED <<links, tasks, events>>
        /\ Tell(told, {}) \/ Tell({}, told)
    BY <1>6 DEF AnnounceIfUnblocked
  <2>2. ~ Blocked(t)  BY <2>1, WhoBlocks, WhoBlocksNext DEF tasks
  <2>3. t = linkers[q].blocked => t \in told  BY <2>2 DEF stillBlocking, Blocked
  <2> HIDE DEF told
  <2>4. t \in held /\ (t \in lapsed => t \in lapsed') /\ (t \in told => t \in lapsed')
    BY <2>1, WhoIsHeld
  <2>5. Counting(t) => Counting(t)' \/ t \in lapsed'  BY <1>0, <2>1, <2>3, <2>4 DEF Counting
  <2>6. JobFinds(t) => JobFinds(t)'  BY <2>1 DEF JobFinds, OnTheWay, events, tasks
  <2> QED BY <2>1, <2>4, <2>5, <2>6, WordKept
<1>7. ASSUME NEW u \in LinkTasks, NEW depth \in 0 .. MaxDepth, CompleteTask(u, depth) \/ CompleteUnsaid(u)
      PROVE  Goal
  <2>1. PICK missed : /\ Tell({}, missed)
                      /\ \/ missed = dependents(u)
                         \/ /\ missed = {}
                            /\ publishing' = publishing \cup {<<u, depth>>}
    BY <1>7 DEF CompleteTask, CompleteUnsaid
  <2>2. /\ UNCHANGED <<links, archived, placed, linkers, completions>>
        /\ completed' = completed \cup {u} /\ publishing \subseteq publishing'
    BY <1>7 DEF CompleteTask, CompleteUnsaid, events
  <2>3. t \in held /\ (t \in lapsed \cup missed => t \in lapsed')  BY <2>1, WhoIsHeld
  <2>4. HasWord(t)  BY <2>2, <2>3 DEF WordInv
  <2>5. ASSUME Blocked(t) PROVE t \in lapsed' \/ JobFinds(t)'
    <3>1. PICK e \in links : e[1] = t /\ e[2] \notin completed \cup archived  BY <2>5, WhoBlocks
    <3>2. e[2] = u  BY <2>2, <3>1, WhoBlocksNext
    <3>3. <<t, u>> \in links /\ t \in dependents(u)  BY <3>1, <3>2 DEF LinksTyped, dependents
    <3>4. <<u, depth>> \in OnTheWay' => JobFinds(t)'  BY <2>2, <3>1, <3>2, <3>3 DEF JobFinds
    <3> QED BY <2>1, <2>3, <3>3, <3>4 DEF OnTheWay
  <2>6. (JobFinds(t) => JobFinds(t)') /\ (Counting(t) => Counting(t)')
    BY <2>2 DEF JobFinds, OnTheWay, Counting
  <2> QED BY <2>3, <2>4, <2>5, <2>6 DEF HasWord
<1>8. ASSUME NEW u \in LinkTasks, ReopenTask(u) \/ RestoreTask(u)
      PROVE  Goal
  <2>1. t \in held /\ (t \in lapsed \cup {u} => t \in lapsed')
    BY <1>8, WhoIsHeld DEF ReopenTask, RestoreTask
  <2>2. /\ UNCHANGED <<links, placed, linkers, events>>
        /\ \/ completed' = completed \ {u} /\ archived' = archived
           \/ archived' = archived \ {u} /\ completed' = completed
    BY <1>8 DEF ReopenTask, RestoreTask
  <2>3. ~ Blocked(t)  BY <2>2, WhoBlocks, WhoBlocksNext
  <2>4. CASE t = u  BY <2>1, <2>4
  <2>5. CASE t # u
    <3>1. HasWord(t)  BY <2>1, <2>2, <2>5 DEF WordInv
    <3>2. JobFinds(t) => JobFinds(t)'
      BY <2>2, WhoBlocksNext DEF JobFinds, OnTheWay, events
    <3>3. Counting(t) => Counting(t)'  BY <2>2 DEF Counting
    <3> QED BY <2>1, <2>3, <3>1, <3>2, <3>3 DEF HasWord
  <2> QED BY <2>4, <2>5
<1>9. ASSUME NEW u \in LinkTasks, ArchiveTask(u)
      PROVE  Goal
  <2>1. t \in held /\ (t \in lapsed \cup dependents(u) => t \in lapsed')
    BY <1>9, WhoIsHeld DEF ArchiveTask
  <2>2. UNCHANGED <<links, completed, placed, linkers, events>> /\ archived' = archived \cup {u}
    BY <1>9 DEF ArchiveTask
  <2>3. HasWord(t)  BY <2>1, <2>2 DEF WordInv
  <2>4. Blocked(t) => t \in lapsed'
    BY <2>1, <2>2, WhoBlocks, WhoBlocksNext DEF dependents
  <2>5. JobFinds(t) => JobFinds(t)' \/ t \in lapsed'
    <3> SUFFICES ASSUME NEW c \in OnTheWay, c[1] \in completed \ archived, <<t, c[1]>> \in links
                 PROVE  JobFinds(t)' \/ t \in lapsed'
      BY DEF JobFinds
    <3>1. CASE c[1] = u  BY <2>1, <3>1 DEF dependents
    <3>2. CASE c[1] # u  BY <2>2, <3>2 DEF JobFinds, OnTheWay, events
    <3> QED BY <3>1, <3>2
  <2>6. Counting(t) => Counting(t)'  BY <2>2 DEF Counting
  <2> QED BY <2>1, <2>3, <2>4, <2>5, <2>6 DEF HasWord
<1>10. ASSUME NEW c \in OnTheWay, Publish(c) \/ HearCompletion(c)
       PROVE  Goal
  <2>1. /\ UNCHANGED <<links, tasks, linkers>>
        /\ \/ Tell({}, {}) /\ OnTheWay \subseteq OnTheWay'
           \/ /\ OnTheWay \ {c} \subseteq OnTheWay'
              /\ Tell({}, freed(c[1])) \/ Tell(unblockedDependents(c[1]), {})
    BY <1>10 DEF Publish, HearCompletion, OnTheWay
  <2>2. t \in placed \ (completed \cup archived) /\ ~ Blocked(t)
    BY <2>1, WhoBlocks, WhoBlocksNext DEF tasks
  <2>3. t \in held /\ (t \in lapsed => t \in lapsed')  BY <2>1, WhoIsHeld
  <2>4. ASSUME c[1] \in completed \ archived, <<t, c[1]>> \in links
        PROVE  OnTheWay \subseteq OnTheWay' \/ t \in lapsed'
    <3>1. t \in freed(c[1]) /\ t \in unblockedDependents(c[1])
      BY <2>2, <2>4 DEF freed, unblockedDependents, dependents
    <3> QED BY <2>1, <3>1, WhoIsHeld
  <2>5. JobFinds(t) => JobFinds(t)' \/ t \in lapsed'  BY <2>1, <2>4 DEF JobFinds, tasks
  <2>6. Counting(t) => Counting(t)'  BY <2>1 DEF Counting
  <2> QED BY <2>1, <2>3, <2>5, <2>6, WordKept
<1>12. CASE UNCHANGED linkVars
  <2>1. UNCHANGED <<links, tasks, linkers, events, held, lapsed>>  BY <1>12 DEF linkVars
  <2>2. (JobFinds(t) => JobFinds(t)') /\ (Counting(t) => Counting(t)')
    BY <2>1 DEF JobFinds, OnTheWay, Counting, events, tasks
  <2> QED BY <2>1, <2>2, WordKept
<1>13. 0 \in 0 .. MaxDepth  BY LinkAssumption
<1> QED
  BY <1>1, <1>3, <1>5, <1>6, <1>7, <1>8, <1>9, <1>10, <1>12, <1>13 DEF LinksNext, OnTheWay

\* An open task in a project that was blocked and is free has been told, or a job or a
\* request is on its way to tell it, but for those the code says nothing to or whose word
\* was lost, for any number of tasks and of requests, workers' steps between them.
THEOREM TheFreedAreTold == LinksSpec => []FreedIsTold
<1>1. LinksInit => LinksTyped /\ WordInv
  BY LinksTypedInit DEF LinksInit, WordInv
<1>2. LinksTyped /\ WordInv /\ [LinksNext]_linkVars => (LinksTyped /\ WordInv)'
  BY LinksTypedStep, WordStep
<1>3. WordInv => FreedIsTold
  BY DEF WordInv, HasWord, JobFinds, OnTheWay, Counting, FreedIsTold
<1> QED BY <1>1, <1>2, <1>3, PTL DEF LinksSpec

=============================================================================
