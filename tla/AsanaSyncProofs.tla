--------------------------- MODULE AsanaSyncProofs ---------------------------
(***************************************************************************)
(* Asana sync makes one row of a record and loses sight of no change, for  *)
(* any number of records, hands, runs, switches, changes and faults.  Two  *)
(* chains of reasoning.  What the worker believes the refs to be is what   *)
(* they are, whatever it prepared earlier, so its hands make a row only    *)
(* where none is recorded; and two hands are at a new record only where    *)
(* crossed says so.  And whatever takes a change out of one place it waits *)
(* in puts it into another: the stream, the request, a queued run, the     *)
(* work in hand.  Whether a change waits must be known before the record   *)
(* is out of date here: a hand may be about to write an older version over *)
(* it.                                                                     *)
(***************************************************************************)
EXTENDS AsanaSync, SequenceTheorems, TLAPS

Version == [there : BOOLEAN, version : Nat]
Run == [status : {"none", "QUEUED", "RUNNING"}, job : BOOLEAN]
Pcs == {"idle", "run", "read", "full", "add", "clear", "apply"}
Worker == [pc : Pcs, run : RunIds \cup {Nothing}, known : [Records -> Nat],
           got : [Records -> Version] \cup {Nothing}, todo : SUBSET Records,
           full : BOOLEAN, reset : BOOLEAN]
Hand == [got : Version, at : {"read", "waits", "made"}, row : Nat]

SyncTyped ==
    /\ source \in [Records -> Version] /\ copies \in [Records -> Seq(Nat)] /\ refs \in [Records -> Nat]
    /\ stream \in {"none", "open", "lapsed"} /\ named \subseteq Records
    /\ sync \in [enabled : BOOLEAN, needsFull : BOOLEAN]
    /\ runs \in [RunIds -> Run] /\ imported \in BOOLEAN /\ importer \in Worker
    /\ DOMAIN hands \subseteq Records \X Records /\ \A h \in DOMAIN hands : hands[h] \in Hand
    /\ cache \in [Records -> Nat] \cup {Nothing} /\ stale \in BOOLEAN
    /\ missed \subseteq Records /\ orphaned \subseteq Records /\ crossed \subseteq Records
    /\ askLost \in BOOLEAN

Running == importer.pc = "run"
Applying == importer.pc = "apply"
Asking == importer.pc \in {"full", "add", "clear"}

\* What the worker holds, by where it is.
Placed ==
    /\ Running \/ importer.pc \in {"add", "clear"} <=> importer.run # Nothing
    /\ importer.reset => Asking
    /\ Running => /\ importer.got \in [Records -> Version]
                  /\ UnderWay(importer.run) => runs[importer.run].job
    /\ importer.pc = "add" => UnderWay(importer.run) /\ ~ runs[importer.run].job

\* What each of its hands holds.  A subtask that waits for its task, and is as it is in
\* Asana, will not wait in vain: the task is there.
Fitting(h) ==
    /\ Running \/ Applying
    /\ h[1] \notin importer.todo
    /\ Applying => hands[h].got.version <= source[h[2]].version
    /\ h[2] # h[1] => /\ Applying /\ h[2] = Parent[h[1]]
                      /\ <<h[1], h[1]>> \in DOMAIN hands /\ hands[<<h[1], h[1]>>].at = "waits"
    /\ hands[h].at = "waits" =>
        /\ Applying /\ h[2] = h[1] /\ hands[h].got.there /\ Parent[h[2]] # Nothing
        /\ hands[h].got = source[h[2]] =>
            \/ refs[Parent[h[2]]] # 0
            \/ <<h[1], Parent[h[2]]>> \in DOMAIN hands /\ hands[<<h[1], Parent[h[2]]>>].got.there
HandsFit == Nested /\ \A h \in DOMAIN hands : Fitting(h)

\* What the worker believes is so: while it works, and of what it kept.
KnownIsSo ==
    /\ importer.pc # "idle" => importer.known = refs
    /\ Running \/ Applying \/ cache = Nothing \/ stale \/ cache = refs

\* A ref names a row, and so does a hand that made one and has yet to record it.
Makes(h) == h \in DOMAIN hands /\ hands[h].at = "made"
RowsAreThere ==
    /\ \A r \in Records : refs[r] \in 0..Len(copies[r])
    /\ \A h \in DOMAIN hands : Makes(h) =>
        /\ hands[h].row \in 1..Len(copies[h[2]]) /\ hands[h].row # refs[h[2]]
        /\ copies[h[2]][hands[h].row] = hands[h].got.version
        /\ \A g \in At(h[2]) : Makes(g) /\ g # h => hands[g].row # hands[h].row

\* There is a row without a ref only between the two, and nobody else is then at the record.
Making(r) == \E h \in At(r) : Makes(h)
One(r) ==
    /\ Len(copies[r]) = IF refs[r] = 0 /\ ~ Making(r) THEN 0 ELSE 1
    /\ refs[r] = 0 => \A g, h \in At(r) : g = h
    /\ refs[r] # 0 => ~ Making(r)
OneRow == \A r \in Records \ (orphaned \cup crossed) : One(r)

\* Live sync that asks for no full run has a stream.
Streaming ==
    /\ Asking /\ ~ importer.reset => stream # "none"
    /\ sync.enabled /\ ~ askLost => sync.needsFull \/ stream # "none"

\* The places where a change to a record waits.
Told(r) == r \in named \/ stream = "lapsed" \/ r \in missed
Waiting == \E i \in RunIds : UnderWay(i) /\ runs[i].job /\ ~ (Running /\ importer.run = i)
Listed(r) == importer.got[r] = source[r] \/ ~ (importer.got[r].there \/ source[r].there)
Grasped(r) == \E h \in At(r) : hands[h].got = source[r]
Held(r) ==
    \/ Running /\ r \in importer.todo /\ Listed(r)
    \/ Applying /\ r \in importer.todo
    \/ Grasped(r)
    \/ importer.pc \in {"full", "add"}

Following == sync.enabled /\ ~ askLost
Changed == Following => \A r \in Unfetched : Told(r) \/ sync.needsFull \/ Waiting \/ Held(r)
\* What is about to be written from an older reading is known to be old.
Outdated == Following => \A r \in Records :
    /\ Running /\ r \in importer.todo => Listed(r) \/ Told(r) \/ sync.needsFull
    /\ \A h \in At(r) : hands[h].got = source[r] \/ Told(r) \/ sync.needsFull
\* The request is taken as met when something else stands for it.
Met == importer.pc = "clear" /\ ~ importer.reset => \A r \in Unfetched : Told(r) \/ Waiting

SyncInv == SyncTyped /\ Placed /\ HandsFit /\ KnownIsSo /\ RowsAreThere /\ OneRow /\ Streaming
           /\ Changed /\ Outdated /\ Met

-----------------------------------------------------------------------------
(* What the hands of the pool do.                                          *)

LEMMA HandTyped ==
    ASSUME SyncTyped, NEW h \in DOMAIN hands
    PROVE  h = <<h[1], h[2]>> /\ h[1] \in Records /\ h[2] \in Records /\ hands[h] \in Hand
BY DEF SyncTyped

\* Some let go of what they held.
Left(D) == DOMAIN hands' = DOMAIN hands \ D /\ \A g \in DOMAIN hands' : hands'[g] = hands[g]

LEMMA LeftIs == ASSUME NEW D, hands' = Without(D) PROVE Left(D)
BY DEF Left, Without

\* One takes hold of a record.
Joined(h) ==
    /\ h \notin DOMAIN hands /\ h = <<h[1], h[2]>> /\ h[1] \in Records /\ h[2] \in Records
    /\ DOMAIN hands' = DOMAIN hands \cup {h}
    /\ hands'[h] = [got |-> Fetched(h[2]), at |-> "read", row |-> 0] /\ Fetched(h[2]) \in Version
    /\ crossed \subseteq crossed' /\ crossed' \subseteq Records
    /\ h[2] \notin crossed' /\ refs[h[2]] = 0 => At(h[2]) = {}

LEMMA JoinedIs ==
    ASSUME SyncTyped, Placed, KnownIsSo, Running \/ Applying,
           NEW a \in Records, NEW b \in Records, <<a, b>> \notin DOMAIN hands,
           NEW held, DOMAIN held = DOMAIN hands, Holding(<<a, b>>, held)
    PROVE  Joined(<<a, b>>) /\ \A g \in DOMAIN hands : hands'[g] = held[g]
<1>1. Fetched(b) \in Version
  BY DEF SyncTyped, Placed, Fetched, Running
<1>2. importer.known = refs
  BY DEF KnownIsSo, Running, Applying
<1>3. /\ DOMAIN hands' = DOMAIN hands \cup {<<a, b>>} /\ \A g \in DOMAIN hands : hands'[g] = held[g]
      /\ hands'[<<a, b>>] = [got |-> Fetched(b), at |-> "read", row |-> 0]
  BY DEF Holding
<1>4. crossed' = IF refs[b] = 0 /\ At(b) # {} THEN crossed \cup {b} ELSE crossed
  BY <1>2 DEF Holding
<1> QED  BY <1>1, <1>3, <1>4 DEF Joined, SyncTyped

LEMMA Takes ==
    ASSUME SyncTyped, Placed, HandsFit, KnownIsSo, NEW r \in Records, TakeUp(r)
    PROVE  /\ r \in importer.todo /\ importer'.todo = importer.todo \ {r}
           /\ \/ LeftAlone(r) /\ UNCHANGED <<hands, crossed>>
              \/ /\ ~ LeftAlone(r) /\ Joined(<<r, r>>)
                 /\ \A g \in DOMAIN hands : hands'[g] = hands[g]
<1>1. r \in importer.todo /\ importer' = [importer EXCEPT !.todo = importer.todo \ {r}]
  BY DEF TakeUp
<1>2. importer'.todo = importer.todo \ {r}
  BY <1>1 DEF SyncTyped, Worker
<1>3. CASE LeftAlone(r)
  BY <1>1, <1>2, <1>3 DEF TakeUp
<1>4. CASE ~ LeftAlone(r)
  <2>1. <<r, r>> \notin DOMAIN hands
    BY <1>1 DEF HandsFit, Fitting
  <2>2. Holding(<<r, r>>, hands) /\ (Running \/ Applying)
    BY <1>4 DEF TakeUp, Running, Applying
  <2>3. Joined(<<r, r>>) /\ \A g \in DOMAIN hands : hands'[g] = hands[g]
    BY <2>1, <2>2, JoinedIs
  <2> QED  BY <1>1, <1>2, <1>4, <2>3
<1> QED  BY <1>3, <1>4

LEMMA Brings ==
    ASSUME SyncTyped, Placed, HandsFit, KnownIsSo, NEW h \in DOMAIN hands, BringTask(h)
    PROVE  /\ Applying /\ hands[h].at = "read" /\ ~ Placeable(h) /\ h[2] = h[1]
           /\ hands[h].got.there /\ Parent[h[2]] \in Records /\ Parent[h[2]] # h[1]
           /\ Joined(<<h[1], Parent[h[2]]>>) /\ Fetched(Parent[h[2]]) = source[Parent[h[2]]]
           /\ hands'[h] = [hands[h] EXCEPT !.at = "waits"]
           /\ \A g \in DOMAIN hands \ {h} : hands'[g] = hands[g]
<1>1. Applying /\ hands[h].at = "read" /\ ~ Placeable(h) /\ hands[h].got.there /\ Parent[h[2]] # Nothing
  BY DEF BringTask, Placeable, Applying
<1>2. h = <<h[1], h[2]>> /\ h[1] \in Records /\ h[2] \in Records /\ Parent[h[2]] \in Records
  BY <1>1, HandTyped, SyncAssumption
<1>3. h[2] = h[1]
  BY <1>1, <1>2, SyncAssumption DEF HandsFit, Fitting
<1>4. Parent[h[2]] # h[1]
  BY <1>1, <1>2, <1>3, SyncAssumption
<1>5. <<h[1], Parent[h[2]]>> \notin DOMAIN hands
  <2> SUFFICES ASSUME <<h[1], Parent[h[2]]>> \in DOMAIN hands PROVE FALSE
    OBVIOUS
  <2>1. Fitting(<<h[1], Parent[h[2]]>>)
    BY DEF HandsFit
  <2>2. hands[<<h[1], h[1]>>].at = "waits"
    BY <1>4, <2>1 DEF Fitting
  <2> QED  BY <1>1, <1>2, <1>3, <2>2
<1>6. PICK held : held = [hands EXCEPT ![h].at = "waits"]
  OBVIOUS
<1>7. DOMAIN held = DOMAIN hands /\ held[h] = [hands[h] EXCEPT !.at = "waits"]
      /\ \A g \in DOMAIN hands \ {h} : held[g] = hands[g]
  BY <1>6
<1>8. Joined(<<h[1], Parent[h[2]]>>) /\ \A g \in DOMAIN hands : hands'[g] = held[g]
  <2>1. Holding(<<h[1], Parent[h[2]]>>, held)
    BY <1>6 DEF BringTask
  <2>2. PICK b \in Records : b = Parent[h[2]]
    BY <1>2
  <2> QED  BY <1>1, <1>2, <1>5, <1>7, <2>1, <2>2, JoinedIs
<1>9. Fetched(Parent[h[2]]) = source[Parent[h[2]]]
  BY <1>1 DEF Fetched, Applying
<1> QED  BY <1>1, <1>2, <1>3, <1>4, <1>7, <1>8, <1>9

\* Writing a record updates its row, makes one, or finds nothing to archive.
Updates(h) ==
    /\ refs[h[2]] # 0 /\ Left({h})
    /\ Len(copies'[h[2]]) = Len(copies[h[2]]) /\ copies'[h[2]][refs[h[2]]] = hands[h].got.version
    /\ \A i \in 1..Len(copies[h[2]]) : i # refs[h[2]] => copies'[h[2]][i] = copies[h[2]][i]
Inserts(h) ==
    /\ refs[h[2]] = 0 /\ DOMAIN hands' = DOMAIN hands
    /\ hands'[h] = [hands[h] EXCEPT !.at = "made", !.row = Len(copies[h[2]]) + 1]
    /\ \A g \in DOMAIN hands \ {h} : hands'[g] = hands[g]
    /\ Len(copies'[h[2]]) = Len(copies[h[2]]) + 1
    /\ copies'[h[2]][Len(copies[h[2]]) + 1] = hands[h].got.version
    /\ \A i \in 1..Len(copies[h[2]]) : copies'[h[2]][i] = copies[h[2]][i]
Neither(h) == refs[h[2]] = 0 /\ ~ hands[h].got.there /\ copies' = copies /\ Left({h})

LEMMA Writes ==
    ASSUME SyncTyped, HandsFit, KnownIsSo, RowsAreThere, NEW h \in DOMAIN hands, Write(h)
    PROVE  /\ hands[h].at \in {"read", "waits"} /\ Brought(h) /\ Placeable(h)
           /\ importer' = importer /\ UNCHANGED <<refs, marks>>
           /\ copies' \in [Records -> Seq(Nat)] /\ \A q \in Records \ {h[2]} : copies'[q] = copies[q]
           /\ Updates(h) \/ Inserts(h) \/ Neither(h)
           /\ missed \ {h[2]} \subseteq missed' /\ missed' \subseteq missed
           /\ missed' = missed \/ (hands[h].got = source[h[2]] /\ At(h[2]) = {h})
<1>1. h[2] \in Records /\ hands[h] \in Hand
  BY HandTyped
<1>2. importer.known = refs
  BY DEF HandsFit, Fitting, KnownIsSo, Running, Applying
<1>3. /\ hands[h].at \in {"read", "waits"} /\ Brought(h) /\ Placeable(h)
      /\ importer' = importer /\ UNCHANGED <<refs, marks>>
      /\ missed \ {h[2]} \subseteq missed' /\ missed' \subseteq missed
      /\ missed' = missed \/ (hands[h].got = source[h[2]] /\ At(h[2]) = {h})
  BY DEF Write
<1>4. PICK v \in Nat : v = hands[h].got.version
  BY <1>1 DEF Hand, Version
<1>5. PICK n \in Nat : n = Len(copies[h[2]]) /\ refs[h[2]] \in 0..n
  BY <1>1 DEF SyncTyped, RowsAreThere
<1>6. PICK old \in Seq(Nat) : old = copies[h[2]]
  BY <1>1 DEF SyncTyped
<1>7. CASE refs[h[2]] # 0
  <2>1. copies' = [copies EXCEPT ![h[2]][refs[h[2]]] = v] /\ Left({h})
    BY <1>2, <1>4, <1>7, LeftIs DEF Write, Known
  <2>2. PICK new : new = [old EXCEPT ![refs[h[2]]] = v]
    OBVIOUS
  <2>3. /\ new \in Seq(Nat) /\ Len(new) = n /\ new[refs[h[2]]] = v
        /\ \A i \in 1..n : i # refs[h[2]] => new[i] = old[i]
    <3>1. refs[h[2]] \in 1..Len(old)
      BY <1>5, <1>6, <1>7
    <3> QED  BY <1>4, <1>5, <1>6, <2>2, <3>1, ExceptSeq
  <2>4. copies' = [copies EXCEPT ![h[2]] = new]
    BY <1>6, <2>1, <2>2
  <2>5. copies' \in [Records -> Seq(Nat)] /\ copies'[h[2]] = new /\ \A q \in Records \ {h[2]} : copies'[q] = copies[q]
    BY <1>1, <2>3, <2>4 DEF SyncTyped
  <2> QED  BY <1>3, <1>4, <1>5, <1>6, <1>7, <2>1, <2>3, <2>5 DEF Updates
<1>8. CASE refs[h[2]] = 0 /\ hands[h].got.there
  <2>1. /\ copies' = [copies EXCEPT ![h[2]] = Append(copies[h[2]], v)]
        /\ hands' = [hands EXCEPT ![h].at = "made", ![h].row = n + 1]
    BY <1>2, <1>4, <1>5, <1>8 DEF Write, Known
  <2>2. PICK new : new = Append(old, v)
    OBVIOUS
  <2>3. new \in Seq(Nat) /\ Len(new) = n + 1 /\ new[n + 1] = v /\ \A i \in 1..n : new[i] = old[i]
    BY <1>4, <1>5, <1>6, <2>2, AppendProperties
  <2>4. copies' = [copies EXCEPT ![h[2]] = new]
    BY <1>6, <2>1, <2>2
  <2>5. copies' \in [Records -> Seq(Nat)] /\ copies'[h[2]] = new /\ \A q \in Records \ {h[2]} : copies'[q] = copies[q]
    BY <1>1, <2>3, <2>4 DEF SyncTyped
  <2>6. /\ DOMAIN hands' = DOMAIN hands /\ hands'[h] = [hands[h] EXCEPT !.at = "made", !.row = n + 1]
        /\ \A g \in DOMAIN hands \ {h} : hands'[g] = hands[g]
    BY <2>1
  <2> QED  BY <1>3, <1>4, <1>5, <1>6, <1>8, <2>3, <2>5, <2>6 DEF Inserts
<1>9. CASE refs[h[2]] = 0 /\ ~ hands[h].got.there
  <2>1. copies' = copies /\ Left({h})
    BY <1>2, <1>9, LeftIs DEF Write, Known
  <2> QED  BY <1>3, <1>9, <2>1 DEF SyncTyped, Neither
<1> QED  BY <1>7, <1>8, <1>9

LEMMA Remembers ==
    ASSUME SyncTyped, HandsFit, KnownIsSo, NEW h \in DOMAIN hands, Remember(h)
    PROVE  /\ Makes(h) /\ hands[h].row \in Nat /\ Left({h}) /\ UNCHANGED <<copies, marks, missed>>
           /\ refs' \in [Records -> Nat] /\ refs'[h[2]] = hands[h].row
           /\ \A q \in Records \ {h[2]} : refs'[q] = refs[q]
           /\ importer'.known = refs'
<1>1. h[2] \in Records /\ hands[h] \in Hand
  BY HandTyped
<1>2. importer.known = refs
  BY DEF HandsFit, Fitting, KnownIsSo, Running, Applying
<1>3. PICK n \in Nat : n = hands[h].row
  BY <1>1 DEF Hand
<1>4. PICK new : new = [refs EXCEPT ![h[2]] = n]
  OBVIOUS
<1>5. refs' = new /\ new \in [Records -> Nat] /\ new[h[2]] = n /\ \A q \in Records \ {h[2]} : new[q] = refs[q]
  BY <1>1, <1>3, <1>4 DEF Remember, SyncTyped
<1>6. importer'.known = new
  <2>1. importer' = [importer EXCEPT !.known = [importer.known EXCEPT ![h[2]] = n]]
    BY <1>3 DEF Remember
  <2> QED  BY <1>2, <1>4, <2>1 DEF SyncTyped, Worker
<1>7. Left({h}) /\ UNCHANGED <<copies, marks, missed>> /\ Makes(h)
  BY LeftIs DEF Remember, Makes
<1> QED  BY <1>3, <1>5, <1>6, <1>7

LEMMA LeavesOut == ASSUME NEW h, LeaveOut(h) PROVE
    /\ hands[h].at = "waits" /\ Brought(h) /\ ~ Placeable(h) /\ Left({h})
    /\ UNCHANGED <<copies, refs, marks, importer, missed>>
BY LeftIs DEF LeaveOut

\* The records a slot holds, and, in a run, the subtasks that would come after.
HeldBy(slot) == {h \in DOMAIN hands : h[1] = slot}

LEMMA Fails ==
    ASSUME SyncTyped, NEW slot, Fail(slot)
    PROVE  /\ Left(HeldBy(slot)) /\ UNCHANGED <<copies, refs, crossed>>
           /\ importer'.todo \subseteq importer.todo /\ importer.todo \ importer'.todo \subseteq missed'
           /\ ~ Running => importer'.todo = importer.todo
           /\ importer'.known = importer.known
           /\ missed \subseteq missed' /\ missed' \subseteq Records
           /\ orphaned \subseteq orphaned' /\ orphaned' \subseteq Records
           /\ \A h \in HeldBy(slot) : h[2] \in missed' /\ (Makes(h) => h[2] \in orphaned')
<1> DEFINE below == IF importer.pc # "run" THEN {}
                    ELSE {c \in Subtasks(slot) \cap importer.todo : importer.got[c].there}
<1>1. /\ hands' = Without(HeldBy(slot)) /\ importer' = [importer EXCEPT !.todo = importer.todo \ below]
      /\ missed' = missed \cup {h[2] : h \in HeldBy(slot)} \cup below
      /\ orphaned' = orphaned \cup Made(HeldBy(slot)) /\ UNCHANGED <<copies, refs, crossed>>
  BY DEF Fail, HeldBy
<1>2. Left(HeldBy(slot))
  BY <1>1, LeftIs
<1>3. below \subseteq importer.todo /\ (~ Running => below = {})
  BY DEF Running
<1>4. importer'.todo = importer.todo \ below /\ importer'.known = importer.known /\ importer.todo \subseteq Records
  BY <1>1 DEF SyncTyped, Worker
<1>5. \A h \in HeldBy(slot) : h[2] \in Records
  BY HandTyped DEF HeldBy
<1>6. Made(HeldBy(slot)) \subseteq Records /\ \A h \in HeldBy(slot) : Makes(h) => h[2] \in Made(HeldBy(slot))
  BY <1>5 DEF Made, Makes
<1> HIDE DEF below
<1> QED  BY <1>1, <1>2, <1>3, <1>4, <1>5, <1>6 DEF SyncTyped

\* What all of them leave as it is.
LEMMA PoolFrame ==
    ASSUME SyncTyped, HandsFit, KnownIsSo, Pool \/ \E slot \in Slots : Fail(slot)
    PROVE  /\ Running \/ Applying
           /\ UNCHANGED <<asana, sync, runs, imported, cache, stale, switches, askLost>>
           /\ importer' \in Worker
           /\ importer'.pc = importer.pc /\ importer'.run = importer.run /\ importer'.got = importer.got
           /\ importer'.reset = importer.reset /\ importer'.todo \subseteq importer.todo
<1>0. importer \in Worker
  BY DEF SyncTyped
<1>1. ASSUME NEW r \in Records, TakeUp(r)
      PROVE  /\ Running \/ Applying
             /\ UNCHANGED <<asana, sync, runs, imported, cache, stale, switches, askLost>>
             /\ importer' = [importer EXCEPT !.todo = importer.todo \ {r}]
  BY <1>1 DEF TakeUp, Running, Applying
<1>2. ASSUME NEW h \in DOMAIN hands PROVE Running \/ Applying
  BY <1>2 DEF HandsFit, Fitting
<1>3. ASSUME NEW h \in DOMAIN hands, BringTask(h) \/ LeaveOut(h) \/ Write(h)
      PROVE  UNCHANGED <<asana, sync, runs, imported, cache, stale, switches, askLost>> /\ importer' = importer
  BY <1>3 DEF BringTask, LeaveOut, Write, marks
<1>4. ASSUME NEW h \in DOMAIN hands, Remember(h)
      PROVE  /\ UNCHANGED <<asana, sync, runs, imported, cache, stale, switches, askLost>>
             /\ \E known \in [Records -> Nat] : importer' = [importer EXCEPT !.known = known]
  <2>1. PICK n \in Nat : n = hands[h].row
    BY HandTyped DEF Hand
  <2>2. PICK known : known = [importer.known EXCEPT ![h[2]] = n]
    OBVIOUS
  <2>3. known \in [Records -> Nat]
    BY <1>0, <2>2, HandTyped DEF Worker
  <2> QED  BY <1>4, <2>1, <2>2, <2>3 DEF Remember, marks
<1>5. ASSUME NEW slot \in Slots, Fail(slot)
      PROVE  /\ Running \/ Applying
             /\ UNCHANGED <<asana, sync, runs, imported, cache, stale, switches, askLost>>
             /\ \E below : importer' = [importer EXCEPT !.todo = importer.todo \ below]
  <2>1. Running \/ Applying
    BY <1>2 DEF Slots
  <2> QED  BY <1>5, <2>1 DEF Fail
<1>6. ASSUME NEW below, importer' = [importer EXCEPT !.todo = importer.todo \ below]
      PROVE  /\ importer' \in Worker
             /\ importer'.pc = importer.pc /\ importer'.run = importer.run /\ importer'.got = importer.got
             /\ importer'.reset = importer.reset /\ importer'.todo \subseteq importer.todo
  BY <1>0, <1>6 DEF Worker
<1>7. ASSUME NEW known \in [Records -> Nat], importer' = [importer EXCEPT !.known = known]
      PROVE  /\ importer' \in Worker
             /\ importer'.pc = importer.pc /\ importer'.run = importer.run /\ importer'.got = importer.got
             /\ importer'.reset = importer.reset /\ importer'.todo \subseteq importer.todo
  BY <1>0, <1>7 DEF Worker
<1>8. CASE \E r \in Records : TakeUp(r)
  BY <1>1, <1>6, <1>8
<1>9. ASSUME NEW h \in DOMAIN hands, Handle(h) PROVE
           /\ Running \/ Applying
           /\ UNCHANGED <<asana, sync, runs, imported, cache, stale, switches, askLost>>
           /\ importer' \in Worker
           /\ importer'.pc = importer.pc /\ importer'.run = importer.run /\ importer'.got = importer.got
           /\ importer'.reset = importer.reset /\ importer'.todo \subseteq importer.todo
  BY <1>0, <1>2, <1>3, <1>4, <1>7, <1>9 DEF Handle
<1>10. CASE \E slot \in Slots : Fail(slot)
  BY <1>5, <1>6, <1>10
<1> QED  BY <1>8, <1>9, <1>10 DEF Pool

-----------------------------------------------------------------------------
(* Types.                                                                  *)

\* The worker's record, wherever it is sent.
LEMMA WorkerIdle == Idle \in Worker
BY DEF Idle, Worker, Pcs, NoRefs

\* A change in Asana is to the record, or to it and its subtasks, and is told or dropped.
Struck(r, there) == IF there THEN {r} ELSE {r} \cup {c \in Subtasks(r) : source[c].there}

LEMMA SourceChanges ==
    ASSUME NEW r \in Records, SourceChange(r)
    PROVE  \E there \in BOOLEAN :
           /\ Struck(r, there) \subseteq Records
           /\ there /\ Parent[r] # Nothing => source[Parent[r]].there
           /\ source' = [q \in Records |-> IF q \notin Struck(r, there) THEN source[q]
                                           ELSE [there |-> there, version |-> source[q].version + 1]]
           /\ named \subseteq named' /\ named' \subseteq named \cup Struck(r, there)
           /\ missed \subseteq missed' /\ missed' \subseteq missed \cup Struck(r, there)
           /\ stream = "open" => Struck(r, there) \subseteq named' \/ Struck(r, there) \subseteq missed'
           /\ UNCHANGED <<stream, local, sync, runs, imported, importer, cache, stale, switches>>
<1>1. PICK there \in BOOLEAN :
        /\ there /\ Parent[r] # Nothing => source[Parent[r]].there
        /\ source' = [q \in Records |-> IF q \notin Struck(r, there) THEN source[q]
                                        ELSE [there |-> there, version |-> source[q].version + 1]]
        /\ \/ named' = (IF stream = "open" THEN named \cup Struck(r, there) ELSE named) /\ missed' = missed
           \/ named' = named /\ missed' = missed \cup Struck(r, there)
        /\ UNCHANGED <<stream, local, sync, runs, imported, importer, cache, stale, switches>>
  BY DEF SourceChange, Struck
<1>2. Struck(r, there) \subseteq Records
  BY <1>1 DEF Subtasks, Struck
<1> QED  BY <1>1, <1>2

\* The actions of Asana and of people, and the closing of runs.
LEMMA TypedOutside ==
    ASSUME SyncTyped,
           \/ \E r \in Records : SourceChange(r)
           \/ \E i \in RunIds : AskRun(i) \/ CloseDeadRun(i) \/ CloseLateRun(i)
           \/ TokenLapses \/ SwitchOn \/ SwitchOff \/ RequestNightlyRuns
    PROVE  SyncTyped'
<1>1. ASSUME NEW r \in Records, SourceChange(r) PROVE SyncTyped'
  <2>1. PICK there \in BOOLEAN :
            /\ source' = [q \in Records |-> IF q \notin Struck(r, there) THEN source[q]
                                            ELSE [there |-> there, version |-> source[q].version + 1]]
            /\ named' \subseteq named \cup Struck(r, there) /\ missed' \subseteq missed \cup Struck(r, there)
            /\ Struck(r, there) \subseteq Records
    BY <1>1, SourceChanges
  <2>2. source' \in [Records -> Version]
    BY <2>1 DEF SyncTyped, Version
  <2>3. named' \subseteq Records /\ missed' \subseteq Records
    BY <2>1 DEF SyncTyped
  <2> QED  BY <1>1, <2>2, <2>3 DEF SyncTyped, SourceChange, local, marks
<1>2. ASSUME NEW i \in RunIds, AskRun(i) \/ CloseDeadRun(i) \/ CloseLateRun(i) PROVE SyncTyped'
  <2>1. NoRun \in Run /\ [status |-> "QUEUED", job |-> TRUE] \in Run
    BY DEF Run, NoRun
  <2>2. PICK row \in Run : runs' = [runs EXCEPT ![i] = row]
    BY <1>2, <2>1 DEF AskRun, CloseDeadRun, CloseLateRun, CloseRun
  <2>3. runs' \in [RunIds -> Run]
    BY <2>2 DEF SyncTyped
  <2>4. missed' \subseteq Records /\ imported' \in BOOLEAN /\ stale' \in BOOLEAN
    BY <1>2 DEF SyncTyped, Unfetched, AskRun, CloseDeadRun, CloseLateRun, CloseRun
  <2> QED  BY <1>2, <2>3, <2>4 DEF SyncTyped, AskRun, CloseDeadRun, CloseLateRun, CloseRun, asana, local, marks
<1>3. CASE SwitchOff
  <2>1. PICK reset \in BOOLEAN : reset <=> importer.pc \in {"full", "add", "clear"}
    <3>1. CASE importer.pc \in {"full", "add", "clear"}
      BY <3>1
    <3>2. CASE importer.pc \notin {"full", "add", "clear"}
      BY <3>2
    <3> QED  BY <3>1, <3>2
  <2>2. importer' = [importer EXCEPT !.reset = reset]
    BY <1>3, <2>1 DEF SwitchOff
  <2>3. importer' \in Worker
    BY <2>2 DEF SyncTyped, Worker
  <2> QED  BY <1>3, <2>3 DEF SyncTyped, SwitchOff, local, marks
<1>4. CASE TokenLapses
  BY <1>4 DEF SyncTyped, TokenLapses, local, marks
<1>5. CASE SwitchOn
  BY <1>5 DEF SyncTyped, SwitchOn, asana, local, marks
<1>6. CASE RequestNightlyRuns
  BY <1>6 DEF SyncTyped, RequestNightlyRuns, nightly, asana, local, marks
<1> QED  BY <1>1, <1>2, <1>3, <1>4, <1>5, <1>6

\* Those of the pool.
LEMMA TypedPool ==
    ASSUME SyncTyped, Placed, HandsFit, KnownIsSo, RowsAreThere, Pool \/ \E slot \in Slots : Fail(slot)
    PROVE  SyncTyped'
<1> USE DEF asana, marks
<1>0. /\ UNCHANGED <<asana, sync, runs, imported, cache, stale, switches, askLost>>
      /\ importer' \in Worker /\ (Running \/ Applying)
  BY PoolFrame
<1>1. ASSUME copies' \in [Records -> Seq(Nat)], refs' \in [Records -> Nat],
             DOMAIN hands' \subseteq Records \X Records, \A h \in DOMAIN hands' : hands'[h] \in Hand,
             missed' \subseteq Records, orphaned' \subseteq Records, crossed' \subseteq Records
      PROVE  SyncTyped'
  BY <1>0, <1>1 DEF SyncTyped
<1>2. ASSUME NEW D, Left(D)
      PROVE  DOMAIN hands' \subseteq Records \X Records /\ \A h \in DOMAIN hands' : hands'[h] \in Hand
  BY <1>2 DEF Left, SyncTyped
<1>3. ASSUME NEW h, Joined(h), \A g \in DOMAIN hands : hands'[g] \in Hand
      PROVE  DOMAIN hands' \subseteq Records \X Records /\ \A g \in DOMAIN hands' : hands'[g] \in Hand
  BY <1>3 DEF Joined, SyncTyped, Hand
<1>4. ASSUME NEW r \in Records, TakeUp(r) PROVE SyncTyped'
  <2>1. UNCHANGED <<copies, refs, missed, orphaned>>
    BY <1>4 DEF TakeUp
  <2>2. CASE UNCHANGED <<hands, crossed>>
    BY <1>1, <2>1, <2>2 DEF SyncTyped
  <2>3. CASE Joined(<<r, r>>) /\ \A g \in DOMAIN hands : hands'[g] = hands[g]
    BY <1>1, <1>3, <2>1, <2>3 DEF SyncTyped, Joined
  <2> QED  BY <1>4, <2>2, <2>3, Takes
<1>5. ASSUME NEW h \in DOMAIN hands, BringTask(h) PROVE SyncTyped'
  <2>1. UNCHANGED <<copies, refs, missed, orphaned>>
    BY <1>5 DEF BringTask
  <2>2. PICK k : k = <<h[1], Parent[h[2]]>>
    OBVIOUS
  <2>3. Joined(k) /\ hands'[h] = [hands[h] EXCEPT !.at = "waits"] /\ \A g \in DOMAIN hands \ {h} : hands'[g] = hands[g]
    BY <1>5, <2>2, Brings
  <2>4. \A g \in DOMAIN hands : hands'[g] \in Hand
    <3>1. PICK old \in Hand : old = hands[h]
      BY DEF SyncTyped
    <3>2. [old EXCEPT !.at = "waits"] \in Hand
      BY DEF Hand
    <3> QED  BY <2>3, <3>1, <3>2 DEF SyncTyped
  <2> QED  BY <1>1, <1>3, <2>1, <2>3, <2>4 DEF SyncTyped, Joined
<1>6. ASSUME NEW h \in DOMAIN hands, Write(h) PROVE SyncTyped'
  <2>1. /\ copies' \in [Records -> Seq(Nat)] /\ UNCHANGED <<refs, orphaned, crossed>> /\ missed' \subseteq missed
        /\ Updates(h) \/ Inserts(h) \/ Neither(h)
    BY <1>6, Writes
  <2>2. DOMAIN hands' \subseteq Records \X Records /\ \A g \in DOMAIN hands' : hands'[g] \in Hand
    <3>1. CASE Updates(h) \/ Neither(h)
      BY <1>2, <3>1 DEF Updates, Neither
    <3>2. CASE Inserts(h)
      <4>1. Len(copies[h[2]]) + 1 \in Nat
        BY HandTyped DEF SyncTyped
      <4>2. PICK old \in Hand : old = hands[h]
        BY DEF SyncTyped
      <4>3. [old EXCEPT !.at = "made", !.row = Len(copies[h[2]]) + 1] \in Hand
        BY <4>1 DEF Hand
      <4> QED  BY <3>2, <4>2, <4>3 DEF Inserts, SyncTyped
    <3> QED  BY <2>1, <3>1, <3>2
  <2> QED  BY <1>1, <2>1, <2>2 DEF SyncTyped
<1>7. ASSUME NEW h \in DOMAIN hands, LeaveOut(h) \/ Remember(h) PROVE SyncTyped'
  <2>1. Left({h}) /\ UNCHANGED <<copies, orphaned, crossed, missed>> /\ refs' \in [Records -> Nat]
    BY <1>7, LeavesOut, Remembers DEF SyncTyped
  <2> QED  BY <1>1, <1>2, <2>1 DEF SyncTyped
<1>8. ASSUME NEW slot, Fail(slot) PROVE SyncTyped'
  BY <1>1, <1>2, <1>8, Fails DEF SyncTyped
<1> QED  BY <1>4, <1>5, <1>6, <1>7, <1>8 DEF Pool, Handle

\* What a process that stops leaves to the night.
LEMMA KillMisses ==
    ASSUME SyncTyped, Kill
    PROVE  /\ missed \subseteq missed' /\ missed' \subseteq Records
           /\ Applying => importer.todo \subseteq missed' /\ \A h \in DOMAIN hands : h[2] \in missed'
           /\ importer.pc \in {"full", "add"} => sync.needsFull \/ Unfetched \subseteq missed'
           /\ Running => UnderWay(importer.run) \/ Unfetched \subseteq missed'
<1> DEFINE more == CASE importer.pc = "apply" -> importer.todo \cup {h[2] : h \in DOMAIN hands}
                     [] importer.pc \in {"full", "add"} /\ ~ sync.needsFull -> Unfetched
                     [] importer.pc = "run" /\ ~ UnderWay(importer.run) -> Unfetched
                     [] OTHER -> {}
<1>1. missed' = missed \cup more
  BY DEF Kill
<1>2. Applying => more = importer.todo \cup {h[2] : h \in DOMAIN hands}
  BY DEF Applying
<1>3. importer.pc \in {"full", "add"} => sync.needsFull \/ more = Unfetched
  OBVIOUS
<1>4. Running => UnderWay(importer.run) \/ more = Unfetched
  BY DEF Running
<1>5. more \subseteq Records
  <2>1. {h[2] : h \in DOMAIN hands} \subseteq Records /\ importer.todo \subseteq Records /\ Unfetched \subseteq Records
    BY HandTyped DEF SyncTyped, Worker, Unfetched
  <2>2. more = importer.todo \cup {h[2] : h \in DOMAIN hands} \/ more = Unfetched \/ more = {}
    OBVIOUS
  <2> HIDE DEF more
  <2> QED  BY <2>1, <2>2
<1> HIDE DEF more
<1> QED  BY <1>1, <1>2, <1>3, <1>4, <1>5 DEF SyncTyped

\* A run, a tick, and a process that stops.
LEMMA TypedWork ==
    ASSUME SyncTyped, Placed,
           (\E i \in RunIds : TakeRun(i)) \/ FinishRun \/ FailRun \/ Kill \/ Tick
    PROVE  SyncTyped'
<1> USE WorkerIdle
<1>1. ASSUME NEW i \in RunIds, TakeRun(i) PROVE SyncTyped'
  <2>1. importer' \in Worker
    <3>1. PICK todo \in SUBSET Records : todo = {r \in Records : source[r].there \/ refs[r] # 0}
      OBVIOUS
    <3> QED  BY <1>1, <3>1 DEF SyncTyped, TakeRun, Worker, Idle, Pcs
  <2>2. runs' \in [RunIds -> Run]
    BY <1>1 DEF SyncTyped, TakeRun, Run
  <2> QED  BY <1>1, <2>1, <2>2 DEF SyncTyped, TakeRun, asana, local, marks
<1>2. CASE FinishRun \/ FailRun
  <2>1. runs' = [runs EXCEPT ![importer.run] = NoRun] /\ runs \in [RunIds -> Run] /\ NoRun \in Run
    BY <1>2 DEF SyncTyped, FinishRun, FailRun, Run, NoRun
  <2>2. runs' \in [RunIds -> Run]
    BY <2>1
  <2>3. missed' \subseteq Records
    BY <1>2 DEF SyncTyped, FinishRun, FailRun, Unfetched
  <2> QED  BY <1>2, <2>2, <2>3 DEF SyncTyped, FinishRun, FailRun, preparedAgain, asana, local, marks
<1>3. CASE Kill
  <2>1. missed' \subseteq Records
    BY <1>3, KillMisses
  <2>2. orphaned' \subseteq Records /\ DOMAIN hands' = {}
    BY <1>3, HandTyped DEF SyncTyped, Kill, Made
  <2> QED  BY <1>3, <2>1, <2>2 DEF SyncTyped, Kill, asana
<1>4. CASE StartTick
  <2>1. PICK known \in [Records -> Nat] : known = IF cache = Nothing \/ stale THEN refs ELSE cache
    BY DEF SyncTyped
  <2>2. importer' = [Idle EXCEPT !.pc = "read", !.full = sync.needsFull, !.known = known]
    BY <1>4, <2>1 DEF StartTick
  <2>3. importer' \in Worker /\ importer'.known \in [Records -> Nat]
    BY <2>2 DEF SyncTyped, Worker, Idle, Pcs
  <2> QED  BY <1>4, <2>3 DEF SyncTyped, StartTick, asana, local, marks
<1>5. CASE ReadStream
  <2>1. importer' \in Worker
    BY <1>5 DEF SyncTyped, ReadStream, Worker, Pcs
  <2> QED  BY <1>5, <2>1 DEF SyncTyped, ReadStream, local, marks
<1>6. ASSUME NEW i \in RunIds, CreateRun(i) PROVE SyncTyped'
  <2>1. importer' \in Worker
    BY <1>6 DEF SyncTyped, CreateRun, Worker, Pcs
  <2>2. runs' \in [RunIds -> Run]
    BY <1>6 DEF SyncTyped, CreateRun, Run
  <2> QED  BY <1>6, <2>1, <2>2 DEF SyncTyped, CreateRun, asana, local, marks
<1>7. CASE AddJob
  <2>1. importer' \in Worker
    <3>1. [importer EXCEPT !.pc = "clear"] \in Worker
      BY DEF SyncTyped, Worker, Pcs
    <3> QED  BY <1>7, <3>1 DEF AddJob
  <2>2. runs' \in [RunIds -> Run]
    <3>1. importer.run \in RunIds
      BY <1>7 DEF SyncTyped, Placed, AddJob, Worker
    <3>2. PICK queued \in Run : queued = [runs[importer.run] EXCEPT !.job = TRUE]
      BY <3>1 DEF SyncTyped, Run
    <3>3. runs' = runs \/ runs' = [runs EXCEPT ![importer.run] = queued]
      BY <1>7, <3>2 DEF AddJob
    <3> QED  BY <3>1, <3>3 DEF SyncTyped
  <2>3. missed' \subseteq Records
    BY <1>7 DEF SyncTyped, AddJob, Unfetched
  <2> QED  BY <1>7, <2>1, <2>2, <2>3 DEF SyncTyped, AddJob, asana, local, marks
<1>8. CASE ClearRequest
  BY <1>8 DEF SyncTyped, ClearRequest, asana
<1>9. CASE EndTick
  BY <1>9 DEF SyncTyped, EndTick, Worker, asana, local, marks
<1> QED  BY <1>1, <1>2, <1>3, <1>4, <1>5, <1>6, <1>7, <1>8, <1>9 DEF Tick

LEMMA SyncTypedStep == SyncInv /\ [AsanaNext]_svars => SyncTyped'
<1> SUFFICES ASSUME SyncInv, [AsanaNext]_svars PROVE SyncTyped'
  OBVIOUS
<1>1. SyncTyped /\ Placed /\ HandsFit /\ KnownIsSo /\ RowsAreThere
  BY DEF SyncInv
<1>2. CASE UNCHANGED svars
  BY <1>1, <1>2 DEF svars, asana, local, marks, SyncTyped
<1> QED  BY <1>1, <1>2, TypedOutside, TypedPool, TypedWork DEF AsanaNext

-----------------------------------------------------------------------------
(* What the worker holds.                                                  *)

LEMMA PlacedIdle == importer' = Idle => Placed'
BY DEF Placed, Running, Asking, Idle

LEMMA PlacedStep == SyncInv /\ [AsanaNext]_svars => Placed'
<1> SUFFICES ASSUME SyncInv, [AsanaNext]_svars PROVE Placed'
  OBVIOUS
<1>0. SyncTyped /\ Placed /\ KnownIsSo /\ HandsFit /\ importer \in Worker
  BY DEF SyncInv, SyncTyped
<1>1. CASE UNCHANGED <<importer, runs>>
  BY <1>0, <1>1 DEF Placed, Running, Asking, UnderWay
<1>2. ASSUME NEW i \in RunIds, AskRun(i) \/ CloseDeadRun(i) \/ CloseLateRun(i) PROVE Placed'
  <2>1. PICK row : runs' = [runs EXCEPT ![i] = row] /\ importer' = importer
    BY <1>2 DEF AskRun, CloseDeadRun, CloseLateRun, CloseRun
  <2>2. \A j \in RunIds \ {i} : runs'[j] = runs[j]
    BY <2>1
  <2>3. CASE importer.run # i
    BY <1>0, <2>1, <2>2, <2>3 DEF Placed, Running, Asking, UnderWay, Worker
  <2>4. CASE importer.run = i
    <3>1. runs'[i] = NoRun /\ importer.pc # "add"
      BY <1>0, <1>2, <2>4 DEF SyncTyped, Placed, AskRun, CloseDeadRun, CloseLateRun, CloseRun
    <3> QED  BY <1>0, <2>1, <2>4, <3>1 DEF Placed, Running, Asking, UnderWay, NoRun
  <2> QED  BY <2>3, <2>4
<1>3. CASE SwitchOff
  <2>1. /\ importer'.pc = importer.pc /\ importer'.run = importer.run 
        /\ importer'.got = importer.got 
        /\ importer'.todo = importer.todo /\ runs' = runs
        /\ importer'.reset => importer.pc \in {"full", "add", "clear"}
    BY <1>0, <1>3 DEF SwitchOff, Worker
  <2> QED  BY <1>0, <2>1 DEF Placed, Running, Asking, UnderWay
<1>4. CASE Pool \/ \E slot \in Slots : Fail(slot)
  <2>1. /\ importer'.pc = importer.pc /\ importer'.run = importer.run /\ importer'.got = importer.got
        /\ importer'.reset = importer.reset /\ runs' = runs
    BY <1>0, <1>4, PoolFrame
  <2> QED  BY <1>0, <2>1 DEF Placed, Running, Asking, UnderWay
<1>8. ASSUME NEW i \in RunIds, TakeRun(i) PROVE Placed'
  <2>1. /\ importer'.pc = "run" /\ importer'.run = i /\ ~ importer'.reset
        /\ importer'.got = source 
        /\ importer'.todo = {r \in Records : source[r].there \/ refs[r] # 0}
    BY <1>8 DEF TakeRun, Idle
  <2>2. runs'[i].job
    BY <1>0, <1>8 DEF TakeRun, SyncTyped, Run
  <2> QED  BY <1>0, <2>1, <2>2, SyncAssumption DEF Placed, Running, Asking, SyncTyped
<1>9. CASE StartTick
  <2>1. importer'.pc = "read" /\ importer'.run = Nothing /\ ~ importer'.reset
    BY <1>9 DEF StartTick, Idle
  <2> QED  BY <2>1 DEF Placed, Running, Asking
<1>10. CASE ReadStream
  <2>1. /\ importer'.pc \in {"full", "apply"} /\ importer'.run = importer.run
        /\ importer'.reset = importer.reset
    BY <1>0, <1>10 DEF ReadStream, Worker
  <2> QED  BY <1>0, <1>10, <2>1 DEF ReadStream, Placed, Running, Asking
<1>11. ASSUME NEW i \in RunIds, CreateRun(i) PROVE Placed'
  <2>1. /\ importer'.pc = "add" /\ importer'.run = i
        /\ importer'.reset = importer.reset
    BY <1>0, <1>11 DEF CreateRun, Worker
  <2>2. runs'[i] = [status |-> "QUEUED", job |-> FALSE]
    BY <1>0, <1>11 DEF CreateRun, SyncTyped
  <2> QED  BY <1>0, <1>11, <2>1, <2>2, SyncAssumption
           DEF CreateRun, Placed, Running, Asking, UnderWay
<1>12. CASE AddJob
  <2>1. CASE importer' = Idle
    BY <2>1, PlacedIdle
  <2>2. CASE importer' = [importer EXCEPT !.pc = "clear"]
    <3>1. /\ importer'.pc = "clear" /\ importer'.run = importer.run
        /\ importer'.reset = importer.reset
      BY <1>0, <2>2 DEF Worker
    <3> QED  BY <1>0, <1>12, <3>1 DEF AddJob, Placed, Running, Asking
  <2> QED  BY <1>12, <2>1, <2>2 DEF AddJob
<1> QED
  <2>1. CASE FinishRun \/ FailRun \/ Kill \/ ClearRequest \/ EndTick
    BY <2>1, PlacedIdle DEF FinishRun, FailRun, Kill, ClearRequest, EndTick
  <2>2. CASE \/ \E r \in Records : SourceChange(r)
             \/ TokenLapses \/ SwitchOn \/ RequestNightlyRuns \/ UNCHANGED svars
    BY <1>1, <2>2 DEF SourceChange, TokenLapses, SwitchOn, RequestNightlyRuns, svars
  <2> QED  BY <1>2, <1>3, <1>4, <1>8, <1>9, <1>10, <1>11, <1>12, <2>1, <2>2
           DEF AsanaNext, Tick


\* Without the work there are no hands.
LEMMA NoHands == ASSUME HandsFit, ~ (Running \/ Applying) PROVE DOMAIN hands = {}
BY DEF HandsFit, Fitting

LEMMA FitsPool ==
    ASSUME SyncTyped, Placed, HandsFit, KnownIsSo, RowsAreThere, Pool \/ \E slot \in Slots : Fail(slot)
    PROVE  HandsFit'
<1>0. /\ source' = source /\ (Running' <=> Running) /\ (Applying' <=> Applying) /\ (Running \/ Applying)
      /\ importer'.todo \subseteq importer.todo /\ Nested'
  BY PoolFrame DEF Running, Applying, asana, HandsFit, Nested
\* A hand that stays as it is fits on, if what it waits for is still held.
<1>1. ASSUME NEW g \in DOMAIN hands, g \in DOMAIN hands', hands'[g] = hands[g],
             \A q \in Records : refs[q] # 0 => refs'[q] # 0,
             <<g[1], g[1]>> \in DOMAIN hands /\ g[2] # g[1] =>
                <<g[1], g[1]>> \in DOMAIN hands' /\ hands'[<<g[1], g[1]>>] = hands[<<g[1], g[1]>>],
             hands[g].at = "waits" /\ <<g[1], Parent[g[2]]>> \in DOMAIN hands =>
                \/ refs'[Parent[g[2]]] # 0
                \/ /\ <<g[1], Parent[g[2]]>> \in DOMAIN hands'
                   /\ hands'[<<g[1], Parent[g[2]]>>].got = hands[<<g[1], Parent[g[2]]>>].got
                \/ ~ hands[<<g[1], Parent[g[2]]>>].got.there
      PROVE  Fitting(g)'
  <2>1. Fitting(g) /\ g[2] \in Records
    BY <1>1, HandTyped DEF HandsFit
  <2>2. Parent[g[2]] # Nothing => Parent[g[2]] \in Records
    BY <2>1, SyncAssumption
  <2> QED  BY <1>0, <1>1, <2>1, <2>2 DEF Fitting
<1>2. ASSUME NEW r \in Records, TakeUp(r) PROVE HandsFit'
  <2>1. refs' = refs /\ r \in importer.todo /\ r \notin importer'.todo
    BY <1>2, Takes DEF TakeUp
  <2>2. CASE UNCHANGED <<hands, crossed>>
    BY <1>0, <1>1, <2>1, <2>2 DEF HandsFit
  <2>3. CASE Joined(<<r, r>>) /\ \A g \in DOMAIN hands : hands'[g] = hands[g]
    <3>1. Fitting(<<r, r>>)'
      <4>1. hands'[<<r, r>>].at = "read" /\ hands'[<<r, r>>].got = Fetched(r) /\ Fetched(r) \in Version
        BY <2>3 DEF Joined
      <4>2. Applying => Fetched(r) = source[r]
        BY DEF Fetched, Applying
      <4>3. source[r].version \in Nat
        BY DEF SyncTyped, Version
      <4> QED  BY <1>0, <2>1, <4>1, <4>2, <4>3 DEF Fitting
    <3>2. ASSUME NEW g \in DOMAIN hands PROVE Fitting(g)'
      BY <1>1, <2>1, <2>3 DEF Joined
    <3> QED  BY <1>0, <2>3, <3>1, <3>2 DEF HandsFit, Joined
  <2> QED  BY <1>2, <2>2, <2>3, Takes
<1>3. ASSUME NEW h \in DOMAIN hands, BringTask(h) PROVE HandsFit'
  <2>1. PICK p \in Records : p = Parent[h[2]]
    BY <1>3, Brings
  <2>2. PICK k : k = <<h[1], p>>
    OBVIOUS
  <2>3. /\ Applying /\ hands[h].at = "read" /\ ~ Placeable(h) /\ h[2] = h[1] /\ hands[h].got.there /\ p # h[1]
        /\ Joined(k) /\ Fetched(p) = source[p] /\ hands'[h] = [hands[h] EXCEPT !.at = "waits"]
        /\ \A g \in DOMAIN hands \ {h} : hands'[g] = hands[g]
    BY <1>3, <2>1, <2>2, Brings
  <2>4. refs' = refs /\ importer' = importer /\ h = <<h[1], h[1]>> /\ h[1] \in Records
    BY <1>3, <2>3, HandTyped DEF BringTask
  <2>5. hands'[h].at = "waits" /\ hands'[h].got = hands[h].got
    BY <2>3, HandTyped DEF Hand
  <2>6. hands'[k].at = "read" /\ hands'[k].got = source[p] /\ k \in DOMAIN hands' /\ h \in DOMAIN hands'
    BY <2>2, <2>3 DEF Joined
  <2>7. Fitting(k)'
    <3>1. k[1] = h[1] /\ k[2] = p /\ k[1] \notin importer.todo
      BY <2>2 DEF HandsFit, Fitting
    <3>2. source[p].version \in Nat
      BY DEF SyncTyped, Version
    <3>3. <<k[1], k[1]>> = h /\ k[2] = Parent[k[1]]
      BY <2>1, <2>3, <2>4, <3>1
    <3>4. hands'[k].got.version <= source'[k[2]].version
      BY <1>0, <2>6, <3>1, <3>2
    <3>5. k[1] \notin importer'.todo
      BY <2>4, <3>1
    <3> QED  BY <1>0, <2>3, <2>5, <2>6, <3>3, <3>4, <3>5 DEF Fitting
  <2>8. Fitting(h)'
    <3>1. Fitting(h)
      BY DEF HandsFit
    <3>2. hands[h].got = source[h[2]] => source[p].there
      BY <2>1, <2>3, <2>4 DEF HandsFit, Nested, Subtasks
    <3>3. h[1] \notin importer'.todo /\ (hands'[h].got.version <= source'[h[2]].version)
      BY <1>0, <2>3, <2>4, <2>5, <3>1 DEF Fitting
    <3>4. hands'[h].got = source'[h[2]] => k \in DOMAIN hands' /\ hands'[k].got.there
      BY <1>0, <2>5, <2>6, <3>2
    <3>5. k = <<h[1], Parent[h[2]]>> /\ Parent[h[2]] # Nothing /\ hands'[h].got.there /\ h[2] = h[1]
      BY <2>1, <2>2, <2>3, <2>5, SyncAssumption
    <3>6. hands'[h].got = source'[h[2]] =>
            <<h[1], Parent[h[2]]>> \in DOMAIN hands' /\ hands'[<<h[1], Parent[h[2]]>>].got.there
      BY <3>4, <3>5
    <3>7. Applying'
      BY <1>0, <2>3
    <3> QED  BY <3>3, <3>5, <3>6, <3>7 DEF Fitting
  <2>9. ASSUME NEW g \in DOMAIN hands, g # h PROVE Fitting(g)'
    <3>1. g[1] # h[1] \/ g[2] = g[1]
      <4> SUFFICES ASSUME g[1] = h[1], g[2] # g[1] PROVE FALSE
        OBVIOUS
      <4>1. <<g[1], g[1]>> = h
        BY <2>4
      <4>2. hands[<<g[1], g[1]>>].at = "waits"
        BY DEF HandsFit, Fitting
      <4> QED  BY <2>3, <4>1, <4>2
    <3>2. DOMAIN hands \subseteq DOMAIN hands'
      BY <2>3 DEF Joined
    <3>3. \A f \in DOMAIN hands : f # h => hands'[f] = hands[f]
      BY <2>3
    <3>4. <<g[1], g[1]>> \in DOMAIN hands /\ g[2] # g[1] => <<g[1], g[1]>> # h
      BY <2>4, <3>1
    <3>5. \A f \in DOMAIN hands : hands'[f].got = hands[f].got
      BY <2>5, <3>3
    <3> QED  BY <1>1, <2>4, <2>9, <3>2, <3>3, <3>4, <3>5
  <2> QED  BY <1>0, <2>3, <2>7, <2>8, <2>9 DEF HandsFit, Joined
<1>4. ASSUME NEW h \in DOMAIN hands, Left({h}), importer' = importer \/ Remember(h),
             \A q \in Records : refs[q] # 0 => refs'[q] # 0, Brought(h),
             refs'[h[2]] # 0 \/ ~ hands[h].got.there \/ hands[h].at = "waits"
      PROVE  HandsFit'
  <2>1. ASSUME NEW g \in DOMAIN hands' PROVE Fitting(g)'
    <3>1. g \in DOMAIN hands /\ hands'[g] = hands[g] /\ g # h /\ Fitting(g) /\ Fitting(h)
      BY <1>4 DEF Left, HandsFit
    <3>2. h = <<h[1], h[2]>> /\ g = <<g[1], g[2]>> /\ g[2] \in Records
      BY <3>1, HandTyped
    <3>3. <<g[1], g[1]>> \in DOMAIN hands /\ g[2] # g[1] => <<g[1], g[1]>> # h
      <4> SUFFICES ASSUME <<g[1], g[1]>> = h, g[2] # g[1] PROVE FALSE
        OBVIOUS
      <4>1. hands[h].at = "waits" /\ h[1] = g[1] /\ h[2] = g[1] /\ g[2] = Parent[h[2]]
        BY <3>1 DEF Fitting
      <4> QED  BY <1>4, <3>1, <3>2, <4>1 DEF Brought
    <3>4. hands[g].at = "waits" /\ <<g[1], Parent[g[2]]>> = h =>
            refs'[Parent[g[2]]] # 0 \/ ~ hands[<<g[1], Parent[g[2]]>>].got.there
      <4> SUFFICES ASSUME hands[g].at = "waits", <<g[1], Parent[g[2]]>> = h, hands[h].at = "waits" PROVE FALSE
        BY <1>4
      <4>1. h[1] = g[1] /\ h[2] = Parent[g[2]] /\ h[2] = h[1] /\ g[2] = g[1]
        BY <3>1 DEF Fitting
      <4> QED  BY <3>1, <3>2, <4>1
    <3> QED  BY <1>1, <1>4, <3>1, <3>3, <3>4 DEF Left
  <2> QED  BY <1>0, <2>1 DEF HandsFit
<1>5. ASSUME NEW h \in DOMAIN hands, Write(h) PROVE HandsFit'
  <2>1. Brought(h) /\ importer' = importer /\ refs' = refs /\ (Updates(h) \/ Inserts(h) \/ Neither(h))
    BY <1>5, Writes
  <2>2. CASE Updates(h) \/ Neither(h)
    BY <1>4, <2>1, <2>2 DEF Updates, Neither
  <2>3. CASE Inserts(h)
    <3>1. hands'[h].at = "made" /\ hands'[h].got = hands[h].got /\ Fitting(h)
      BY <2>3, HandTyped DEF Inserts, Hand, HandsFit
    <3>2. DOMAIN hands' = DOMAIN hands /\ \A g \in DOMAIN hands : g # h => hands'[g] = hands[g]
      BY <2>3 DEF Inserts
    <3>3. ASSUME NEW g \in DOMAIN hands, g # h PROVE Fitting(g)'
      <4>1. Fitting(g) /\ g = <<g[1], g[2]>>
        BY HandTyped DEF HandsFit
      <4>2. g[2] # g[1] => <<g[1], g[1]>> # h
        <5> SUFFICES ASSUME g[2] # g[1], <<g[1], g[1]>> = h PROVE FALSE
          OBVIOUS
        <5>1. hands[h].at = "waits" /\ h[1] = g[1] /\ h[2] = g[1] /\ g[2] = Parent[h[2]]
          BY <4>1 DEF Fitting
        <5> QED  BY <2>1, <4>1, <5>1 DEF Brought
      <4>3. \A f \in DOMAIN hands : hands'[f].got = hands[f].got
        BY <3>1, <3>2
      <4> QED  BY <1>1, <2>1, <3>2, <3>3, <4>2, <4>3
    <3>4. Fitting(h)'
      <4>1. h = <<h[1], h[2]>> /\ (<<h[1], h[1]>> \in DOMAIN hands /\ h[2] # h[1] => <<h[1], h[1]>> # h)
        BY HandTyped
      <4>2. h[2] # h[1] => <<h[1], h[1]>> \in DOMAIN hands' /\ hands'[<<h[1], h[1]>>].at = "waits"
        BY <3>1, <3>2, <4>1 DEF Fitting
      <4> QED  BY <1>0, <2>1, <3>1, <4>2 DEF Fitting
    <3> QED  BY <1>0, <3>2, <3>3, <3>4 DEF HandsFit
  <2> QED  BY <2>1, <2>2, <2>3
<1>6. ASSUME NEW h \in DOMAIN hands, LeaveOut(h) PROVE HandsFit'
  BY <1>4, <1>6, LeavesOut
<1>7. ASSUME NEW h \in DOMAIN hands, Remember(h) PROVE HandsFit'
  <2>1. /\ Left({h}) /\ Makes(h) /\ refs'[h[2]] = hands[h].row
        /\ \A q \in Records \ {h[2]} : refs'[q] = refs[q]
    BY <1>7, Remembers
  <2>2. hands[h].row # 0
    BY <2>1, HandTyped DEF RowsAreThere, SyncTyped
  <2> QED  BY <1>4, <1>7, <2>1, <2>2 DEF Brought, Makes
<1>8. ASSUME NEW slot, Fail(slot) PROVE HandsFit'
  <2>1. Left(HeldBy(slot)) /\ refs' = refs
    BY <1>8, Fails
  <2>2. ASSUME NEW g \in DOMAIN hands' PROVE Fitting(g)'
    <3>1. g \in DOMAIN hands /\ hands'[g] = hands[g] /\ g[1] # slot
      BY <2>1 DEF Left, HeldBy
    <3>2. \A a : <<g[1], a>> \in DOMAIN hands => <<g[1], a>> \in DOMAIN hands' /\ hands'[<<g[1], a>>] = hands[<<g[1], a>>]
      BY <2>1, <3>1 DEF Left, HeldBy
    <3> QED  BY <1>1, <2>1, <3>1, <3>2
  <2> QED  BY <1>0, <2>2 DEF HandsFit
<1> QED  BY <1>2, <1>3, <1>5, <1>6, <1>7, <1>8 DEF Pool, Handle

LEMMA FitsStep == SyncInv /\ [AsanaNext]_svars => HandsFit'
<1> SUFFICES ASSUME SyncInv, [AsanaNext]_svars PROVE HandsFit'
  OBVIOUS
<1>0. SyncTyped /\ Placed /\ HandsFit /\ KnownIsSo /\ RowsAreThere /\ importer \in Worker
  BY DEF SyncInv, SyncTyped
<1>1. ASSUME UNCHANGED <<source, hands, refs>>, importer'.pc = importer.pc, importer'.todo = importer.todo
      PROVE  HandsFit'
  BY <1>0, <1>1 DEF HandsFit, Fitting, Nested, Running, Applying
<1>2. ASSUME source' = source, DOMAIN hands' = {} PROVE HandsFit'
  BY <1>0, <1>2 DEF HandsFit, Nested
<1>3. ASSUME NEW r \in Records, SourceChange(r) PROVE HandsFit'
  <2>1. PICK there \in BOOLEAN :
            /\ Struck(r, there) \subseteq Records
            /\ there /\ Parent[r] # Nothing => source[Parent[r]].there
            /\ source' = [q \in Records |-> IF q \notin Struck(r, there) THEN source[q]
                                            ELSE [there |-> there, version |-> source[q].version + 1]]
            /\ UNCHANGED <<refs, hands, importer>>
    BY <1>3, SourceChanges DEF local
  <2>2. ASSUME NEW q \in Records
        PROVE  /\ source[q].version \in Nat /\ source'[q].version \in Nat
               /\ source[q].version <= source'[q].version
               /\ source'[q] = source[q] \/ (source[q].version < source'[q].version /\ source'[q].there = there)
               /\ q \in Struck(r, there) => source'[q].there = there
               /\ q \notin Struck(r, there) => source'[q] = source[q]
    BY <1>0, <2>1 DEF SyncTyped, Version
  <2>3. Nested'
    <3> SUFFICES ASSUME NEW p \in Records, NEW c \in Subtasks(p), source'[c].there PROVE source'[p].there
      BY DEF Nested, Subtasks
    <3>1. c \in Records /\ Parent[c] = p /\ p # Nothing
      BY SyncAssumption DEF Subtasks
    <3>2. source[c].there => source[p].there
      BY <1>0, <3>1 DEF HandsFit, Nested
    <3>3. CASE there
      <4>1. Struck(r, there) = {r}
        BY <3>3 DEF Struck
      <4> QED  BY <2>1, <2>2, <3>1, <3>2, <3>3, <4>1
    <3>4. CASE ~ there
      <4>1. c \notin Struck(r, there) /\ source[c].there
        BY <2>2, <3>1, <3>4
      <4>2. p \notin Struck(r, there)
        <5>1. p # r
          BY <3>1, <3>4, <4>1 DEF Struck, Subtasks
        <5>2. Parent[p] = Nothing
          BY <3>1, SyncAssumption
        <5> QED  BY <3>1, <3>4, <5>1, <5>2, SyncAssumption DEF Struck, Subtasks
      <4> QED  BY <2>2, <3>1, <3>2, <4>1, <4>2
    <3> QED  BY <3>3, <3>4
  <2>4. ASSUME NEW g \in DOMAIN hands PROVE Fitting(g)'
    <3>1. Fitting(g) /\ g[2] \in Records /\ hands[g] \in Hand
      BY <1>0, HandTyped DEF HandsFit
    <3>2. PICK v \in Nat : v = hands[g].got.version
      BY <3>1 DEF Hand, Version
    <3>3. PICK m \in Nat, n \in Nat : m = source[g[2]].version /\ n = source'[g[2]].version
      BY <2>2, <3>1
    <3>4. Applying => v <= n /\ (hands[g].got = source'[g[2]] => hands[g].got = source[g[2]])
      <4>1. Applying => v <= m
        BY <3>1, <3>2, <3>3 DEF Fitting
      <4>2. m <= n /\ (source'[g[2]] = source[g[2]] \/ m < n)
        BY <2>2, <3>1, <3>3
      <4> QED  BY <3>2, <3>3, <4>1, <4>2
    <3>5. (Running' <=> Running) /\ (Applying' <=> Applying) /\ importer'.todo = importer.todo
      BY <2>1 DEF Running, Applying
    <3>6. hands[g].at = "waits" => Applying
      BY <1>0, <3>1 DEF Fitting
    <3>7. Applying => hands[g].got.version <= source'[g[2]].version
      BY <3>2, <3>3, <3>4
    <3>8. hands[g].at = "waits" /\ hands[g].got = source'[g[2]] => hands[g].got = source[g[2]]
      BY <3>4, <3>6
    <3>9. UNCHANGED <<refs, hands>>
      BY <2>1
    <3> QED  BY <3>1, <3>5, <3>7, <3>8, <3>9 DEF Fitting
  <2> QED  BY <2>1, <2>3, <2>4 DEF HandsFit
<1>4. CASE Pool \/ \E slot \in Slots : Fail(slot)
  BY <1>0, <1>4, FitsPool
<1>5. CASE SwitchOff
  BY <1>0, <1>1, <1>5 DEF SwitchOff, local, Worker
<1>6. CASE \/ \E i \in RunIds : AskRun(i) \/ CloseDeadRun(i) \/ CloseLateRun(i)
           \/ TokenLapses \/ SwitchOn \/ RequestNightlyRuns \/ UNCHANGED svars
  <2>1. UNCHANGED <<source, hands, refs, importer>>
    BY <1>6 DEF AskRun, CloseDeadRun, CloseLateRun, CloseRun, TokenLapses, SwitchOn, RequestNightlyRuns,
                svars, asana, local
  <2> QED  BY <1>1, <2>1
<1>7. CASE FinishRun \/ FailRun \/ EndTick \/ Kill
  <2>1. DOMAIN hands' = {} /\ source' = source
    BY <1>7 DEF FinishRun, FailRun, EndTick, Kill, asana, local
  <2> QED  BY <1>2, <2>1
<1>8. CASE \/ \E i \in RunIds : TakeRun(i) \/ CreateRun(i)
           \/ StartTick \/ ReadStream \/ AddJob \/ ClearRequest
  <2>1. ~ (Running \/ Applying) /\ UNCHANGED <<source, hands>>
    BY <1>8 DEF TakeRun, CreateRun, StartTick, ReadStream, AddJob, ClearRequest, asana, local, Running, Applying
  <2> QED  BY <1>0, <1>2, <2>1, NoHands
<1> QED  BY <1>3, <1>4, <1>5, <1>6, <1>7, <1>8 DEF AsanaNext, Tick

-----------------------------------------------------------------------------
(* What the worker believes, and what it makes.                            *)

\* What the hands record, the worker knows.
LEMMA PoolKnows ==
    ASSUME SyncTyped, Placed, HandsFit, KnownIsSo, RowsAreThere, Pool \/ \E slot \in Slots : Fail(slot)
    PROVE  importer'.known = refs'
<1>1. importer.known = refs /\ importer \in Worker
  BY PoolFrame DEF KnownIsSo, Running, Applying, SyncTyped
<1>2. ASSUME NEW r \in Records, TakeUp(r) PROVE importer'.known = refs'
  BY <1>1, <1>2 DEF TakeUp, Worker
<1>3. ASSUME NEW h \in DOMAIN hands, BringTask(h) \/ LeaveOut(h) \/ Write(h) PROVE importer'.known = refs'
  BY <1>1, <1>3 DEF BringTask, LeaveOut, Write
<1>4. ASSUME NEW h \in DOMAIN hands, Remember(h) PROVE importer'.known = refs'
  BY <1>4, Remembers
<1>5. ASSUME NEW slot, Fail(slot) PROVE importer'.known = refs'
  BY <1>1, <1>5, Fails
<1> QED  BY <1>2, <1>3, <1>4, <1>5 DEF Pool, Handle

\* Refs change only as they are recorded.
LEMMA KnownStep == SyncInv /\ [AsanaNext]_svars => KnownIsSo'
<1> SUFFICES ASSUME SyncInv, [AsanaNext]_svars PROVE KnownIsSo'
  OBVIOUS
<1>0. SyncTyped /\ Placed /\ HandsFit /\ KnownIsSo /\ RowsAreThere /\ importer \in Worker
  BY DEF SyncInv, SyncTyped
<1>1. CASE /\ UNCHANGED <<importer, refs, cache>> /\ stale' \in {stale, TRUE}
  BY <1>0, <1>1 DEF KnownIsSo, Running, Applying
<1>2. ASSUME UNCHANGED <<refs, cache, stale>>, importer'.known = importer.known, importer.pc # "idle",
             \/ importer'.pc = importer.pc
             \/ importer'.pc \in {"full", "add", "clear", "apply"}
                /\ importer.pc \notin {"run", "apply"}
      PROVE  KnownIsSo'
  BY <1>0, <1>2 DEF KnownIsSo, Running, Applying
<1>3. CASE SwitchOff
  <2>1. importer'.pc = importer.pc /\ importer'.known = importer.known
    BY <1>0, <1>3 DEF SwitchOff, Worker
  <2> QED  BY <1>0, <1>3, <2>1 DEF SwitchOff, local, KnownIsSo, Running, Applying
<1>4. CASE Pool \/ \E slot \in Slots : Fail(slot)
  BY <1>0, <1>4, PoolFrame, PoolKnows DEF KnownIsSo, Running, Applying
<1>8. ASSUME NEW i \in RunIds, TakeRun(i) PROVE KnownIsSo'
  <2>1. importer'.pc = "run" /\ importer'.known = refs /\ refs' = refs
    BY <1>8 DEF TakeRun, Idle, local
  <2> QED  BY <2>1 DEF KnownIsSo, Running
<1>9. CASE StartTick
  <2>1. importer'.pc = "read" /\ importer'.known = (IF cache = Nothing \/ stale THEN refs ELSE cache)
    BY <1>9 DEF StartTick, Idle
  <2>2. refs' = refs /\ cache' = importer'.known /\ importer.pc = "idle"
    BY <1>9 DEF StartTick, local
  <2> QED  BY <1>0, <2>1, <2>2 DEF KnownIsSo, Running, Applying
<1>10. CASE ReadStream
  <2>1. importer'.pc \in {"full", "apply"} /\ importer'.known = importer.known
    BY <1>0, <1>10 DEF ReadStream, Worker
  <2> QED  BY <1>2, <1>10, <2>1 DEF ReadStream, local
<1>11. ASSUME NEW i \in RunIds, CreateRun(i) PROVE KnownIsSo'
  <2>1. importer'.pc = "add" /\ importer'.known = importer.known
    BY <1>0, <1>11 DEF CreateRun, Worker
  <2> QED  BY <1>2, <1>11, <2>1 DEF CreateRun, local
<1>12. CASE AddJob
  <2>1. UNCHANGED <<refs, cache, stale>> /\ importer.pc = "add"
    BY <1>12 DEF AddJob, local
  <2>2. CASE importer' = Idle
    BY <1>0, <2>1, <2>2 DEF KnownIsSo, Running, Applying, Idle
  <2>3. CASE importer' = [importer EXCEPT !.pc = "clear"]
    <3>1. importer'.pc = "clear" /\ importer'.known = importer.known
      BY <1>0, <2>3 DEF Worker
    <3> QED  BY <1>2, <2>1, <3>1
  <2> QED  BY <1>12, <2>2, <2>3 DEF AddJob
<1>13. CASE FinishRun \/ FailRun
  BY <1>13 DEF FinishRun, FailRun, preparedAgain, KnownIsSo, Idle
<1>14. CASE Kill
  BY <1>14 DEF Kill, KnownIsSo, Idle
<1>15. CASE ClearRequest
  BY <1>0, <1>15 DEF ClearRequest, KnownIsSo, Idle, Running, Applying
<1>16. CASE EndTick
  BY <1>0, <1>16 DEF EndTick, local, KnownIsSo, Idle
<1> QED
  <2>1. CASE \/ \E r \in Records : SourceChange(r)
             \/ TokenLapses \/ SwitchOn \/ RequestNightlyRuns \/ UNCHANGED svars
    BY <1>1, <2>1 DEF SourceChange, TokenLapses, SwitchOn, RequestNightlyRuns, svars, local
  <2>2. CASE \E i \in RunIds : AskRun(i) \/ CloseDeadRun(i) \/ CloseLateRun(i)
    BY <1>1, <2>2 DEF AskRun, CloseDeadRun, CloseLateRun, CloseRun, local
  <2> QED  BY <1>3, <1>4, <1>8, <1>9, <1>10, <1>11, <1>12, <1>13, <1>14, <1>15, <1>16,
              <2>1, <2>2 DEF AsanaNext, Tick

\* A row stays where it is; one that is made is recorded by the hand that made it.
LEMMA RowsStep == SyncInv /\ [AsanaNext]_svars => RowsAreThere'
<1> SUFFICES ASSUME SyncInv, [AsanaNext]_svars PROVE RowsAreThere'
  OBVIOUS
<1>0. SyncTyped /\ Placed /\ HandsFit /\ KnownIsSo /\ RowsAreThere
  BY DEF SyncInv
<1>1. ASSUME UNCHANGED <<copies, refs>>,
             \A g \in DOMAIN hands' : Makes(g)' => Makes(g) /\ hands'[g] = hands[g]
      PROVE  RowsAreThere'
  BY <1>0, <1>1 DEF RowsAreThere, At, Makes
<1>2. ASSUME UNCHANGED <<copies, refs>>, NEW D, Left(D) PROVE RowsAreThere'
  BY <1>1, <1>2 DEF Left, Makes
<1>3. ASSUME NEW r \in Records, TakeUp(r) PROVE RowsAreThere'
  <2>1. UNCHANGED <<copies, refs>>
    BY <1>3 DEF TakeUp
  <2>2. CASE hands' = hands
    BY <1>1, <2>1, <2>2 DEF Makes
  <2>3. CASE Joined(<<r, r>>) /\ \A g \in DOMAIN hands : hands'[g] = hands[g]
    BY <1>1, <2>1, <2>3 DEF Joined, Makes
  <2> QED  BY <1>0, <1>3, <2>2, <2>3, Takes
<1>4. ASSUME NEW h \in DOMAIN hands, BringTask(h) PROVE RowsAreThere'
  <2>1. UNCHANGED <<copies, refs>>
    BY <1>4 DEF BringTask
  <2>2. PICK k : k = <<h[1], Parent[h[2]]>>
    OBVIOUS
  <2>3. Joined(k) /\ hands'[h] = [hands[h] EXCEPT !.at = "waits"] /\ \A g \in DOMAIN hands \ {h} : hands'[g] = hands[g]
    BY <1>0, <1>4, <2>2, Brings
  <2>4. hands'[h].at = "waits"
    BY <1>0, <2>3, HandTyped DEF Hand
  <2>5. ASSUME NEW g \in DOMAIN hands', Makes(g)' PROVE Makes(g) /\ hands'[g] = hands[g]
    <3>0. hands'[k].at = "read" /\ hands'[g].at = "made"
      BY <2>3, <2>5 DEF Joined, Makes
    <3>1. g # h /\ g # k
      BY <2>4, <3>0
    <3> QED  BY <2>3, <2>5, <3>1 DEF Joined, Makes
  <2> QED  BY <1>1, <2>1, <2>5
<1>5. ASSUME NEW h \in DOMAIN hands, Write(h) PROVE RowsAreThere'
  <2>1. /\ UNCHANGED <<refs, marks>> /\ \A q \in Records \ {h[2]} : copies'[q] = copies[q]
        /\ copies' \in [Records -> Seq(Nat)]
        /\ Updates(h) \/ Inserts(h) \/ Neither(h)
    BY <1>0, <1>5, Writes
  <2>2. CASE Neither(h)
    BY <1>2, <2>1, <2>2 DEF Neither
  <2>3. PICK n \in Nat : n = Len(copies[h[2]]) /\ refs[h[2]] \in 0..n
    BY <1>0, HandTyped DEF SyncTyped, RowsAreThere
  <2>4. PICK m \in Nat : m = Len(copies'[h[2]]) /\ n <= m
    <3>1. Len(copies'[h[2]]) \in Nat
      BY <1>0, <2>1, HandTyped
    <3>2. Len(copies'[h[2]]) = n \/ Len(copies'[h[2]]) = n + 1
      BY <2>1, <2>3 DEF Updates, Inserts, Neither
    <3> QED  BY <2>3, <3>1, <3>2
  <2>5. \A r \in Records : refs'[r] \in 0..Len(copies'[r])
    BY <1>0, <2>1, <2>3, <2>4 DEF RowsAreThere
  \* Those that made a row earlier find it as it was.
  <2>6. ASSUME NEW g \in DOMAIN hands, g # h, Makes(g)
        PROVE  /\ hands[g].row \in 1..Len(copies'[g[2]]) /\ hands[g].row # refs'[g[2]]
               /\ copies'[g[2]][hands[g].row] = hands[g].got.version
    <3>1. /\ hands[g].row \in 1..Len(copies[g[2]]) /\ hands[g].row # refs[g[2]]
          /\ copies[g[2]][hands[g].row] = hands[g].got.version /\ g[2] \in Records
      BY <1>0, <2>6, HandTyped DEF RowsAreThere
    <3>2. CASE g[2] # h[2]
      BY <2>1, <3>1, <3>2
    <3>3. CASE g[2] = h[2] /\ ~ Neither(h)
      BY <2>1, <2>3, <2>4, <3>1, <3>3 DEF Updates, Inserts
    <3> QED  BY <2>1, <3>1, <3>2, <3>3 DEF Neither
  <2>7. CASE Updates(h)
    <3>1. DOMAIN hands' = DOMAIN hands \ {h} /\ \A g \in DOMAIN hands' : hands'[g] = hands[g]
      BY <2>7 DEF Updates, Left
    <3>2. ASSUME NEW g \in DOMAIN hands', Makes(g)'
          PROVE  /\ hands'[g].row \in 1..Len(copies'[g[2]]) /\ hands'[g].row # refs'[g[2]]
                 /\ copies'[g[2]][hands'[g].row] = hands'[g].got.version
                 /\ \A f \in At(g[2])' : Makes(f)' /\ f # g => hands'[f].row # hands'[g].row
      <4>1. g \in DOMAIN hands /\ g # h /\ Makes(g) /\ hands'[g] = hands[g]
        BY <3>1, <3>2 DEF Makes
      <4>2. \A f \in At(g[2])' : Makes(f)' => f \in At(g[2]) /\ Makes(f) /\ hands'[f] = hands[f]
        BY <3>1 DEF At, Makes
      <4> QED  BY <1>0, <2>6, <4>1, <4>2 DEF RowsAreThere
    <3> QED  BY <2>5, <3>2 DEF RowsAreThere
  <2>8. CASE Inserts(h)
    <3>1. /\ DOMAIN hands' = DOMAIN hands /\ hands'[h].at = "made" /\ hands'[h].row = n + 1
          /\ hands'[h].got = hands[h].got /\ \A g \in DOMAIN hands \ {h} : hands'[g] = hands[g]
      BY <1>0, <2>3, <2>8, HandTyped DEF Inserts, Hand
    <3>2. m = n + 1 /\ refs'[h[2]] = 0 /\ copies'[h[2]][n + 1] = hands[h].got.version
      BY <2>1, <2>3, <2>4, <2>8 DEF Inserts
    <3>3. ASSUME NEW g \in DOMAIN hands, Makes(g), g[2] = h[2] PROVE hands[g].row < n + 1
      BY <1>0, <2>3, <3>3 DEF RowsAreThere
    <3>4. ASSUME NEW g \in DOMAIN hands', Makes(g)', g # h
          PROVE  /\ hands'[g].row \in 1..Len(copies'[g[2]]) /\ hands'[g].row # refs'[g[2]]
                 /\ copies'[g[2]][hands'[g].row] = hands'[g].got.version
                 /\ \A f \in At(g[2])' : Makes(f)' /\ f # g => hands'[f].row # hands'[g].row
      <4>1. g \in DOMAIN hands /\ Makes(g) /\ hands'[g] = hands[g]
        BY <3>1, <3>4 DEF Makes
      <4>2. ASSUME NEW f \in At(g[2])', Makes(f)', f # g PROVE hands'[f].row # hands'[g].row
        <5>1. f \in DOMAIN hands /\ f[2] = g[2]
          BY <3>1, <4>2 DEF At
        <5>2. CASE f = h
          BY <3>1, <3>3, <4>1, <5>1, <5>2, HandTyped, <1>0 DEF Hand
        <5>3. CASE f # h
          <6>1. Makes(f) /\ f \in At(g[2]) /\ hands'[f] = hands[f]
            BY <3>1, <4>2, <5>1, <5>3 DEF Makes, At
          <6> QED  BY <1>0, <4>1, <4>2, <6>1 DEF RowsAreThere
        <5> QED  BY <5>2, <5>3
      <4> QED  BY <2>6, <3>4, <4>1, <4>2
    <3>5. /\ hands'[h].row \in 1..Len(copies'[h[2]]) /\ hands'[h].row # refs'[h[2]]
          /\ copies'[h[2]][hands'[h].row] = hands'[h].got.version
      BY <2>4, <3>1, <3>2
    <3>6. ASSUME NEW f \in At(h[2])', Makes(f)', f # h PROVE hands'[f].row # hands'[h].row
      <4>1. f \in DOMAIN hands /\ f[2] = h[2] /\ Makes(f) /\ hands'[f] = hands[f]
        BY <3>1, <3>6 DEF At, Makes
      <4> QED  BY <1>0, <3>1, <3>3, <4>1, HandTyped DEF Hand
    <3> QED  BY <2>5, <3>4, <3>5, <3>6 DEF RowsAreThere
  <2> QED  BY <2>1, <2>2, <2>7, <2>8
<1>6. ASSUME NEW h \in DOMAIN hands, Remember(h) PROVE RowsAreThere'
  <2>1. /\ copies' = copies /\ Makes(h) /\ Left({h}) /\ refs'[h[2]] = hands[h].row
        /\ \A q \in Records \ {h[2]} : refs'[q] = refs[q]
    BY <1>0, <1>6, Remembers
  <2>2. \A r \in Records : refs'[r] \in 0..Len(copies'[r])
    <3>1. hands[h].row \in 1..Len(copies[h[2]]) /\ Len(copies[h[2]]) \in Nat
      BY <1>0, <2>1, HandTyped DEF RowsAreThere, SyncTyped
    <3> QED  BY <1>0, <2>1, <3>1 DEF RowsAreThere
  <2>3. ASSUME NEW g \in DOMAIN hands', Makes(g)'
        PROVE  /\ hands'[g].row \in 1..Len(copies'[g[2]]) /\ hands'[g].row # refs'[g[2]]
               /\ copies'[g[2]][hands'[g].row] = hands'[g].got.version
               /\ \A f \in At(g[2])' : Makes(f)' /\ f # g => hands'[f].row # hands'[g].row
    <3>1. g \in DOMAIN hands /\ g # h /\ Makes(g) /\ hands'[g] = hands[g] /\ g[2] \in Records
      BY <1>0, <2>1, <2>3, HandTyped DEF Left, Makes
    <3>2. \A f \in At(g[2])' : Makes(f)' => f \in At(g[2]) /\ Makes(f) /\ hands'[f] = hands[f]
      BY <2>1 DEF Left, At, Makes
    <3>3. g[2] = h[2] => hands[g].row # hands[h].row
      BY <1>0, <2>1, <3>1 DEF RowsAreThere, At
    <3> QED  BY <1>0, <2>1, <3>1, <3>2, <3>3 DEF RowsAreThere
  <2> QED  BY <2>2, <2>3 DEF RowsAreThere
<1>7. ASSUME NEW h \in DOMAIN hands, LeaveOut(h) PROVE RowsAreThere'
  BY <1>2, <1>7, LeavesOut
<1>8. ASSUME NEW slot, Fail(slot) PROVE RowsAreThere'
  BY <1>0, <1>2, <1>8, Fails
<1>9. CASE Pool
  BY <1>3, <1>4, <1>5, <1>6, <1>7, <1>9 DEF Pool, Handle
<1>10. CASE \/ \E r \in Records : SourceChange(r)
            \/ \E i \in RunIds : AskRun(i) \/ CloseDeadRun(i) \/ CloseLateRun(i)
            \/ TokenLapses \/ SwitchOn \/ SwitchOff \/ RequestNightlyRuns \/ UNCHANGED svars
  <2>1. UNCHANGED <<copies, refs, hands>>
    BY <1>10 DEF SourceChange, AskRun, CloseDeadRun, CloseLateRun, CloseRun, TokenLapses, SwitchOn, SwitchOff,
                 RequestNightlyRuns, svars, local
  <2> QED  BY <1>1, <2>1 DEF Makes
<1>11. CASE (\E i \in RunIds : TakeRun(i)) \/ FinishRun \/ FailRun \/ Kill \/ Tick
  <2>1. CASE Kill
    <3>1. UNCHANGED <<copies, refs>> /\ DOMAIN hands' = {}
      BY <2>1 DEF Kill
    <3> QED  BY <1>1, <3>1
  <2>2. CASE (\E i \in RunIds : TakeRun(i)) \/ FinishRun \/ FailRun \/ Tick
    <3>1. UNCHANGED <<copies, refs, hands>>
      BY <2>2 DEF TakeRun, FinishRun, FailRun, Tick, StartTick, ReadStream, CreateRun, AddJob, ClearRequest,
                   EndTick, local
    <3> QED  BY <1>1, <3>1 DEF Makes
  <2> QED  BY <1>11, <2>1, <2>2
<1> QED  BY <1>8, <1>9, <1>10, <1>11 DEF AsanaNext

\* A row is made where there is none and nobody else is at it, and then recorded; else the
\* record is set down as orphaned or crossed.
LEMMA OneStep == SyncInv /\ [AsanaNext]_svars => OneRow'
<1> SUFFICES ASSUME SyncInv, [AsanaNext]_svars,
                    NEW r \in Records, r \notin orphaned', r \notin crossed'
             PROVE  One(r)'
  BY DEF OneRow
<1>0. SyncTyped /\ Placed /\ HandsFit /\ KnownIsSo /\ RowsAreThere /\ OneRow
  BY DEF SyncInv
<1>1. ASSUME UNCHANGED <<copies, refs>>, r \notin orphaned, r \notin crossed,
             \A g \in At(r)' : Makes(g)' => g \in At(r) /\ Makes(g),
             \A g \in At(r) : Makes(g) => g \in At(r)' /\ Makes(g)',
             refs[r] = 0 => \A f, g \in At(r)' : f = g
      PROVE  One(r)'
  BY <1>0, <1>1 DEF OneRow, One, Making
<1>2. ASSUME UNCHANGED <<copies, refs>>, orphaned \subseteq orphaned', crossed \subseteq crossed',
             NEW D, Left(D), \A g \in D : Makes(g) => g[2] \in orphaned'
      PROVE  One(r)'
  <2>1. \A g \in At(r)' : g \in At(r) /\ hands'[g] = hands[g]
    BY <1>2 DEF Left, At
  <2>2. \A g \in At(r) : Makes(g) => g \in At(r)' /\ Makes(g)'
    BY <1>2 DEF Left, At, Makes
  <2>3. refs[r] = 0 => \A f, g \in At(r)' : f = g
    BY <1>0, <1>2, <2>1 DEF OneRow, One
  <2> QED  BY <1>1, <1>2, <2>1, <2>2, <2>3 DEF Makes, At
<1>3. ASSUME NEW k, UNCHANGED <<copies, refs, orphaned>>, Joined(k),
             \A g \in DOMAIN hands : Makes(g)' <=> Makes(g)
      PROVE  One(r)'
  <2>1. r \notin orphaned /\ r \notin crossed
    BY <1>3 DEF Joined
  <2>2. At(r)' = IF k[2] = r THEN At(r) \cup {k} ELSE At(r)
    BY <1>3 DEF Joined, At
  <2>3. ~ Makes(k)'
    BY <1>3 DEF Joined, Makes
  <2>4. k[2] = r /\ refs[r] = 0 => At(r) = {}
    BY <1>3 DEF Joined
  <2>5. refs[r] = 0 => \A f, g \in At(r)' : f = g
    BY <1>0, <2>1, <2>2, <2>4 DEF OneRow, One
  <2>6. \A g \in At(r) : g \in DOMAIN hands
    BY DEF At
  <2> QED  BY <1>1, <1>3, <2>1, <2>2, <2>3, <2>5, <2>6
<1>4. ASSUME NEW q \in Records, TakeUp(q) PROVE One(r)'
  <2>1. UNCHANGED <<copies, refs, orphaned>>
    BY <1>4 DEF TakeUp
  <2>2. CASE UNCHANGED <<hands, crossed>>
    BY <1>0, <1>1, <2>1, <2>2 DEF At, Makes, OneRow, One
  <2>3. CASE Joined(<<q, q>>) /\ \A g \in DOMAIN hands : hands'[g] = hands[g]
    BY <1>3, <2>1, <2>3 DEF Joined, Makes
  <2> QED  BY <1>0, <1>4, <2>2, <2>3, Takes
<1>5. ASSUME NEW h \in DOMAIN hands, BringTask(h) PROVE One(r)'
  <2>1. UNCHANGED <<copies, refs, orphaned>>
    BY <1>5 DEF BringTask
  <2>2. PICK k : k = <<h[1], Parent[h[2]]>>
    OBVIOUS
  <2>3. /\ Joined(k) /\ hands'[h] = [hands[h] EXCEPT !.at = "waits"]
        /\ \A g \in DOMAIN hands \ {h} : hands'[g] = hands[g] /\ hands[h].at = "read"
    BY <1>0, <1>5, <2>2, Brings
  <2>4. hands'[h].at = "waits" /\ hands[h].at = "read"
    BY <1>0, <1>5, <2>3, HandTyped DEF Hand, BringTask
  <2> QED  BY <1>3, <2>1, <2>3, <2>4 DEF Joined, Makes
<1>6. ASSUME NEW h \in DOMAIN hands, Write(h) PROVE One(r)'
  <2>1. /\ UNCHANGED <<refs, orphaned, crossed>> /\ \A q \in Records \ {h[2]} : copies'[q] = copies[q]
        /\ (Updates(h) \/ Inserts(h) \/ Neither(h)) /\ hands[h].at \in {"read", "waits"}
    BY <1>0, <1>6, Writes DEF marks
  <2>2. ~ Makes(h) /\ One(r)
    BY <1>0, <1>6, <2>1 DEF Makes, Write, OneRow
  <2>3. CASE Neither(h)
    BY <1>2, <2>1, <2>2, <2>3 DEF Neither
  <2>4. CASE Updates(h)
    <3>1. Left({h}) /\ Len(copies'[r]) = Len(copies[r])
      BY <2>1, <2>4 DEF Updates
    <3>2. At(r)' \subseteq At(r) /\ \A g \in At(r)' : hands'[g] = hands[g]
      BY <3>1 DEF Left, At
    <3>3. Making(r)' <=> Making(r)
      BY <2>2, <3>1 DEF Left, At, Making, Makes
    <3> QED  BY <2>1, <2>2, <3>1, <3>2, <3>3 DEF One
  <2>5. CASE Inserts(h)
    <3>1. /\ DOMAIN hands' = DOMAIN hands /\ hands'[h].at = "made"
          /\ \A g \in DOMAIN hands \ {h} : hands'[g] = hands[g]
      BY <1>0, <2>5, HandTyped DEF Inserts, Hand
    <3>2. At(r)' = At(r)
      BY <3>1 DEF At
    <3>3. CASE h[2] # r
      <4>1. Making(r)' <=> Making(r)
        BY <3>1, <3>2, <3>3 DEF Making, Makes, At
      <4> QED  BY <2>1, <2>2, <3>2, <3>3, <4>1 DEF One
    <3>4. CASE h[2] = r
      <4>1. refs[r] = 0 /\ Len(copies'[r]) = Len(copies[r]) + 1
        BY <2>5, <3>4 DEF Inserts
      <4>2. At(r) = {h} /\ ~ Making(r)
        BY <2>2, <3>4, <4>1 DEF One, At, Making
      <4>3. Making(r)'
        BY <3>1, <3>2, <4>2 DEF Making, Makes, At
      <4> QED  BY <2>1, <2>2, <3>2, <4>1, <4>2, <4>3 DEF One
    <3> QED  BY <3>3, <3>4
  <2> QED  BY <2>1, <2>3, <2>4, <2>5
<1>7. ASSUME NEW h \in DOMAIN hands, Remember(h) PROVE One(r)'
  <2>1. /\ UNCHANGED <<copies, orphaned, crossed>> /\ Makes(h) /\ Left({h}) /\ refs'[h[2]] = hands[h].row
        /\ \A q \in Records \ {h[2]} : refs'[q] = refs[q]
    BY <1>0, <1>7, Remembers DEF marks
  <2>2. One(r)
    BY <1>0, <2>1 DEF OneRow
  <2>3. CASE h[2] # r
    <3>1. At(r)' = At(r) /\ \A g \in At(r) : hands'[g] = hands[g]
      BY <2>1, <2>3 DEF Left, At
    <3>2. Making(r)' <=> Making(r)
      BY <3>1 DEF Making, Makes, At
    <3> QED  BY <2>1, <2>2, <2>3, <3>1, <3>2 DEF One
  <2>4. CASE h[2] = r
    <3>1. Making(r) /\ refs[r] = 0 /\ Len(copies[r]) = 1
      BY <2>1, <2>2, <2>4 DEF One, Making, At
    <3>2. At(r) = {h}
      BY <2>2, <2>4, <3>1 DEF One, At
    <3>3. At(r)' = {}
      BY <2>1, <3>2 DEF Left, At
    <3>4. hands[h].row # 0
      BY <1>0, <2>1, <2>4, <3>1 DEF RowsAreThere
    <3> QED  BY <2>1, <2>4, <3>1, <3>3, <3>4 DEF One, Making
  <2> QED  BY <2>3, <2>4
<1>8. ASSUME NEW h \in DOMAIN hands, LeaveOut(h) PROVE One(r)'
  BY <1>2, <1>8, LeavesOut DEF marks, Makes
<1>9. ASSUME NEW slot, Fail(slot) PROVE One(r)'
  BY <1>0, <1>2, <1>9, Fails
<1>10. CASE Pool
  BY <1>4, <1>5, <1>6, <1>7, <1>8, <1>10 DEF Pool, Handle
<1>11. CASE \/ \E q \in Records : SourceChange(q)
            \/ \E i \in RunIds : AskRun(i) \/ CloseDeadRun(i) \/ CloseLateRun(i)
            \/ TokenLapses \/ SwitchOn \/ SwitchOff \/ RequestNightlyRuns \/ UNCHANGED svars
  <2>1. UNCHANGED <<copies, refs, hands, orphaned, crossed>>
    BY <1>11 DEF SourceChange, AskRun, CloseDeadRun, CloseLateRun, CloseRun, TokenLapses, SwitchOn, SwitchOff,
                 RequestNightlyRuns, svars, local, marks
  <2> QED  BY <1>0, <2>1 DEF OneRow, One, Making, Makes, At
<1>12. CASE (\E i \in RunIds : TakeRun(i)) \/ FinishRun \/ FailRun \/ Tick
  <2>1. UNCHANGED <<copies, refs, hands, orphaned, crossed>>
    BY <1>12 DEF TakeRun, FinishRun, FailRun, Tick, StartTick, ReadStream, CreateRun, AddJob, ClearRequest,
                 EndTick, local, marks
  <2> QED  BY <1>0, <2>1 DEF OneRow, One, Making, Makes, At
<1>13. CASE Kill
  <2>1. /\ UNCHANGED <<copies, refs, crossed>> /\ DOMAIN hands' = {} /\ orphaned \subseteq orphaned'
        /\ \A g \in DOMAIN hands : Makes(g) => g[2] \in orphaned'
    BY <1>13 DEF Kill, Made, Makes
  <2>2. One(r) /\ ~ Making(r) /\ At(r)' = {}
    BY <1>0, <2>1 DEF OneRow, Making, At
  <2> QED  BY <2>1, <2>2 DEF One, Making
<1> QED  BY <1>9, <1>10, <1>11, <1>12, <1>13 DEF AsanaNext

-----------------------------------------------------------------------------
(* The stream.                                                             *)

LEMMA StreamingStep == SyncInv /\ [AsanaNext]_svars => Streaming'
<1> SUFFICES ASSUME SyncInv, [AsanaNext]_svars PROVE Streaming'
  OBVIOUS
<1>0. SyncTyped /\ Placed /\ Streaming /\ importer \in Worker
  BY DEF SyncInv, SyncTyped
<1>1. ASSUME UNCHANGED <<sync, askLost>>, stream' \in {stream, "open", "lapsed"},
             \/ stream' = "open" \/ ~ Asking'
             \/ Asking /\ (importer.reset => importer'.reset)
      PROVE  Streaming'
  BY <1>0, <1>1 DEF Streaming
<1>2. CASE SwitchOn \/ RequestNightlyRuns
  BY <1>0, <1>2 DEF SwitchOn, RequestNightlyRuns, nightly, asana, local, marks, Streaming, Asking, SyncTyped
<1>3. CASE SwitchOff
  <2>1. importer'.pc = importer.pc /\ (Asking => importer'.reset) /\ ~ sync'.enabled
    BY <1>0, <1>3 DEF SwitchOff, Worker, Asking
  <2> QED  BY <2>1 DEF Streaming, Asking
<1>4. CASE ClearRequest
  BY <1>0, <1>4 DEF ClearRequest, asana, Streaming, Asking, Idle, SyncTyped
<1>5. CASE ReadStream
  BY <1>1, <1>5 DEF ReadStream, local, marks
<1>6. ASSUME NEW i \in RunIds, CreateRun(i) PROVE Streaming'
  <2>1. UNCHANGED <<sync, askLost, stream>> /\ Asking /\ importer'.reset = importer.reset
    BY <1>0, <1>6 DEF CreateRun, asana, local, marks, Asking, Worker
  <2> QED  BY <1>1, <2>1
<1>7. CASE AddJob
  <2>1. UNCHANGED <<sync, askLost, stream>> /\ Asking
    BY <1>0, <1>7 DEF AddJob, asana, local, marks, Asking
  <2>2. CASE importer' = Idle
    BY <1>1, <2>1, <2>2 DEF Asking, Idle
  <2>3. CASE importer' = [importer EXCEPT !.pc = "clear"]
    <3>1. importer'.reset = importer.reset
      BY <1>0, <2>3 DEF Worker
    <3> QED  BY <1>1, <2>1, <3>1
  <2> QED  BY <1>7, <2>2, <2>3 DEF AddJob
<1>8. CASE Pool \/ \E slot \in Slots : Fail(slot)
  <2>1. UNCHANGED <<sync, askLost, stream>> /\ ~ Asking'
    BY <1>0, <1>8, PoolFrame DEF SyncInv, asana, Asking, Running, Applying
  <2> QED  BY <1>1, <2>1
<1>10. CASE FinishRun \/ FailRun \/ Kill \/ EndTick
  <2>1. UNCHANGED <<sync, askLost, stream>> /\ ~ Asking'
    BY <1>10 DEF FinishRun, FailRun, Kill, EndTick, asana, local, marks, Asking, Idle
  <2> QED  BY <1>1, <2>1
<1>11. CASE StartTick \/ \E i \in RunIds : TakeRun(i)
  <2>1. UNCHANGED <<sync, askLost, stream>> /\ ~ Asking'
    BY <1>11 DEF StartTick, TakeRun, asana, local, marks, Asking, Idle
  <2> QED  BY <1>1, <2>1
<1>12. CASE (\E r \in Records : SourceChange(r)) \/ TokenLapses \/ UNCHANGED svars
  <2>1. UNCHANGED <<sync, askLost, importer>> /\ stream' \in {stream, "lapsed"}
    BY <1>12 DEF SourceChange, TokenLapses, svars, asana, local, marks
  <2> QED  BY <1>1, <2>1 DEF Asking
<1>13. CASE \E i \in RunIds : AskRun(i) \/ CloseDeadRun(i) \/ CloseLateRun(i)
  <2>1. UNCHANGED <<sync, askLost, importer, stream>>
    BY <1>13 DEF AskRun, CloseDeadRun, CloseLateRun, CloseRun, asana, local, marks
  <2> QED  BY <1>1, <2>1 DEF Asking
<1> QED  BY <1>2, <1>3, <1>4, <1>5, <1>6, <1>7, <1>8, <1>10, <1>11, <1>12, <1>13 DEF AsanaNext, Tick

-----------------------------------------------------------------------------
(* What is known to be old.                                                *)

\* Nothing that is told to have changed is forgotten: all that was asked is still asked,
\* and the stream loses nothing, unless Asana says that it did.
TellsOn ==
    /\ sync.needsFull => sync'.needsFull
    /\ missed \subseteq missed'
    /\ stream' = "lapsed" \/ (named \subseteq named' /\ stream' = stream)

LEMMA TellOutside ==
    ASSUME SyncInv, Following',
           \/ \E r \in Records : SourceChange(r)
           \/ \E i \in RunIds : AskRun(i) \/ CloseDeadRun(i) \/ CloseLateRun(i)
           \/ TokenLapses \/ SwitchOn \/ SwitchOff \/ RequestNightlyRuns
    PROVE  TellsOn
<1>1. CASE SwitchOn \/ RequestNightlyRuns
  BY <1>1 DEF SwitchOn, RequestNightlyRuns, nightly, SyncInv, SyncTyped, asana, TellsOn
<1>2. CASE SwitchOff
  BY <1>2 DEF SwitchOff, Following
<1>3. CASE \E i \in RunIds : AskRun(i) \/ CloseDeadRun(i) \/ CloseLateRun(i)
  BY <1>3 DEF AskRun, CloseDeadRun, CloseLateRun, CloseRun, asana, TellsOn
<1>4. ASSUME NEW q \in Records, SourceChange(q) PROVE TellsOn
  <2>1. UNCHANGED <<sync, stream>>
    BY <1>4 DEF SourceChange
  <2>2. named \subseteq named' /\ missed \subseteq missed'
    BY <1>4, SourceChanges
  <2> QED  BY <2>1, <2>2 DEF TellsOn
<1>5. CASE TokenLapses
  BY <1>5 DEF TokenLapses, TellsOn
<1> QED  BY <1>1, <1>2, <1>3, <1>4, <1>5

LEMMA TellInside ==
    ASSUME SyncTyped, HandsFit, KnownIsSo, Placed,
           \/ \E r \in Records : TakeUp(r)
           \/ \E h \in DOMAIN hands : BringTask(h) \/ LeaveOut(h) \/ Remember(h)
           \/ \E slot \in Slots : Fail(slot)
           \/ \E i \in RunIds : TakeRun(i) \/ CreateRun(i)
           \/ FinishRun \/ FailRun \/ Kill \/ StartTick \/ AddJob \/ EndTick \/ UNCHANGED svars
    PROVE  TellsOn
<1>1. CASE \/ \E r \in Records : TakeUp(r)
           \/ \E h \in DOMAIN hands : BringTask(h) \/ LeaveOut(h) \/ Remember(h)
  BY <1>1 DEF TakeUp, BringTask, LeaveOut, Remember, asana, TellsOn
<1>2. ASSUME NEW slot \in Slots, Fail(slot) PROVE TellsOn
  BY <1>2, Fails DEF Fail, asana, TellsOn
<1>3. CASE (\E i \in RunIds : TakeRun(i) \/ CreateRun(i)) \/ FinishRun \/ FailRun
  BY <1>3 DEF TakeRun, CreateRun, FinishRun, FailRun, asana, TellsOn
<1>4. CASE Kill \/ StartTick \/ AddJob \/ EndTick \/ UNCHANGED svars
  BY <1>4 DEF Kill, StartTick, AddJob, EndTick, svars, asana, TellsOn
<1> QED  BY <1>1, <1>2, <1>3, <1>4

LEMMA StillTold ==
    ASSUME TellsOn, NEW r, Told(r) \/ sync.needsFull
    PROVE  Told(r)' \/ sync'.needsFull
BY DEF TellsOn, Told

\* A change is told as it happens.
LEMMA ToldAtOnce ==
    ASSUME SyncInv, NEW r \in Records, NEW q \in Records, SourceChange(q), source'[r] # source[r]
    PROVE  /\ stream # "none" => Told(r)'
           /\ Following => Told(r)' \/ sync'.needsFull
<1>1. SyncTyped /\ Streaming
  BY DEF SyncInv
<1>2. PICK there \in BOOLEAN :
        /\ source' = [c \in Records |-> IF c \notin Struck(q, there) THEN source[c]
                                        ELSE [there |-> there, version |-> source[c].version + 1]]
        /\ stream = "open" => Struck(q, there) \subseteq named' \/ Struck(q, there) \subseteq missed'
        /\ UNCHANGED <<stream, sync>>
  BY SourceChanges
<1>3. r \in Struck(q, there)
  BY <1>2
<1> QED  BY <1>1, <1>2, <1>3 DEF SyncTyped, Streaming, Told, Following

LEMMA Followed == SyncInv /\ [AsanaNext]_svars /\ Following' => Following \/ sync'.needsFull
<1> SUFFICES ASSUME SyncInv, [AsanaNext]_svars, Following' PROVE Following \/ sync'.needsFull
  OBVIOUS
<1>1. CASE SwitchOn
  BY <1>1 DEF SwitchOn
<1>2. CASE SwitchOff
  BY <1>2 DEF SwitchOff, Following
<1>3. CASE RequestNightlyRuns \/ ClearRequest
  BY <1>3 DEF RequestNightlyRuns, ClearRequest, nightly, Following, local, marks, SyncInv, SyncTyped
<1>4. CASE \/ \E q \in Records : SourceChange(q)
           \/ \E i \in RunIds : AskRun(i) \/ CloseDeadRun(i) \/ CloseLateRun(i)
           \/ TokenLapses
  BY <1>4 DEF SourceChange, AskRun, CloseDeadRun, CloseLateRun, CloseRun, TokenLapses, local, marks, Following
<1>5. CASE (\E i \in RunIds : TakeRun(i) \/ CreateRun(i)) \/ FinishRun \/ FailRun
  BY <1>5 DEF TakeRun, CreateRun, FinishRun, FailRun, local, marks, Following
<1>6. CASE Kill \/ StartTick \/ AddJob \/ EndTick \/ ReadStream \/ UNCHANGED svars
  BY <1>6 DEF Kill, StartTick, AddJob, EndTick, ReadStream, svars, local, marks, Following
<1>7. CASE Pool \/ \E slot \in Slots : Fail(slot)
  BY <1>7, PoolFrame DEF SyncInv, Following
<1> QED  BY <1>1, <1>2, <1>3, <1>4, <1>5, <1>6, <1>7 DEF AsanaNext, Tick

LEMMA OutdatedStep == SyncInv /\ [AsanaNext]_svars => Outdated'
<1> DEFINE Heard(r) == Told(r)' \/ sync'.needsFull
<1> SUFFICES ASSUME SyncInv, [AsanaNext]_svars, Following', NEW r \in Records
             PROVE  /\ Running' /\ r \in importer'.todo => Listed(r)' \/ Heard(r)
                    /\ \A h \in At(r)' : hands'[h].got = source'[r] \/ Heard(r)
  BY DEF Outdated
<1> DEFINE Goal == /\ Running' /\ r \in importer'.todo => Listed(r)' \/ Heard(r)
                   /\ \A h \in At(r)' : hands'[h].got = source'[r] \/ Heard(r)
<1>0. /\ SyncTyped /\ Placed /\ HandsFit /\ KnownIsSo /\ RowsAreThere /\ Outdated /\ importer \in Worker
      /\ \A h : h \in At(r) <=> h \in DOMAIN hands /\ h[2] = r
      /\ \A h : h \in At(r)' <=> h \in DOMAIN hands' /\ h[2] = r
  BY DEF SyncInv, SyncTyped, At
<1>a. Following \/ sync'.needsFull
  BY Followed
<1>1. ASSUME TellsOn, source'[r] = source[r],
             Running' => Running /\ importer'.got = importer.got /\ importer'.todo \subseteq importer.todo,
             \A h \in At(r)' : \/ h \in At(r) /\ hands'[h].got = hands[h].got
                               \/ hands'[h].got = source'[r] \/ Heard(r)
      PROVE  Goal
  <2>1. CASE Following /\ (Told(r) \/ sync.needsFull)
    BY <1>1, <2>1, StillTold
  <2>2. CASE Following /\ ~ Told(r) /\ ~ sync.needsFull
    BY <1>0, <1>1, <2>2 DEF Outdated, Listed
  <2> QED  BY <1>a, <2>1, <2>2
<1>2. ASSUME NEW q \in Records, SourceChange(q) PROVE Goal
  <2>1. UNCHANGED <<importer, hands, sync, askLost>>
    BY <1>2 DEF SourceChange, local, marks
  <2>2. CASE source'[r] # source[r]
    BY <1>2, <2>1, <2>2, ToldAtOnce DEF Following
  <2>3. CASE source'[r] = source[r]
    BY <1>0, <1>1, <1>2, <2>1, <2>3, TellOutside DEF Running
  <2> QED  BY <2>2, <2>3
<1>b. CASE Pool \/ \E slot \in Slots : Fail(slot)
  <2>1. /\ source' = source /\ (Running' => Running) /\ importer'.got = importer.got
        /\ importer'.todo \subseteq importer.todo
        /\ UNCHANGED <<named, stream, sync, askLost>> /\ Following
    BY <1>0, <1>b, PoolFrame DEF asana, Running, Following
  <2>2. ASSUME NEW q \in Records, TakeUp(q) PROVE Goal
    <3>1. TellsOn
      BY <1>0, <2>2, TellInside
    <3>2. CASE hands' = hands
      BY <1>0, <1>1, <2>1, <3>1, <3>2
    <3>3. CASE Joined(<<q, q>>) /\ \A g \in DOMAIN hands : hands'[g] = hands[g]
      <4>1. hands'[<<q, q>>].got = Fetched(q) /\ DOMAIN hands' = DOMAIN hands \cup {<<q, q>>}
        BY <3>3 DEF Joined
      <4>2. Fetched(q) = source[q] \/ Heard(q)
        <5> SUFFICES ASSUME Fetched(q) # source[q] PROVE Heard(q)
          OBVIOUS
        <5>1. Running /\ q \in importer.todo /\ importer.got[q] # source[q] /\ importer.got[q].there
          BY <2>2 DEF Fetched, Running, TakeUp
        <5>2. Told(q) \/ sync.needsFull
          BY <1>0, <2>1, <5>1 DEF Outdated, Listed
        <5> QED  BY <3>1, <5>2, StillTold
      <4>3. \A h \in At(r)' : (h \in At(r) /\ hands'[h].got = hands[h].got) \/ h = <<q, q>>
        BY <1>0, <3>3, <4>1
      <4>4. <<q, q>> \in At(r)' => q = r
        BY <1>0
      <4> HIDE DEF Heard
      <4>5. \A h \in At(r)' : \/ h \in At(r) /\ hands'[h].got = hands[h].got
                              \/ hands'[h].got = source'[r] \/ Heard(r)
        BY <2>1, <4>1, <4>2, <4>3, <4>4
      <4> QED  BY <1>1, <2>1, <3>1, <4>5 DEF Heard
    <3> QED  BY <1>0, <2>2, <3>2, <3>3, Takes
  <2>3. ASSUME NEW h \in DOMAIN hands, BringTask(h) PROVE Goal
    <3>1. TellsOn
      BY <1>0, <2>3, TellInside
    <3>2. PICK p \in Records : p = Parent[h[2]]
      BY <1>0, <2>3, Brings
    <3>3. PICK k : k = <<h[1], p>>
      OBVIOUS
    <3>4. /\ Joined(k) /\ hands'[h] = [hands[h] EXCEPT !.at = "waits"] /\ Fetched(p) = source[p]
          /\ \A g \in DOMAIN hands \ {h} : hands'[g] = hands[g]
      BY <1>0, <2>3, <3>2, <3>3, Brings
    <3>5. hands'[h].got = hands[h].got
      BY <1>0, <3>4, HandTyped DEF Hand
    <3>6. hands'[k].got = source[p] /\ k[2] = p /\ DOMAIN hands' = DOMAIN hands \cup {k}
      BY <3>3, <3>4 DEF Joined
    <3>7. \A g \in DOMAIN hands : hands'[g].got = hands[g].got
      BY <3>4, <3>5
    <3>8. \A g \in At(r)' : \/ g \in At(r) /\ hands'[g].got = hands[g].got
                            \/ hands'[g].got = source'[r]
      BY <1>0, <2>1, <3>6, <3>7
    <3> QED  BY <1>1, <2>1, <3>1, <3>8
  <2>4. ASSUME NEW h \in DOMAIN hands, Left({h}), TellsOn PROVE Goal
    <3>1. \A g \in At(r)' : g \in At(r) /\ hands'[g].got = hands[g].got
      BY <1>0, <2>4 DEF Left
    <3> QED  BY <1>1, <2>1, <2>4, <3>1
  <2>5. ASSUME NEW h \in DOMAIN hands, LeaveOut(h) \/ Remember(h) PROVE Goal
    <3>1. Left({h})
      BY <1>0, <2>5, LeavesOut, Remembers
    <3>2. TellsOn
      BY <1>0, <2>5, TellInside
    <3> QED  BY <2>4, <3>1, <3>2
  <2>6. ASSUME NEW slot \in Slots, Fail(slot) PROVE Goal
    <3>1. TellsOn
      BY <1>0, <2>6, TellInside
    <3>2. \A g \in At(r)' : g \in At(r) /\ hands'[g].got = hands[g].got
      BY <1>0, <2>6, Fails DEF Left
    <3> QED  BY <1>1, <2>1, <3>1, <3>2
  <2>7. ASSUME NEW h \in DOMAIN hands, Write(h) PROVE Goal
    <3>1. /\ importer' = importer /\ missed \ {h[2]} \subseteq missed'
          /\ missed' = missed \/ (hands[h].got = source[h[2]] /\ At(h[2]) = {h})
          /\ Updates(h) \/ Inserts(h) \/ Neither(h)
      BY <1>0, <2>7, Writes
    <3>2. ASSUME NEW g \in At(r)' PROVE g \in At(r) /\ hands'[g].got = hands[g].got
      <4>1. CASE Left({h})
        BY <1>0, <3>2, <4>1 DEF Left
      <4>2. CASE Inserts(h)
        <5>1. hands'[h].got = hands[h].got /\ DOMAIN hands' = DOMAIN hands
          BY <1>0, <4>2, HandTyped DEF Inserts, Hand
        <5> QED  BY <1>0, <3>2, <4>2, <5>1 DEF Inserts
      <4> QED  BY <3>1, <4>1, <4>2 DEF Updates, Neither
    <3>3. CASE r # h[2] \/ missed' = missed
      <4>1. Told(r) => Told(r)'
        BY <2>1, <3>1, <3>3 DEF Told
      <4> QED  BY <1>0, <2>1, <3>1, <3>2, <4>1 DEF Outdated, Listed, Running
    <3>4. CASE r = h[2] /\ hands[h].got = source[r] /\ At(r) = {h}
      <4>1. Running => r \notin importer.todo
        BY <1>0, <3>4 DEF HandsFit, Fitting, Running, Applying
      <4>2. \A g \in At(r)' : hands'[g].got = source'[r]
        BY <2>1, <3>2, <3>4
      <4> QED  BY <2>1, <3>1, <4>1, <4>2
    <3> QED  BY <3>1, <3>3, <3>4
  <2> QED  BY <1>b, <2>2, <2>3, <2>5, <2>6, <2>7 DEF Pool, Handle
<1>6. ASSUME NEW i \in RunIds, TakeRun(i) PROVE Goal
  <2>1. /\ importer'.pc = "run" /\ importer'.got = source /\ source' = source /\ hands' = hands
        /\ ~ (Running \/ Applying)
    BY <1>6 DEF TakeRun, Idle, asana, local, Running, Applying
  <2> QED  BY <1>0, <2>1, NoHands DEF Listed
<1>7. CASE SwitchOff
  BY <1>7 DEF SwitchOff, Following
<1>8. CASE \/ \E i \in RunIds : AskRun(i) \/ CloseDeadRun(i) \/ CloseLateRun(i)
           \/ TokenLapses \/ SwitchOn \/ RequestNightlyRuns
  <2>1. UNCHANGED <<source, hands, importer>>
    BY <1>8 DEF AskRun, CloseDeadRun, CloseLateRun, CloseRun, TokenLapses, SwitchOn, RequestNightlyRuns,
                asana, local
  <2> QED  BY <1>0, <1>1, <1>8, <2>1, TellOutside DEF Running
<1>9. CASE FinishRun \/ FailRun \/ Kill \/ EndTick \/ StartTick \/ ReadStream \/ AddJob \/ ClearRequest
           \/ \E i \in RunIds : CreateRun(i)
  <2>1. CASE FinishRun \/ FailRun \/ Kill \/ EndTick
    <3>1. importer' = Idle /\ DOMAIN hands' = {}
      BY <2>1 DEF FinishRun, FailRun, Kill, EndTick, local
    <3> QED  BY <1>0, <3>1 DEF Idle, Running
  <2>2. CASE StartTick \/ ReadStream \/ AddJob \/ ClearRequest \/ \E i \in RunIds : CreateRun(i)
    <3>1. hands' = hands /\ ~ (Running \/ Applying)
      BY <2>2 DEF StartTick, ReadStream, AddJob, ClearRequest, CreateRun, local, Running, Applying
    <3>2. ~ Running'
      <4>1. CASE StartTick
        <5>1. importer'.pc = "read"
          BY <4>1 DEF StartTick, Idle
        <5> QED  BY <5>1 DEF Running
      <4>3. CASE ClearRequest
        BY <4>3 DEF ClearRequest, Idle, Running
      <4>2. CASE ReadStream \/ AddJob \/ \E i \in RunIds : CreateRun(i)
        <5>1. \/ importer' = Idle \/ importer' = [importer EXCEPT !.pc = "clear"]
              \/ importer'.pc \in {"full", "apply", "add"}
          BY <1>0, <4>2 DEF ReadStream, AddJob, CreateRun, Worker
        <5> QED  BY <1>0, <5>1 DEF Idle, Worker, Running
      <4> QED  BY <2>2, <4>1, <4>2, <4>3
    <3> QED  BY <1>0, <3>1, <3>2, NoHands
  <2> QED  BY <1>9, <2>1, <2>2
<1>10. CASE UNCHANGED svars
  BY <1>0, <1>1, <1>10, TellInside DEF svars, asana, local, Running
<1> QED  BY <1>2, <1>b, <1>6, <1>7, <1>8, <1>9, <1>10 DEF AsanaNext, Tick

-----------------------------------------------------------------------------
(* What is out of date here.                                               *)

\* A run that waits goes on waiting, unless it is taken up, finishes or is closed.
LEMMA StillWaiting ==
    ASSUME Waiting, \A i \in RunIds : UnderWay(i) /\ runs[i].job => runs'[i] = runs[i],
           Running' => Running /\ importer'.run = importer.run
    PROVE  Waiting'
BY DEF Waiting, UnderWay

\* The two ways a record comes to be out of date, or to be so no longer.
LEMMA OutOfDate ==
    ASSUME NEW r \in Records, r \in Unfetched',
           source'[r] = source[r], copies'[r] = copies[r], refs'[r] = refs[r]
    PROVE  r \in Unfetched
BY DEF Unfetched, Current

\* Where nothing is said of it, a run goes on being there.
LEMMA RunsKept ==
    ASSUME SyncInv,
           \/ \E r \in Records : SourceChange(r)
           \/ \E i \in RunIds : AskRun(i) \/ CloseDeadRun(i) \/ CreateRun(i)
           \/ TokenLapses \/ SwitchOn \/ SwitchOff \/ RequestNightlyRuns
           \/ Kill \/ StartTick \/ ReadStream \/ ClearRequest \/ EndTick \/ AddJob
           \/ Pool \/ \E slot \in Slots : Fail(slot)
    PROVE  \A i \in RunIds : UnderWay(i) /\ runs[i].job => runs'[i] = runs[i]
<1> SUFFICES ASSUME NEW i \in RunIds, UnderWay(i), runs[i].job PROVE runs'[i] = runs[i]
  OBVIOUS
<1>0. runs \in [RunIds -> Run] /\ Placed
  BY DEF SyncInv, SyncTyped
<1>1. CASE runs' = runs
  BY <1>1
<1>2. ASSUME NEW j \in RunIds, AskRun(j) \/ CloseDeadRun(j) \/ CreateRun(j) PROVE runs'[i] = runs[i]
  <2>1. j # i
    BY <1>2 DEF AskRun, CloseDeadRun, CreateRun
  <2> QED  BY <1>0, <1>2, <2>1 DEF AskRun, CloseDeadRun, CloseRun, CreateRun
<1>3. CASE AddJob
  <2>1. importer.run # i
    BY <1>0, <1>3 DEF AddJob, Placed
  <2> QED  BY <1>0, <1>3, <2>1 DEF AddJob
<1>4. CASE (\E r \in Records : SourceChange(r)) \/ TokenLapses \/ SwitchOn \/ SwitchOff \/ RequestNightlyRuns
  BY <1>4 DEF SourceChange, TokenLapses, SwitchOn, SwitchOff, RequestNightlyRuns
<1>5. CASE Kill \/ StartTick \/ ReadStream \/ ClearRequest \/ EndTick
  BY <1>5 DEF Kill, StartTick, ReadStream, ClearRequest, EndTick
<1>6. CASE Pool \/ \E slot \in Slots : Fail(slot)
  BY <1>6, PoolFrame DEF SyncInv
<1> QED  BY <1>2, <1>3, <1>4, <1>5, <1>6

LEMMA ChangedStep == SyncInv /\ [AsanaNext]_svars => Changed'
<1> DEFINE Fine(r) == Told(r)' \/ sync'.needsFull \/ Waiting' \/ Held(r)'
<1> SUFFICES ASSUME SyncInv, [AsanaNext]_svars, Following', NEW r \in Unfetched' PROVE Fine(r)
  BY DEF Changed
<1>0. SyncTyped /\ Placed /\ HandsFit /\ KnownIsSo /\ RowsAreThere /\ Changed /\ importer \in Worker
  BY DEF SyncInv, SyncTyped
<1>a. r \in Records
  BY DEF Unfetched
<1>b. Following \/ sync'.needsFull
  BY Followed
<1>1. ASSUME TellsOn, source'[r] = source[r], copies'[r] = copies[r], refs'[r] = refs[r],
             Waiting => Waiting', r \in Unfetched /\ Held(r) => Fine(r)
      PROVE  Fine(r)
  <2>1. CASE Following /\ (Told(r) \/ sync.needsFull)
    BY <1>1, <2>1, StillTold
  <2>2. CASE Following /\ ~ Told(r) /\ ~ sync.needsFull
    BY <1>0, <1>1, <1>a, <2>2, OutOfDate DEF Changed
  <2> QED  BY <1>b, <2>1, <2>2
<1>2. ASSUME Unfetched' = Unfetched, Unfetched \subseteq missed' PROVE Fine(r)
  BY <1>2 DEF Told
<1>3. ASSUME NEW q \in Records, SourceChange(q) PROVE Fine(r)
  <2>1. UNCHANGED <<importer, hands, copies, refs, sync, askLost, runs>>
    BY <1>3 DEF SourceChange, local, marks
  <2>2. CASE source'[r] # source[r]
    BY <1>3, <1>a, <2>1, <2>2, ToldAtOnce DEF Following
  <2>3. CASE source'[r] = source[r]
    <3>1. (Waiting => Waiting') /\ (Held(r) => Held(r)')
      BY <2>1, <2>3 DEF Waiting, UnderWay, Running, Held, Applying, Grasped, At, Listed
    <3> QED  BY <1>1, <1>3, <2>1, <2>3, <3>1, TellOutside
  <2> QED  BY <2>2, <2>3
<1>4. CASE TokenLapses
  BY <1>4 DEF TokenLapses, Told
<1>5. ASSUME NEW i \in RunIds, AskRun(i) PROVE Fine(r)
  <2>1. UnderWay(i)' /\ runs'[i].job /\ importer' = importer /\ i # importer.run
    BY <1>0, <1>5 DEF AskRun, UnderWay, SyncTyped
  <2> QED  BY <2>1 DEF Waiting
<1>6. ASSUME NEW i \in RunIds, CloseDeadRun(i) PROVE Fine(r)
  <2>1. UNCHANGED <<source, copies, refs, importer, hands>>
    BY <1>6 DEF CloseDeadRun, CloseRun, asana, local
  <2>2. (Waiting => Waiting') /\ (Held(r) => Held(r)')
    <3>1. \A j \in RunIds : UnderWay(j) /\ runs[j].job => runs'[j] = runs[j]
      BY <1>6, RunsKept
    <3> QED  BY <2>1, <3>1, StillWaiting DEF Running, Held, Applying, Grasped, At, Listed
  <2> QED  BY <1>1, <1>6, <2>1, <2>2, TellOutside
<1>7. ASSUME NEW i \in RunIds, CloseLateRun(i) PROVE Fine(r)
  BY <1>2, <1>7 DEF CloseLateRun, CloseRun, asana, local, Unfetched, Current
<1>8. CASE SwitchOn \/ RequestNightlyRuns
  BY <1>0, <1>8 DEF SwitchOn, RequestNightlyRuns, nightly, SyncTyped
<1>9. CASE SwitchOff
  BY <1>9 DEF SwitchOff, Following
<1>10. CASE UNCHANGED svars
  <2>1. (Waiting => Waiting') /\ (Held(r) => Held(r)')
    BY <1>10 DEF svars, asana, local, Waiting, UnderWay, Running, Held, Applying, Grasped, At, Listed
  <2> QED  BY <1>1, <1>0, <1>10, <2>1, TellInside DEF svars, asana, local
<1>c. CASE Pool \/ \E slot \in Slots : Fail(slot)
  <2>1. /\ UNCHANGED <<source, named, stream, sync, askLost, runs>> /\ Following
        /\ importer'.run = importer.run /\ importer'.got = importer.got /\ importer'.todo \subseteq importer.todo
        /\ (Running' <=> Running) /\ (Applying' <=> Applying) /\ (Running \/ Applying)
        /\ (Waiting => Waiting')
    <3>1. /\ UNCHANGED <<source, named, stream, sync, askLost, runs>> /\ Following
          /\ importer'.run = importer.run /\ importer'.got = importer.got /\ importer'.todo \subseteq importer.todo
          /\ (Running' <=> Running) /\ (Applying' <=> Applying) /\ (Running \/ Applying)
      BY <1>0, <1>c, PoolFrame DEF asana, Running, Applying, Following
    <3> QED  BY <3>1 DEF Waiting, UnderWay
  \* What is held stays held, if the record is still to be taken up or in the same hands.
  <2>2. ASSUME Held(r), r \in importer.todo => r \in importer'.todo,
               Grasped(r) => Grasped(r)'
        PROVE  Held(r)'
    <3>1. ~ (importer.pc \in {"full", "add"})
      BY <2>1 DEF Running, Applying
    <3> QED  BY <2>1, <2>2, <3>1 DEF Held, Listed
  <2>3. ASSUME \A g \in At(r) : g \in DOMAIN hands' /\ hands'[g].got = hands[g].got
        PROVE  Grasped(r) => Grasped(r)'
    BY <2>1, <2>3 DEF Grasped, At
  <2>4. ASSUME NEW q \in Records, TakeUp(q) PROVE Fine(r)
    <3>1. TellsOn /\ UNCHANGED <<copies, refs>> /\ q \in importer.todo /\ importer'.todo = importer.todo \ {q}
      BY <1>0, <2>4, TellInside, Takes DEF TakeUp
    <3>2. \A g \in At(r) : g \in DOMAIN hands' /\ hands'[g].got = hands[g].got
      BY <1>0, <2>4, Takes DEF Joined, At
    <3>3. CASE r # q
      <4>1. Held(r) => Held(r)'
        BY <2>2, <2>3, <3>1, <3>2, <3>3
      <4> QED  BY <1>1, <2>1, <3>1, <4>1
    <3>4. CASE r = q /\ (Listed(q) \/ Applying)
      <4>1. ~ LeftAlone(q) /\ Fetched(q) = source[q]
        BY <1>0, <1>a, <2>1, <3>4 DEF LeftAlone, Fetched, Listed, Running, Applying, SyncTyped, Version
      <4>2. Joined(<<q, q>>)
        BY <1>0, <2>4, <4>1, Takes
      <4>3. <<q, q>> \in At(q)' /\ hands'[<<q, q>>].got = source[q]
        BY <4>1, <4>2 DEF Joined, At
      <4> QED  BY <2>1, <3>4, <4>3 DEF Grasped, Held
    <3>5. CASE r = q /\ ~ Listed(q) /\ ~ Applying
      <4>1. Held(r) => Grasped(r)
        BY <2>1, <3>5 DEF Held, Running, Applying
      <4>2. Held(r) => Held(r)'
        BY <2>3, <3>2, <4>1 DEF Held
      <4> QED  BY <1>1, <2>1, <3>1, <4>2
    <3> QED  BY <3>3, <3>4, <3>5
  <2>5. ASSUME NEW h \in DOMAIN hands, BringTask(h) PROVE Fine(r)
    <3>1. TellsOn /\ UNCHANGED <<copies, refs, importer>>
      BY <1>0, <2>5, TellInside DEF BringTask
    <3>2. PICK k : k = <<h[1], Parent[h[2]]>>
      OBVIOUS
    <3>3. /\ Joined(k) /\ hands'[h] = [hands[h] EXCEPT !.at = "waits"]
          /\ \A g \in DOMAIN hands \ {h} : hands'[g] = hands[g]
      BY <1>0, <2>5, <3>2, Brings
    <3>4. \A g \in At(r) : g \in DOMAIN hands' /\ hands'[g].got = hands[g].got
      BY <1>0, <3>3, HandTyped DEF Joined, At, Hand
    <3>5. Held(r) => Held(r)'
      BY <2>2, <2>3, <3>1, <3>4
    <3> QED  BY <1>1, <2>1, <3>1, <3>5
  <2>6. ASSUME NEW h \in DOMAIN hands, LeaveOut(h) PROVE Fine(r)
    <3>1. TellsOn /\ UNCHANGED <<copies, refs, importer>> /\ Left({h})
      BY <1>0, <2>6, TellInside, LeavesOut
    \* What is left out is no longer as it was read.
    <3>2. hands[h].got # source[h[2]]
      <4> SUFFICES ASSUME hands[h].got = source[h[2]] PROVE FALSE
        OBVIOUS
      <4>1. hands[h].at = "waits" /\ Brought(h) /\ ~ Placeable(h)
        BY <2>6, LeavesOut
      <4>2. Fitting(h) /\ importer.known = refs
        BY <1>0, <2>1 DEF HandsFit, KnownIsSo, Running, Applying
      <4> QED  BY <4>1, <4>2 DEF Fitting, Brought, Placeable, Known
    <3>3. Grasped(r) => Grasped(r)'
      BY <2>1, <3>1, <3>2 DEF Grasped, At, Left
    <3>4. Held(r) => Held(r)'
      BY <2>2, <3>1, <3>3
    <3> QED  BY <1>1, <2>1, <3>1, <3>4
  <2>7. ASSUME NEW h \in DOMAIN hands, Write(h) PROVE Fine(r)
    <3>1. /\ UNCHANGED <<refs, importer>> /\ \A q \in Records \ {h[2]} : copies'[q] = copies[q]
          /\ missed \ {h[2]} \subseteq missed'
          /\ missed' = missed \/ (hands[h].got = source[h[2]] /\ At(h[2]) = {h})
          /\ Updates(h) \/ Inserts(h) \/ Neither(h)
      BY <1>0, <2>7, Writes
    <3>2. CASE r # h[2]
      <4>1. Told(r) => Told(r)'
        BY <2>1, <3>1, <3>2 DEF Told
      <4>2. \A g \in At(r) : g \in DOMAIN hands' /\ hands'[g].got = hands[g].got
        BY <3>1, <3>2 DEF At, Updates, Inserts, Neither, Left
      <4>3. Held(r) => Held(r)'
        BY <2>2, <2>3, <3>1, <4>2
      <4>4. r \in Unfetched
        BY <1>a, <2>1, <3>1, <3>2, OutOfDate
      <4> QED  BY <1>0, <2>1, <4>1, <4>3, <4>4 DEF Changed
    <3>3. CASE r = h[2] /\ hands[h].got # source[r]
      <4>1. Told(r) \/ sync.needsFull
        BY <1>a, <2>1, <3>3 DEF SyncInv, Outdated, At
      <4> QED  BY <2>1, <3>1, <3>3, <4>1 DEF Told
    <3>4. CASE r = h[2] /\ hands[h].got = source[r]
      <4>1. ~ Current(r)'
        BY DEF Unfetched
      <4>2. CASE Inserts(h)
        <5>1. h \in At(r)' /\ hands'[h].got = source'[r]
          BY <1>0, <2>1, <3>4, <4>2, HandTyped DEF Inserts, At, Hand
        <5> QED  BY <5>1 DEF Grasped, Held
      <4>3. CASE Updates(h)
        BY <2>1, <3>1, <3>4, <4>1, <4>3 DEF Updates, Current
      <4>4. CASE Neither(h)
        BY <2>1, <3>1, <3>4, <4>1, <4>4 DEF Neither, Current
      <4> QED  BY <3>1, <4>2, <4>3, <4>4
    <3> QED  BY <3>2, <3>3, <3>4
  <2>8. ASSUME NEW h \in DOMAIN hands, Remember(h) PROVE Fine(r)
    <3>1. /\ TellsOn /\ copies' = copies /\ Makes(h) /\ Left({h}) /\ refs'[h[2]] = hands[h].row
          /\ \A q \in Records \ {h[2]} : refs'[q] = refs[q]
      BY <1>0, <2>8, TellInside, Remembers
    <3>2. importer'.todo = importer.todo
      BY <1>0, <2>8 DEF Remember, Worker
    <3>3. CASE r # h[2]
      <4>1. \A g \in At(r) : g \in DOMAIN hands' /\ hands'[g].got = hands[g].got
        BY <3>1, <3>3 DEF At, Left
      <4>2. Held(r) => Held(r)'
        BY <2>2, <2>3, <3>2, <4>1
      <4> QED  BY <1>1, <1>a, <2>1, <3>1, <3>3, <4>2
    <3>4. CASE r = h[2]
      <4>1. copies'[r][refs'[r]] = hands[h].got.version /\ refs'[r] # 0
        BY <1>0, <3>1, <3>4, HandTyped DEF RowsAreThere, SyncTyped
      <4>2. hands[h].got # source[r]
        BY <2>1, <4>1 DEF Unfetched, Current
      <4>3. Told(r) \/ sync.needsFull
        BY <1>a, <2>1, <3>4, <4>2 DEF SyncInv, Outdated, At
      <4> QED  BY <3>1, <4>3, StillTold
    <3> QED  BY <3>3, <3>4
  <2>9. ASSUME NEW slot \in Slots, Fail(slot) PROVE Fine(r)
    <3>1. /\ TellsOn /\ UNCHANGED <<copies, refs>> /\ Left(HeldBy(slot))
          /\ importer.todo \ importer'.todo \subseteq missed' /\ \A h \in HeldBy(slot) : h[2] \in missed'
      BY <1>0, <2>9, TellInside, Fails
    <3>2. CASE r \in missed'
      BY <3>2 DEF Told
    <3>3. CASE r \notin missed'
      <4>1. \A g \in At(r) : g \in DOMAIN hands' /\ hands'[g].got = hands[g].got
        BY <3>1, <3>3 DEF Left, At
      <4>2. Held(r) => Held(r)'
        BY <2>2, <2>3, <3>1, <3>3, <4>1
      <4> QED  BY <1>1, <2>1, <3>1, <4>2
    <3> QED  BY <3>2, <3>3
  <2> QED  BY <1>c, <2>4, <2>5, <2>6, <2>7, <2>8, <2>9 DEF Pool, Handle
<1>15. ASSUME NEW i \in RunIds, TakeRun(i) PROVE Fine(r)
  <2>1. /\ UNCHANGED <<source, copies, refs>> /\ importer'.pc = "run" /\ importer'.got = source
        /\ importer'.todo = {q \in Records : source[q].there \/ refs[q] # 0}
    BY <1>15 DEF TakeRun, Idle, asana, local
  <2>2. ~ Current(r)
    BY <1>a, <2>1, OutOfDate DEF Unfetched
  <2>3. r \in importer'.todo
    BY <1>a, <2>1, <2>2 DEF Current
  <2> QED  BY <2>1, <2>3 DEF Held, Running, Listed
<1>16. CASE FinishRun
  <2>1. /\ UNCHANGED <<source, copies, refs>> /\ importer.pc = "run" /\ importer.todo = {} /\ importer' = Idle
        /\ \A i \in RunIds : i # importer.run => runs'[i] = runs[i]
    BY <1>0, <1>16 DEF FinishRun, asana, local, SyncTyped
  <2>2. ~ Held(r)
    <3>1. DOMAIN hands = {}
      BY <1>16 DEF FinishRun
    <3> QED  BY <2>1, <3>1 DEF Held, Applying, Grasped, At
  <2>3. Waiting => Waiting'
    BY <2>1 DEF Waiting, UnderWay, Running, Idle
  <2> QED  BY <1>0, <1>1, <1>16, <2>1, <2>2, <2>3, TellInside
<1>17. CASE FailRun
  BY <1>2, <1>17 DEF FailRun, asana, local, Unfetched, Current
<1>18. CASE Kill
  <2>1. UNCHANGED <<source, copies, refs, sync, runs>> /\ ~ Running'
    BY <1>18 DEF Kill, asana, Running, Idle
  <2>2. Waiting => Waiting'
    BY <2>1, StillWaiting
  <2>3. CASE Running /\ UnderWay(importer.run)
    <3>1. importer.run \in RunIds /\ runs[importer.run].job
      BY <1>0, <2>3 DEF Placed, Worker
    <3> QED  BY <2>1, <2>3, <3>1 DEF Waiting, UnderWay
  <2>4. CASE ~ (Running /\ UnderWay(importer.run))
    <3>1. r \in Unfetched /\ Held(r) => Told(r)' \/ sync'.needsFull
      BY <1>0, <1>18, <2>1, <2>4, KillMisses DEF Held, Told, Running, Applying, Grasped, At, HandsFit, Fitting
    <3> QED  BY <1>0, <1>1, <1>18, <2>1, <2>2, <3>1, TellInside
  <2> QED  BY <2>3, <2>4
<1>19. CASE StartTick
  <2>1. UNCHANGED <<source, copies, refs, runs>> /\ importer.pc = "idle" /\ ~ Running'
    BY <1>19 DEF StartTick, asana, local, Running, Idle
  <2>2. ~ Held(r)
    BY <1>0, <2>1, NoHands DEF Held, Running, Applying, Grasped, At
  <2> QED  BY <1>0, <1>1, <1>19, <2>1, <2>2, StillWaiting, TellInside
<1>20. CASE ReadStream
  <2>1. /\ UNCHANGED <<source, copies, refs, runs, sync, askLost, missed>> /\ importer.pc = "read"
        /\ \/ importer'.pc = "full"
           \/ importer'.pc = "apply" /\ importer'.todo = named /\ stream # "lapsed"
    BY <1>0, <1>20 DEF ReadStream, local, marks, Worker, fullNeeded
  <2>2. CASE importer'.pc = "full"
    BY <2>2 DEF Held
  <2>3. CASE importer'.pc = "apply" /\ importer'.todo = named /\ stream # "lapsed"
    <3>1. r \in Unfetched /\ ~ Held(r) /\ Following
      BY <1>0, <1>a, <2>1, OutOfDate, NoHands DEF Held, Running, Applying, Grasped, At, Following
    <3>2. Waiting => Waiting'
      BY <2>1, <2>3, StillWaiting DEF Running
    <3>3. Told(r) => Told(r)' \/ Held(r)'
      BY <2>1, <2>3 DEF Told, Held, Applying
    <3> QED  BY <1>0, <2>1, <3>1, <3>2, <3>3 DEF Changed
  <2> QED  BY <2>1, <2>2, <2>3
<1>21. ASSUME NEW i \in RunIds, CreateRun(i) PROVE Fine(r)
  BY <1>0, <1>21 DEF CreateRun, Held, Worker
<1>22. CASE AddJob
  <2>1. CASE runs' = [runs EXCEPT ![importer.run].job = TRUE] /\ importer' = [importer EXCEPT !.pc = "clear"]
    <3>1. importer.run \in RunIds /\ UnderWay(importer.run)
      BY <1>0, <1>22 DEF AddJob, Placed, Worker
    <3>2. runs'[importer.run].job /\ runs'[importer.run].status # "none"
      BY <1>0, <2>1, <3>1 DEF UnderWay, SyncTyped, Run, Worker
    <3>3. ~ Running'
      BY <1>0, <2>1 DEF Running, Worker
    <3> QED  BY <3>1, <3>2, <3>3 DEF Waiting, UnderWay
  <2>2. CASE sync.needsFull
    BY <1>22, <2>2 DEF AddJob
  <2>3. CASE missed' = missed \cup Unfetched
    BY <1>2, <1>22, <2>3 DEF AddJob, asana, local, Unfetched, Current
  <2> QED  BY <1>22, <2>1, <2>2, <2>3 DEF AddJob
<1>23. CASE ClearRequest
  <2>1. /\ UNCHANGED <<source, copies, refs, runs, named, stream, missed>>
        /\ importer.pc = "clear" /\ ~ Running' /\ ~ importer.reset
    BY <1>0, <1>23 DEF ClearRequest, asana, Running, Idle, Following, SyncTyped
  <2>2. Told(r) \/ Waiting
    BY <1>a, <2>1, OutOfDate DEF SyncInv, Met
  <2> QED  BY <2>1, <2>2, StillWaiting DEF Told
<1>24. CASE EndTick
  <2>1. UNCHANGED <<source, copies, refs, runs>> /\ importer.pc = "apply" /\ importer.todo = {} /\ ~ Running'
    BY <1>24 DEF EndTick, asana, local, Running, Idle
  <2>2. ~ Held(r)
    <3>1. DOMAIN hands = {}
      BY <1>24 DEF EndTick
    <3> QED  BY <2>1, <3>1 DEF Held, Running, Grasped, At
  <2> QED  BY <1>0, <1>1, <1>24, <2>1, <2>2, StillWaiting, TellInside
<1> QED  BY <1>3, <1>4, <1>5, <1>6, <1>7, <1>8, <1>9, <1>10, <1>c, <1>15, <1>16, <1>17,
            <1>18, <1>19, <1>20, <1>21, <1>22, <1>23, <1>24 DEF AsanaNext, Tick

LEMMA MetStep == SyncInv /\ [AsanaNext]_svars => Met'
<1> SUFFICES ASSUME SyncInv, [AsanaNext]_svars, importer'.pc = "clear", ~ importer'.reset,
                    NEW r \in Unfetched'
             PROVE  Told(r)' \/ Waiting'
  BY DEF Met
<1>0. SyncTyped /\ Placed /\ HandsFit /\ KnownIsSo /\ Streaming /\ Met /\ importer \in Worker /\ r \in Records
  BY DEF SyncInv, SyncTyped, Unfetched
<1>1. ASSUME importer' = importer, source'[r] = source[r], copies'[r] = copies[r], refs'[r] = refs[r],
             missed \subseteq missed', stream' = "lapsed" \/ (named \subseteq named' /\ stream' = stream),
             \A i \in RunIds : UnderWay(i) /\ runs[i].job => runs'[i] = runs[i]
      PROVE  Told(r)' \/ Waiting'
  <2>1. Told(r) \/ Waiting
    BY <1>0, <1>1, OutOfDate DEF Met
  <2>2. CASE Told(r)
    BY <1>1, <2>2 DEF Told
  <2>3. CASE Waiting
    BY <1>1, <2>3, StillWaiting DEF Running
  <2> QED  BY <2>1, <2>2, <2>3
<1>2. ASSUME NEW q \in Records, SourceChange(q) PROVE Told(r)' \/ Waiting'
  <2>1. UNCHANGED <<importer, copies, refs, stream>> /\ named \subseteq named' /\ missed \subseteq missed'
    BY <1>2, SourceChanges DEF local
  <2>2. CASE source'[r] # source[r]
    BY <1>0, <1>2, <2>1, <2>2, ToldAtOnce DEF Streaming, Asking
  <2>3. CASE source'[r] = source[r]
    BY <1>1, <1>2, <2>1, <2>3, RunsKept
  <2> QED  BY <2>2, <2>3
<1>3. CASE TokenLapses
  BY <1>3 DEF TokenLapses, Told
<1>4. ASSUME NEW i \in RunIds, AskRun(i) \/ CloseDeadRun(i) PROVE Told(r)' \/ Waiting'
  <2>1. UNCHANGED <<source, copies, refs, importer, named, stream, missed>>
    BY <1>4 DEF AskRun, CloseDeadRun, CloseRun, asana, local
  <2> QED  BY <1>1, <1>4, <2>1, RunsKept
<1>5. ASSUME NEW i \in RunIds, CloseLateRun(i) PROVE Told(r)' \/ Waiting'
  <2>1. UNCHANGED <<source, copies, refs>> /\ missed' = missed \cup Unfetched
    BY <1>5 DEF CloseLateRun, CloseRun, asana, local
  <2> QED  BY <1>0, <2>1, OutOfDate DEF Told
<1>6. CASE SwitchOn \/ RequestNightlyRuns \/ UNCHANGED svars
  <2>1. UNCHANGED <<source, copies, refs, importer, named, stream, missed, runs>>
    BY <1>6 DEF SwitchOn, RequestNightlyRuns, svars, asana, local
  <2> QED  BY <1>1, <2>1
<1>7. CASE SwitchOff
  <2>1. importer'.pc = importer.pc /\ (importer.pc = "clear" => importer'.reset)
    BY <1>0, <1>7 DEF SwitchOff, Worker
  <2> QED  BY <2>1
<1>8. CASE Pool \/ \E slot \in Slots : Fail(slot)
  BY <1>0, <1>8, PoolFrame DEF Running, Applying
<1>10. ASSUME NEW i \in RunIds, TakeRun(i) \/ CreateRun(i) PROVE FALSE
  BY <1>0, <1>10 DEF TakeRun, CreateRun, Idle, Worker
<1>11. CASE FinishRun \/ FailRun \/ Kill \/ StartTick \/ ClearRequest \/ EndTick
  <2>1. importer' = Idle \/ importer'.pc = "read"
    BY <1>11 DEF FinishRun, FailRun, Kill, StartTick, ClearRequest, EndTick, Idle
  <2> QED  BY <2>1 DEF Idle
<1>12. CASE ReadStream
  <2>1. importer'.pc \in {"full", "apply"}
    BY <1>0, <1>12 DEF ReadStream, Worker
  <2> QED  BY <2>1
<1>13. CASE AddJob
  <2>1. runs' = [runs EXCEPT ![importer.run].job = TRUE]
    <3>1. importer' # Idle
      BY DEF Idle
    <3> QED  BY <1>13, <3>1 DEF AddJob
  <2>2. importer.run \in RunIds /\ runs[importer.run].status # "none"
    BY <1>0, <1>13 DEF AddJob, Placed, UnderWay, Worker
  <2>3. runs'[importer.run].job /\ runs'[importer.run].status # "none"
    BY <1>0, <2>1, <2>2 DEF SyncTyped, Run
  <2>4. ~ Running'
    BY DEF Running
  <2> QED  BY <2>2, <2>3, <2>4 DEF Waiting, UnderWay
<1> QED  BY <1>2, <1>3, <1>4, <1>5, <1>6, <1>7, <1>8, <1>10, <1>11, <1>12, <1>13 DEF AsanaNext, Tick

-----------------------------------------------------------------------------
(* The theorems.                                                           *)

LEMMA SyncStarts == AsanaInit => SyncInv
<1> SUFFICES ASSUME AsanaInit PROVE SyncInv
  OBVIOUS
<1>1. Idle \in Worker /\ NoRun \in Run
  BY WorkerIdle DEF NoRun, Run
<1>2. SyncTyped
  <2>1. source \in [Records -> Version]
    BY DEF AsanaInit, Version
  <2>2. runs \in [RunIds -> Run] /\ importer \in Worker
    BY <1>1 DEF AsanaInit
  <2>3. copies \in [Records -> Seq(Nat)] /\ refs \in [Records -> Nat]
    BY DEF AsanaInit, NoRefs
  <2>4. sync \in [enabled : BOOLEAN, needsFull : BOOLEAN] /\ askLost \in BOOLEAN /\ stale \in BOOLEAN
    BY DEF AsanaInit
  <2>5. DOMAIN hands = {}
    BY DEF AsanaInit
  <2> QED  BY <2>1, <2>2, <2>3, <2>4, <2>5 DEF AsanaInit, SyncTyped
<1>3. DOMAIN hands = {}
  BY DEF AsanaInit
<1>4. Placed /\ KnownIsSo /\ HandsFit
  BY <1>3 DEF AsanaInit, Placed, KnownIsSo, HandsFit, Running, Applying, Asking, Idle
<1>5. RowsAreThere /\ OneRow
  <2>1. \A r \in Records : refs[r] = 0 /\ Len(copies[r]) = 0 /\ At(r) = {}
    BY <1>3 DEF AsanaInit, NoRefs, At
  <2> QED  BY <1>3, <2>1 DEF RowsAreThere, OneRow, One, Making
<1>6. Streaming /\ Changed /\ Met
  BY DEF AsanaInit, Streaming, Changed, Met, Following, Asking, Idle
<1>7. Outdated
  BY DEF AsanaInit, Outdated, Following
<1> QED  BY <1>2, <1>4, <1>5, <1>6, <1>7 DEF SyncInv

LEMMA SyncStays == SyncInv /\ [AsanaNext]_svars => SyncInv'
BY SyncTypedStep, PlacedStep, FitsStep, KnownStep, RowsStep, OneStep, StreamingStep, ChangedStep, OutdatedStep, MetStep
   DEF SyncInv

LEMMA SyncAlways == AsanaSpec => []SyncInv
BY SyncStarts, SyncStays, PTL DEF AsanaSpec

\* The class comment of AsanaImportRun: runs and ticks in any order, and the hands of each,
\* converge on one row of a record, unless a process stopped, or an update failed, between
\* the row and its ref, or two hands of one tick were at a new record.
THEOREM SyncMakesOneRow == AsanaSpec => []NoDoubles
<1>1. SyncInv => NoDoubles
  <2> SUFFICES ASSUME SyncInv, NEW r \in Records \ (orphaned \cup crossed) PROVE Len(copies[r]) <= 1
    BY DEF NoDoubles
  <2>1. One(r)
    BY DEF SyncInv, OneRow
  <2> QED  BY <2>1 DEF One
<1> QED  BY <1>1, SyncAlways, PTL

\* While live sync is on, no change in Asana that is not shown here is lost sight of: by
\* whatever tick, run, switch or token it passes, something is still to fetch it, or a
\* fault is known to have dropped it.
THEOREM NoChangeIsLost == AsanaSpec => []ChangesAwaited
<1>1. SyncInv => ChangesAwaited
  <2> SUFFICES ASSUME SyncInv, Following, NEW r \in Unfetched PROVE Awaited(r) \/ r \in missed
    BY DEF ChangesAwaited, Following
  <2>1. SyncTyped /\ Placed /\ Changed
    BY DEF SyncInv
  <2>2. CASE Told(r) \/ sync.needsFull
    BY <2>2 DEF Told, Awaited
  <2>3. CASE Held(r)
    BY <2>3 DEF Held, Running, Applying, Grasped, Listed, Awaited, InHand
  <2>4. CASE Waiting
    <3>1. PICK i \in RunIds : UnderWay(i) /\ runs[i].job /\ ~ (Running /\ importer.run = i)
      BY <2>4 DEF Waiting
    <3>2. CASE importer.run # i
      BY <3>1, <3>2 DEF Awaited
    <3>3. CASE importer.run = i
      BY <2>1, <3>1, <3>3, SyncAssumption DEF Placed, Awaited, InHand
    <3> QED  BY <3>2, <3>3
  <2> QED  BY <2>1, <2>2, <2>3, <2>4 DEF Changed
<1> QED  BY <1>1, SyncAlways, PTL
=============================================================================
