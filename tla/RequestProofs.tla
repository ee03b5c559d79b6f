---------------------------- MODULE RequestProofs ----------------------------
(***************************************************************************)
(* What holds of requests that repeat or overlap, however many there are.  *)
(*                                                                         *)
(* A completed task has its one next occurrence: `next` and `of` name each *)
(* other, so a task cannot have two; and whoever stamps a task goes on to  *)
(* spawn, so one without a next has a spawn on its way.                    *)
(*                                                                         *)
(* A key creates one record: while nothing is loose, at most one request   *)
(* is at work, it has the key, and what is kept says how many records      *)
(* there are.                                                              *)
(***************************************************************************)
EXTENDS TaskCompletion, IdempotentCreate, SequenceTheorems, FiniteSetTheorems, TLAPS

-----------------------------------------------------------------------------
(* A task that repeats.                                                    *)

Row == [status : {"open", "done"}, definition : {"none", "open", "done"}, stamped : BOOLEAN,
        gone : BOOLEAN, next : Nat, of : Nat]
Edit == [pc : {"idle", "again", "write", "spawn", "create"}, via : {"pane", "list", "rule"},
         task : Nat, wants : {"done", "open", "back", "other"}, was : {"unread", "open", "done"},
         before : BOOLEAN, copy : BOOLEAN]

RowsTyped == repeats \in Seq(Row)
EditsTyped ==
    /\ editing \in [Edits -> Edit]
    /\ \A e \in Edits : editing[e].pc # "idle" => editing[e].task \in DOMAIN repeats

\* The two ends of a repeat name each other.
Linked == \A t \in DOMAIN repeats :
    /\ repeats[t].next # 0 => /\ repeats[t].next \in DOMAIN repeats
                              /\ repeats[repeats[t].next].of = t
    /\ repeats[t].of # 0 => /\ repeats[t].of \in DOMAIN repeats
                            /\ repeats[repeats[t].of].next = t

Spawning(t) == \E e \in Edits : editing[e].task = t /\ editing[e].pc \in {"spawn", "create"}

\* What the pane and a rule read first is what they write from.
OneRead == \A e \in Edits :
    /\ editing[e].pc = "write" /\ editing[e].via # "list" => editing[e].before = editing[e].copy
    /\ editing[e].pc = "again" => editing[e].via = "list"

Owed == \A t \in DOMAIN repeats : repeats[t].stamped /\ repeats[t].next = 0 => t \in slipped \/ Spawning(t)

CompletionInv == RowsTyped /\ EditsTyped /\ Linked /\ OneRead /\ Owed

-----------------------------------------------------------------------------
(* Lemmas about rows.                                                      *)

\* A row that is written changes alone.
LEMMA RowWritten ==
    ASSUME RowsTyped, NEW t \in DOMAIN repeats, NEW r \in Row, repeats' = [repeats EXCEPT ![t] = r]
    PROVE  /\ RowsTyped' /\ DOMAIN repeats' = DOMAIN repeats
           /\ \A n \in DOMAIN repeats : repeats'[n] = IF n = t THEN r ELSE repeats[n]
<1>1. t \in 1 .. Len(repeats) /\ DOMAIN repeats = 1 .. Len(repeats)
    BY LenProperties DEF RowsTyped
<1>2. RowsTyped' /\ Len(repeats') = Len(repeats)
    BY <1>1, ExceptSeq DEF RowsTyped
<1>3. DOMAIN repeats' = 1 .. Len(repeats')
    BY <1>2, LenProperties DEF RowsTyped
<1>4. \A n \in DOMAIN repeats : repeats'[n] = IF n = t THEN r ELSE repeats[n]
    BY <1>1, ExceptSeq DEF RowsTyped
<1>. QED
    BY <1>1, <1>2, <1>3, <1>4

\* A write that leaves both ends of every repeat as they are leaves them linked.
LEMMA LinksKept ==
    ASSUME Linked, DOMAIN repeats' = DOMAIN repeats,
           \A n \in DOMAIN repeats : repeats'[n].next = repeats[n].next /\ repeats'[n].of = repeats[n].of
    PROVE  Linked'
BY DEF Linked

LEMMA FreshIsRow ==
    ASSUME NEW t \in Nat, NEW definition \in {"none", "open"}
    PROVE  /\ fresh(t, definition) \in Row
           /\ fresh(t, definition).of = t /\ fresh(t, definition).next = 0
           /\ ~ fresh(t, definition).stamped
BY DEF fresh, Row

-----------------------------------------------------------------------------
(* Each action keeps the invariant.                                        *)

LEMMA ReadKeepsInv ==
    ASSUME CompletionInv, NEW e \in Edits, NEW t \in DOMAIN repeats, NEW via \in {"pane", "list", "rule"},
           NEW wants \in {"done", "open", "back", "other"}, Read(e, t, via, wants)
    PROVE  CompletionInv'
<1>1. repeats[t] \in Row /\ t \in Nat
    BY LenProperties, ElementOfSeq DEF CompletionInv, RowsTyped
<1>. DEFINE r == [pc |-> IF via = "list" /\ wants # "other" THEN "again" ELSE "write",
             via |-> via, task |-> t, wants |-> wants,
             was |-> IF via = "list" THEN shown(repeats[t]) ELSE "unread",
             before |-> repeats[t].stamped, copy |-> repeats[t].stamped]
<1>2. r \in Edit
    <2>1. shown(repeats[t]) \in {"open", "done"}
        BY <1>1 DEF shown, Row
    <2>. QED
        BY <1>1, <2>1 DEF Edit, Row
<1>3. editing' = [editing EXCEPT ![e] = r] /\ editing[e].pc = "idle" /\ UNCHANGED <<repeats, slipped>>
    BY DEF Read
<1>4. r.pc \in {"again", "write"} /\ r.task = t /\ r.before = r.copy /\ (r.pc = "again" => r.via = "list")
    OBVIOUS
<1>. HIDE DEF r
<1>5. RowsTyped' /\ EditsTyped' /\ Linked' /\ OneRead'
    BY <1>2, <1>3, <1>4 DEF CompletionInv, RowsTyped, EditsTyped, Linked, OneRead
<1>6. \A u \in Nat : Spawning(u) => Spawning(u)'
    BY <1>3 DEF Spawning
<1>7. Owed'
    BY <1>3, <1>6, LenProperties DEF CompletionInv, RowsTyped, Owed
<1>. QED
    BY <1>5, <1>7 DEF CompletionInv

\* An edit that ends, or moves within its reads, changes no row.
LEMMA EditsKeepInv ==
    ASSUME CompletionInv, NEW e \in Edits, ReadAgain(e) \/ Skip(e) \/ SpawnReads(e) \/ SpawnFails(e)
    PROVE  CompletionInv'
<1>. DEFINE t == editing[e].task
<1>1. t \in DOMAIN repeats /\ repeats[t] \in Row /\ editing[e] \in Edit
    BY LenProperties, ElementOfSeq DEF CompletionInv, RowsTyped, EditsTyped, ReadAgain, Skip, SpawnReads, SpawnFails
<1>2. repeats' = repeats /\ slipped \subseteq slipped'
    BY DEF ReadAgain, Skip, SpawnReads, SpawnFails
<1>3. PICK r \in Edit :
        /\ editing' = [editing EXCEPT ![e] = r]
        /\ r.pc # "idle" => r.task = t
        /\ r.pc = "write" => r.via = "list" \/ r.before = r.copy
        /\ r.pc # "again"
        /\ editing[e].pc \in {"spawn", "create"} =>
                \/ r.pc \in {"spawn", "create"} /\ r.task = t
                \/ ~ repeats[t].stamped \/ repeats[t].next # 0 \/ t \in slipped'
    <2>1. NoEdit \in Edit /\ NoEdit.pc = "idle"
        BY DEF NoEdit, Edit
    <2>2. CASE ReadAgain(e)
        <3>1. [editing[e] EXCEPT !.pc = "write", !.copy = repeats[t].stamped] \in Edit
            BY <1>1 DEF Edit, Row
        <3>2. editing[e].pc = "again" /\ editing[e].via = "list"
            BY <2>2 DEF ReadAgain, CompletionInv, OneRead
        <3>3. editing' = [editing EXCEPT ![e] = [editing[e] EXCEPT !.pc = "write", !.copy = repeats[t].stamped]]
            BY <2>2 DEF ReadAgain, CompletionInv, EditsTyped
        <3>. QED
            BY <1>1, <3>1, <3>2, <3>3 DEF Edit
    <2>3. CASE Skip(e) \/ SpawnFails(e)
        BY <2>1, <2>3 DEF Skip, SpawnFails
    <2>4. CASE SpawnReads(e)
        <3>1. [editing[e] EXCEPT !.pc = "create"] \in Edit
            BY <1>1 DEF Edit
        <3>2. CASE repeats[t].stamped /\ repeats[t].next = 0 /\ ~ repeats[t].gone
            BY <1>1, <2>4, <3>1, <3>2 DEF SpawnReads, Edit
        <3>3. CASE ~ (repeats[t].stamped /\ repeats[t].next = 0 /\ ~ repeats[t].gone)
            BY <1>1, <2>1, <2>4, <3>3 DEF SpawnReads
        <3>. QED
            BY <3>2, <3>3
    <2>. QED
        BY <2>2, <2>3, <2>4
<1>4. RowsTyped' /\ EditsTyped' /\ Linked'
    BY <1>1, <1>2, <1>3 DEF CompletionInv, RowsTyped, EditsTyped, Linked
<1>5. OneRead'
    BY <1>2, <1>3 DEF CompletionInv, OneRead, EditsTyped
<1>6. Owed'
    BY <1>1, <1>2, <1>3 DEF CompletionInv, Owed, Spawning, EditsTyped
<1>. QED
    BY <1>4, <1>5, <1>6 DEF CompletionInv

\* Whoever stamps a task has it spawned, but for the list where it slips.
LEMMA WriteKeepsInv ==
    ASSUME CompletionInv, NEW e \in Edits, Write(e)
    PROVE  CompletionInv'
<1>1. PICK t \in DOMAIN repeats : t = editing[e].task /\ repeats[t] \in Row /\ editing[e] \in Edit
    BY LenProperties, ElementOfSeq DEF CompletionInv, RowsTyped, EditsTyped, Write
<1>. DEFINE me == editing[e]
<1>2. PICK column \in columns(me.via), also \in BOOLEAN :
        LET after == rewritten(me, repeats[t], column)
            spawns == seesChange(me, after, also) /\ ~ me.before /\ after.stamped IN
        /\ repeats' = [repeats EXCEPT ![t] = after]
        /\ editing' = [editing EXCEPT ![e] = IF spawns THEN [me EXCEPT !.pc = "spawn"] ELSE NoEdit]
        /\ slipped' = IF me.via = "list" /\ after.stamped /\ ~ repeats[t].stamped /\ ~ spawns
                      THEN slipped \cup {t} ELSE slipped
    BY <1>1 DEF Write
<1>. DEFINE row == rewritten(me, repeats[t], column)
            after == row.stamped
            spawns == seesChange(me, row, also) /\ ~ me.before /\ after
<1>3. /\ row \in Row /\ row.next = repeats[t].next /\ row.of = repeats[t].of
      /\ after = stampedAfter(me, repeats[t].stamped)
    <2>1. stampedAfter(me, repeats[t].stamped) \in BOOLEAN
        BY <1>1 DEF stampedAfter, Edit, Row
    <2>. QED
        BY <1>1, <2>1 DEF rewritten, Row
<1>4. repeats' = [repeats EXCEPT ![t] = row]
    BY <1>2
<1>5. /\ RowsTyped' /\ DOMAIN repeats' = DOMAIN repeats
      /\ \A n \in DOMAIN repeats : repeats'[n] = IF n = t THEN row ELSE repeats[n]
    BY <1>3, <1>4, RowWritten DEF CompletionInv
<1>6. Linked'
    BY <1>3, <1>5, LinksKept DEF CompletionInv
<1>7. PICK r \in Edit :
        /\ editing' = [editing EXCEPT ![e] = r] /\ r.pc \in {"idle", "spawn"}
        /\ r.pc = "spawn" => r.task = t
        /\ after /\ ~ repeats[t].stamped => t \in slipped' \/ r.pc = "spawn"
    <2>1. [me EXCEPT !.pc = "spawn"] \in Edit /\ NoEdit \in Edit /\ NoEdit.pc = "idle"
        BY <1>1 DEF NoEdit, Edit
    <2>2. /\ me.pc = "write"
          /\ editing' = [editing EXCEPT ![e] = IF spawns THEN [me EXCEPT !.pc = "spawn"] ELSE NoEdit]
        BY <1>2 DEF Write
    <2>. HIDE DEF row
    <2>3. CASE spawns
        BY <1>1, <2>1, <2>2, <2>3 DEF Edit
    <2>4. CASE ~ spawns
        <3>1. ASSUME after, ~ repeats[t].stamped
              PROVE  me.wants = "done" /\ ~ me.copy
            BY <1>1, <1>3, <3>1 DEF stampedAfter, Edit, Row
        <3>2. ASSUME after, ~ repeats[t].stamped
              PROVE  me.via = "list"
            <4>1. me.via # "list" => me.before = me.copy
                BY <2>2 DEF CompletionInv, OneRead
            <4>. QED
                BY <1>1, <2>4, <3>1, <3>2, <4>1 DEF Edit, seesChange
        <3>3. ASSUME after, ~ repeats[t].stamped
              PROVE  t \in slipped'
            BY <1>2, <2>4, <3>2, <3>3 DEF row
        <3>. QED
            BY <2>1, <2>2, <2>4, <3>3
    <2>. QED
        BY <2>3, <2>4
<1>8. slipped \subseteq slipped' /\ me.pc = "write"
    BY <1>2 DEF Write
<1>. HIDE DEF row
<1>9. EditsTyped' /\ OneRead'
    BY <1>1, <1>5, <1>7 DEF CompletionInv, EditsTyped, OneRead
<1>10. \A n \in DOMAIN repeats : Spawning(n) => Spawning(n)'
    BY <1>7, <1>8 DEF Spawning, CompletionInv, EditsTyped
<1>11. Owed'
    <2>1. SUFFICES ASSUME NEW n \in DOMAIN repeats, repeats'[n].stamped, repeats'[n].next = 0
                   PROVE  n \in slipped' \/ Spawning(n)'
        BY <1>5 DEF Owed
    <2>2. CASE n = t /\ ~ repeats[t].stamped
        <3>1. t \in slipped' \/ r.pc = "spawn"
            BY <1>3, <1>5, <1>7, <2>1, <2>2
        <3>. QED
            BY <1>7, <2>2, <3>1 DEF Spawning, CompletionInv, EditsTyped
    <2>3. CASE n # t \/ repeats[t].stamped
        BY <1>3, <1>5, <1>8, <1>10, <2>1, <2>3 DEF CompletionInv, Owed
    <2>. QED
        BY <2>2, <2>3
<1>. QED
    BY <1>5, <1>6, <1>9, <1>11 DEF CompletionInv

\* Neither archiving nor a drag to another column bears on who has a next one.
LEMMA PutKeepsInv ==
    ASSUME CompletionInv, NEW t \in DOMAIN repeats,
           Archive(t) \/ \E definition \in {"open", "done"} : Move(t, definition)
    PROVE  CompletionInv'
<1>1. repeats[t] \in Row
    BY LenProperties, ElementOfSeq DEF CompletionInv, RowsTyped
<1>2. PICK row \in Row :
        /\ row.next = repeats[t].next /\ row.of = repeats[t].of /\ row.stamped = repeats[t].stamped
        /\ repeats' = [repeats EXCEPT ![t] = row]
    <2>1. CASE Archive(t)
        <3>1. [repeats[t] EXCEPT !.gone = ~ @] \in Row
            BY <1>1 DEF Row
        <3>. QED
            BY <1>1, <2>1, <3>1 DEF Archive, Row
    <2>2. ASSUME NEW definition \in {"open", "done"}, Move(t, definition)
          PROVE  \E row \in Row :
                    /\ row.next = repeats[t].next /\ row.of = repeats[t].of
                    /\ row.stamped = repeats[t].stamped
                    /\ repeats' = [repeats EXCEPT ![t] = row]
        <3>1. [repeats[t] EXCEPT !.definition = definition] \in Row
            BY <1>1 DEF Row
        <3>. QED
            BY <1>1, <2>2, <3>1 DEF Move, Row
    <2>. QED
        BY <2>1, <2>2
<1>3. UNCHANGED <<editing, slipped>>
    BY DEF Archive, Move
<1>4. /\ RowsTyped' /\ DOMAIN repeats' = DOMAIN repeats
      /\ \A n \in DOMAIN repeats : repeats'[n] = IF n = t THEN row ELSE repeats[n]
    BY <1>2, RowWritten DEF CompletionInv
<1>5. Linked'
    BY <1>2, <1>4, LinksKept DEF CompletionInv
<1>6. EditsTyped' /\ OneRead'
    BY <1>3, <1>4 DEF CompletionInv, EditsTyped, OneRead
<1>7. Owed'
    BY <1>2, <1>3, <1>4 DEF CompletionInv, Owed, Spawning
<1>. QED
    BY <1>4, <1>5, <1>6, <1>7 DEF CompletionInv

\* The claim and the new row are written together, so the two ends meet.
LEMMA SpawnCreatesKeepsInv ==
    ASSUME CompletionInv, NEW e \in Edits, SpawnCreates(e)
    PROVE  CompletionInv'
<1>1. PICK t \in DOMAIN repeats : t = editing[e].task /\ repeats[t] \in Row
    BY LenProperties, ElementOfSeq DEF CompletionInv, RowsTyped, EditsTyped, SpawnCreates
<1>2. Len(repeats) \in Nat /\ DOMAIN repeats = 1 .. Len(repeats)
    BY LenProperties DEF CompletionInv, RowsTyped
<1>3. /\ NoEdit \in Edit /\ NoEdit.pc = "idle"
      /\ editing' = [editing EXCEPT ![e] = NoEdit] /\ slipped' = slipped
    BY DEF SpawnCreates, NoEdit, Edit
<1>4. CASE repeats[t].next = 0
    <2>0. PICK definition \in {"none", "open"} :
            repeats' = Append([repeats EXCEPT ![t].next = Len(repeats) + 1], fresh(t, definition))
        BY <1>1, <1>4 DEF SpawnCreates, claims, opensOn
    <2>. DEFINE n == Len(repeats) + 1
               row == [repeats[t] EXCEPT !.next = n]
               claimed == [repeats EXCEPT ![t] = row]
               born == fresh(t, definition)
    <2>1. /\ row \in Row /\ row.next = n /\ row.of = repeats[t].of
          /\ born \in Row /\ born.of = t /\ born.next = 0 /\ ~ born.stamped
        BY <1>1, <1>2, FreshIsRow DEF Row
    <2>2. repeats' = Append(claimed, born)
        BY <2>0
    <2>. HIDE DEF row, born
    <2>3. /\ claimed \in Seq(Row) /\ Len(claimed) = Len(repeats)
          /\ \A m \in DOMAIN repeats : claimed[m] = IF m = t THEN row ELSE repeats[m]
        BY <1>1, <1>2, <2>1, ExceptSeq DEF CompletionInv, RowsTyped
    <2>. HIDE DEF claimed
    <2>4. /\ RowsTyped' /\ Len(repeats') = n
          /\ \A m \in DOMAIN repeats : repeats'[m] = IF m = t THEN row ELSE repeats[m]
          /\ repeats'[n] = born
        BY <1>2, <2>1, <2>2, <2>3, AppendProperties DEF RowsTyped
    <2>5. DOMAIN repeats' = DOMAIN repeats \cup {n} /\ n \notin DOMAIN repeats
        <3>1. DOMAIN repeats' = 1 .. n
            BY <2>4, LenProperties DEF RowsTyped
        <3>. QED
            BY <1>2, <3>1
    <2>. HIDE DEF n
    <2>6. EditsTyped' /\ OneRead'
        BY <1>3, <2>5 DEF CompletionInv, EditsTyped, OneRead
    <2>7. Linked'
        <3>1. n # 0 /\ t # 0 /\ t # n
            BY <1>1, <1>2, <2>5 DEF n
        <3>2. ASSUME NEW m \in DOMAIN repeats
              PROVE  /\ repeats'[m].next # 0 => repeats'[m].next \in DOMAIN repeats'
                                               /\ repeats'[repeats'[m].next].of = m
                     /\ repeats'[m].of # 0 => repeats'[m].of \in DOMAIN repeats'
                                             /\ repeats'[repeats'[m].of].next = m
            <4>1. /\ repeats[m].next # 0 => /\ repeats[m].next \in DOMAIN repeats
                                            /\ repeats[repeats[m].next].of = m
                  /\ repeats[m].of # 0 => /\ repeats[m].of \in DOMAIN repeats
                                          /\ repeats[repeats[m].of].next = m
                BY DEF CompletionInv, Linked
            <4>2. repeats'[m].of = repeats[m].of
                BY <2>1, <2>4
            <4>3. repeats[m].of # 0 => repeats[m].of # t
                BY <1>4, <3>2, <4>1, <1>2
            <4>. QED
                BY <2>1, <2>4, <2>5, <4>1, <4>2, <4>3
        <3>3. repeats'[n].next = 0 /\ repeats'[n].of = t /\ repeats'[t].next = n
            BY <1>1, <2>1, <2>4
        <3>. QED
            BY <1>1, <2>5, <3>2, <3>3 DEF Linked
    <2>8. Owed'
        <3>1. \A u : Spawning(u) => u = t \/ Spawning(u)'
            BY <1>1, <1>3 DEF Spawning, CompletionInv, EditsTyped
        <3>2. repeats'[t].next # 0
            BY <1>1, <1>2, <2>1, <2>4 DEF n
        <3>. QED
            BY <1>3, <2>1, <2>4, <2>5, <3>1, <3>2 DEF CompletionInv, Owed
    <2>. QED
        BY <2>4, <2>6, <2>7, <2>8 DEF CompletionInv
<1>5. CASE repeats[t].next # 0
    <2>1. repeats' = repeats
        BY <1>1, <1>5 DEF SpawnCreates, claims
    <2>2. RowsTyped' /\ EditsTyped' /\ Linked' /\ OneRead'
        BY <1>3, <2>1 DEF CompletionInv, RowsTyped, EditsTyped, Linked, OneRead
    <2>3. Owed'
        BY <1>1, <1>3, <1>5, <2>1 DEF CompletionInv, Owed, Spawning, EditsTyped
    <2>. QED
        BY <2>2, <2>3 DEF CompletionInv
<1>. QED
    BY <1>4, <1>5

-----------------------------------------------------------------------------

LEMMA CompletionInitInv == ASSUME CompletionInit PROVE CompletionInv
<1>1. PICK definition \in {"none", "open"} : repeats = <<fresh(0, definition)>>
    BY DEF CompletionInit
<1>2. RowsTyped /\ DOMAIN repeats = {1} /\ repeats[1] = fresh(0, definition)
    BY <1>1, FreshIsRow DEF RowsTyped
<1>3. NoEdit \in Edit /\ editing = [e \in Edits |-> NoEdit] /\ NoEdit.pc = "idle"
    BY DEF CompletionInit, NoEdit, Edit
<1>4. EditsTyped /\ OneRead
    BY <1>3 DEF EditsTyped, OneRead
<1>5. Linked /\ Owed
    BY <1>2 DEF Linked, Owed, fresh
<1>. QED
    BY <1>2, <1>4, <1>5 DEF CompletionInv

LEMMA CompletionNextKeepsInv ==
    ASSUME CompletionInv, [CompletionNext]_completionVars
    PROVE  CompletionInv'
<1>1. CASE UNCHANGED completionVars
    BY <1>1 DEF completionVars, CompletionInv, RowsTyped, EditsTyped, Linked, OneRead, Owed, Spawning
<1>2. CASE CompletionNext
    BY <1>2, ReadKeepsInv, EditsKeepInv, WriteKeepsInv, SpawnCreatesKeepsInv, PutKeepsInv, Zenon
       DEF CompletionNext
<1>. QED
    BY <1>1, <1>2

\* For any number of edits side by side, a task that is complete has one next
\* occurrence or a spawn on its way, save where making it failed, the task was
\* archived by then, or the list had first read it done (spawnNextOccurrence).
THEOREM NextOccurrenceOnce == CompletionSpec => []OneNext
<1>1. CompletionInit => CompletionInv
    BY CompletionInitInv
<1>2. CompletionInv /\ [CompletionNext]_completionVars => CompletionInv'
    BY CompletionNextKeepsInv
<1>3. CompletionInv => OneNext
    <2>1. SUFFICES ASSUME CompletionInv, NEW t \in DOMAIN repeats
                   PROVE  LET nexts == {n \in DOMAIN repeats : repeats[n].of = t} IN
                          /\ Cardinality(nexts) <= 1
                          /\ repeats[t].stamped /\ nexts = {} =>
                                \/ t \in slipped
                                \/ \E e \in Edits : editing[e].task = t /\ editing[e].pc \in {"spawn", "create"}
        BY DEF OneNext
    <2>. DEFINE nexts == {n \in DOMAIN repeats : repeats[n].of = t}
    <2>2. t # 0
        BY LenProperties DEF CompletionInv, RowsTyped
    <2>3. nexts \subseteq {repeats[t].next}
        BY <2>1, <2>2 DEF CompletionInv, Linked
    <2>4. Cardinality(nexts) <= 1
        <3>1. IsFiniteSet({repeats[t].next}) /\ Cardinality({repeats[t].next}) = 1
            BY FS_Singleton
        <3>2. nexts \in SUBSET {repeats[t].next}
            BY <2>3
        <3>. HIDE DEF nexts
        <3>3. Cardinality(nexts) <= Cardinality({repeats[t].next})
            BY <3>1, <3>2, FS_Subset
        <3>. QED
            BY <3>1, <3>3
    <2>5. repeats[t].next # 0 => repeats[t].next \in nexts
        BY <2>1 DEF CompletionInv, Linked
    <2>6. repeats[t].stamped /\ nexts = {} => t \in slipped \/ Spawning(t)
        BY <2>1, <2>5 DEF CompletionInv, Owed
    <2>. QED
        BY <2>4, <2>6 DEF Spawning
<1>. QED
    BY <1>1, <1>2, <1>3, PTL DEF CompletionSpec

-----------------------------------------------------------------------------
(* A key.                                                                  *)

Kept == [fingerprint : Bodies \cup {NoBody}, state : {"free", "pending", "done"}, payload : Nat]
Pcs == {"idle", "look", "unkeyed", "create", "remember", "release"}
Attempt == [pc : Pcs, body : Bodies \cup {NoBody}, has : Nat]

AtWork(a) == attempts[a].pc \in {"create", "remember", "release"}

KeyTyped ==
    /\ kept \in Kept
    /\ attempts \in [Attempts -> Attempt]
    /\ records \in Nat

\* Whoever is at work is alone and has the key.
OneAtWork == \A a \in Attempts :
    /\ attempts[a].pc # "unkeyed"
    /\ AtWork(a) => kept.state = "pending" /\ \A b \in Attempts : AtWork(b) => b = a

\* What has been created, as the key tells it.
Told ==
    /\ kept.state = "done" => records = 1 /\ kept.payload = 1
    /\ \A a \in Attempts : attempts[a].pc = "remember" => records = 1 /\ attempts[a].has = 1
    /\ kept.state # "done" /\ (\A a \in Attempts : attempts[a].pc # "remember") => records = 0

KeyInv == KeyTyped /\ (loose \/ (OneAtWork /\ Told))

\* A request that changes to another of its type leaves them all typed.
LEMMA AttemptTyped ==
    ASSUME KeyTyped, NEW a \in Attempts, NEW r \in Attempt, attempts' = [attempts EXCEPT ![a] = r]
    PROVE  attempts' \in [Attempts -> Attempt]
BY DEF KeyTyped

LEMMA KeyTypedKept == ASSUME KeyTyped, IdempotencyNext PROVE KeyTyped'
<1>1. AtRest \in Attempt /\ \A b \in Bodies : [AtRest EXCEPT !.body = b] \in Attempt
    BY DEF AtRest, Attempt, Pcs
<1>2. \A a \in Attempts, pc \in Pcs : [attempts[a] EXCEPT !.pc = pc] \in Attempt
    <2>1. TAKE a \in Attempts, pc \in Pcs
    <2>2. attempts[a] \in Attempt
        BY DEF KeyTyped
    <2>. QED
        BY <2>2 DEF Attempt
<1>3. ASSUME NEW a \in Attempts, NEW b \in Bodies, Claim(a, b) \/ ClaimFails(a, b)
      PROVE  KeyTyped'
    <2>1. PICK pc \in Pcs : attempts' = [attempts EXCEPT ![a] = [AtRest EXCEPT !.body = b, !.pc = pc]]
        BY <1>3 DEF Claim, ClaimFails, Pcs
    <2>2. [AtRest EXCEPT !.body = b, !.pc = pc] \in Attempt
        BY DEF AtRest, Attempt
    <2>3. attempts' \in [Attempts -> Attempt]
        BY <2>1, <2>2, AttemptTyped
    <2>4. [Free EXCEPT !.fingerprint = b, !.state = "pending"] \in Kept
        BY DEF Free, Kept
    <2>5. kept' \in Kept /\ records' = records
        BY <1>3, <2>4 DEF Claim, ClaimFails, KeyTyped
    <2>. QED
        BY <2>3, <2>5 DEF KeyTyped
<1>4. ASSUME NEW a \in Attempts, Look(a)
      PROVE  KeyTyped'
    <2>1. attempts' \in [Attempts -> Attempt]
        BY <1>1, <1>2, <1>4, AttemptTyped DEF Look, Goes, Answer, Pcs
    <2>. QED
        BY <1>4, <2>1 DEF KeyTyped, Look
<1>5. ASSUME NEW a \in Attempts, Create(a)
      PROVE  KeyTyped'
    <2>0. attempts[a] \in Attempt /\ records + 1 \in Nat
        BY DEF KeyTyped
    <2>1. [attempts[a] EXCEPT !.pc = "remember", !.has = records + 1] \in Attempt
        BY <2>0 DEF Attempt, Pcs
    <2>2. attempts' \in [Attempts -> Attempt]
        BY <1>1, <1>5, <2>1, AttemptTyped DEF Create
    <2>. QED
        BY <1>5, <2>0, <2>2 DEF KeyTyped, Create
<1>6. ASSUME NEW a \in Attempts, CreateFails(a) \/ RememberFails(a)
      PROVE  KeyTyped'
    <2>1. attempts' \in [Attempts -> Attempt]
        BY <1>2, <1>6, AttemptTyped DEF CreateFails, RememberFails, Goes, Pcs
    <2>. QED
        BY <1>6, <2>1 DEF KeyTyped, CreateFails, RememberFails
<1>7. ASSUME NEW a \in Attempts, Remember(a) \/ Release(a) \/ Stop(a)
      PROVE  KeyTyped'
    <2>1. attempts' \in [Attempts -> Attempt]
        BY <1>1, <1>7, AttemptTyped DEF Remember, Release, Stop, Answer
    <2>2. attempts[a] \in Attempt
        BY DEF KeyTyped
    <2>3. /\ [fingerprint |-> attempts[a].body, state |-> "done", payload |-> attempts[a].has] \in Kept
          /\ Free \in Kept
        BY <2>2 DEF Attempt, Kept, Free
    <2>4. kept' \in Kept /\ records' = records
        BY <1>7, <2>3 DEF KeyTyped, Remember, Release, Stop
    <2>. QED
        BY <2>1, <2>4 DEF KeyTyped
<1>8. CASE Expire
    BY <1>8 DEF KeyTyped, Kept, Expire, Free
<1>. QED
    BY <1>3, <1>4, <1>5, <1>6, <1>7, <1>8 DEF IdempotencyNext

LEMMA KeyInvKept == ASSUME KeyInv, [IdempotencyNext]_idempotencyVars PROVE KeyInv'
<1>. USE DEF KeyTyped, Attempt, Kept, OneAtWork, Told, AtWork, AtRest, Free, Answer, Goes
<1>1. CASE UNCHANGED idempotencyVars
    BY <1>1 DEF KeyInv, idempotencyVars
<1>2. ASSUME IdempotencyNext, ~ loose'
      PROVE  OneAtWork' /\ Told'
    <2>1. KeyTyped /\ KeyTyped' /\ OneAtWork /\ Told
        <3>1. ~ loose
            BY <1>2 DEF KeyInv, IdempotencyNext, Claim, ClaimFails, Look, Create, CreateFails, Remember,
                        RememberFails, Release, Stop, Expire
        <3>. QED
            BY <1>2, <3>1, KeyTypedKept DEF KeyInv
    <2>2. ASSUME NEW a \in Attempts, NEW b \in Bodies, Claim(a, b)
          PROVE  OneAtWork' /\ Told'
        BY <2>1, <2>2 DEF Claim, isFree
    <2>3. ASSUME NEW a \in Attempts, NEW b \in Bodies, ClaimFails(a, b)
          PROVE  FALSE
        BY <1>2, <2>3 DEF ClaimFails
    <2>4. ASSUME NEW a \in Attempts, Look(a)
          PROVE  OneAtWork' /\ Told'
        BY <1>2, <2>1, <2>4 DEF Look
    <2>5. ASSUME NEW a \in Attempts, Create(a)
          PROVE  OneAtWork' /\ Told'
        BY <2>1, <2>5 DEF Create
    <2>6. ASSUME NEW a \in Attempts, CreateFails(a)
          PROVE  OneAtWork' /\ Told'
        <3>1. PICK written \in {0, 1} : records' = records + written /\ loose' = (loose \/ written = 1)
            BY <2>6 DEF CreateFails
        <3>2. records' = records
            <4>1. written # 1
                BY <1>2, <3>1
            <4>. QED
                BY <2>1, <3>1, <4>1
        <3>3. /\ attempts[a].pc = "create" /\ kept' = kept
              /\ attempts' = [attempts EXCEPT ![a].pc = "release"]
            BY <2>6 DEF CreateFails
        <3>. QED
            BY <2>1, <3>2, <3>3
    <2>7. ASSUME NEW a \in Attempts, Remember(a)
          PROVE  OneAtWork' /\ Told'
        BY <2>1, <2>7 DEF Remember
    <2>8. ASSUME NEW a \in Attempts, RememberFails(a)
          PROVE  FALSE
        BY <1>2, <2>8 DEF RememberFails
    <2>9. ASSUME NEW a \in Attempts, Release(a)
          PROVE  OneAtWork' /\ Told'
        BY <2>1, <2>9 DEF Release
    <2>10. ASSUME NEW a \in Attempts, Stop(a)
           PROVE  OneAtWork' /\ Told'
        BY <1>2, <2>1, <2>10 DEF Stop
    <2>11. CASE Expire
        BY <1>2, <2>1, <2>11 DEF Expire, Running
    <2>. QED
        BY <1>2, <2>2, <2>3, <2>4, <2>5, <2>6, <2>7, <2>8, <2>9, <2>10, <2>11 DEF IdempotencyNext
<1>3. CASE IdempotencyNext
    <2>1. KeyTyped'
        BY <1>3, KeyTypedKept DEF KeyInv
    <2>. QED
        BY <1>2, <1>3, <2>1 DEF KeyInv
<1>. QED
    BY <1>1, <1>3

\* However often a key is sent, and whatever fails, it creates one record and the
\* answer kept is that record's, unless a request ran without the key, outlived it,
\* or left no answer (IdempotencyInterceptor).
THEOREM KeyCreatesOnce == IdempotencySpec => []CreatedOnce
<1>1. IdempotencyInit => KeyInv
    <2>1. ASSUME IdempotencyInit
          PROVE  KeyTyped /\ \A a \in Attempts : attempts[a].pc = "idle"
        BY <2>1 DEF IdempotencyInit, KeyTyped, AtRest, Free, Attempt, Kept, Pcs
    <2>2. ASSUME IdempotencyInit
          PROVE  OneAtWork /\ Told
        BY <2>1, <2>2 DEF IdempotencyInit, OneAtWork, Told, AtWork, Free
    <2>. QED
        BY <2>1, <2>2 DEF KeyInv
<1>2. KeyInv /\ [IdempotencyNext]_idempotencyVars => KeyInv'
    BY KeyInvKept
<1>3. KeyInv => CreatedOnce
    BY DEF KeyInv, CreatedOnce, KeyTyped, OneAtWork, Told
<1>. QED
    BY <1>1, <1>2, <1>3, PTL DEF IdempotencySpec
=============================================================================
