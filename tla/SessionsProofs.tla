----------------------------- MODULE SessionsProofs -----------------------------
(***************************************************************************)
(* The promises of Sessions, for any number of sessions, tabs and refresh  *)
(* calls.                                                                  *)
(*                                                                         *)
(* The invariant says what a call knows of its session.  Where rotations   *)
(* have not crossed, the one under way holds the latest row, so replacing  *)
(* it leaves one open row; where a session has ended with none under way,  *)
(* no row is left to rotate; and the browser of a session that has lost    *)
(* nothing has one call on its way, which holds or brings an open row.     *)
(***************************************************************************)
EXTENDS Sessions, SequenceTheorems, TLAPS

Call == [pc : {"idle", "sent", "issue", "condemn", "reply"}, tab : Tabs \cup {NoCall},
         presented : Nat, issued : Nat]

\* Calls and cookies name rows that are there.
RowsThere ==
    /\ tokenRows \in [SessionIds -> Seq(BOOLEAN)]
    /\ jar \in [SessionIds -> Nat]
    /\ \A s \in SessionIds : jar[s] <= Len(tokenRows[s])
    /\ calls \in [Calls -> Call]
    /\ \A c \in Calls : calls[c].pc # "idle" =>
        /\ calls[c].tab \in Tabs
        /\ calls[c].presented \in 1 .. Len(tokenRows[Session(c)])
        /\ calls[c].issued <= Len(tokenRows[Session(c)])

\* Where rotations have not crossed, the one under way holds the latest row.
OneRotates == \A s \in SessionIds \ crossed :
    /\ open(s) \subseteq {Len(tokenRows[s])}
    /\ \A c \in Rotating(s) : /\ calls[c].presented = Len(tokenRows[s])
                              /\ Rotating(s) \subseteq {c}

\* Where a session has ended with no rotation under way, none begins.
EndedForGood == endedAt \subseteq SessionIds /\ \A s \in endedAt \ overtaken : open(s) = {} /\ Rotating(s) = {}

\* A browser that has lost nothing holds an open row, or one is on its way to it.
HoldsItsRow(s) ==
    /\ jar[s] # 0
    /\ \A b, c \in OnItsWay(s) : b = c
    /\ \A c \in OnItsWay(s) :
        \/ calls[c].pc \in {"sent", "issue"} /\ calls[c].presented = jar[s]
        \/ calls[c].pc = "reply" /\ calls[c].issued \in open(s)
    /\ (\A c \in OnItsWay(s) : calls[c].pc # "reply") => jar[s] \in open(s)
BrowserHolds ==
    /\ \A s \in SessionIds \ (excused \cup endedAt) : HoldsItsRow(s)
    /\ blamed \subseteq excused

SessionsInv == RowsThere /\ OneRotates /\ EndedForGood /\ BrowserHolds

-----------------------------------------------------------------------------
(* What the steps do to rows and calls.                                    *)

\* issue: one row more, which is open, and the presented one is closed.
LEMMA Replacing ==
    ASSUME NEW rows \in Seq(BOOLEAN), NEW old \in 1 .. Len(rows)
    PROVE  /\ replaced(rows, old) \in Seq(BOOLEAN)
           /\ Len(replaced(rows, old)) = Len(rows) + 1
           /\ \A n \in 1 .. Len(rows) :
                replaced(rows, old)[n] = IF n = old THEN FALSE ELSE rows[n]
           /\ replaced(rows, old)[Len(rows) + 1] = TRUE
<1>. DEFINE kept == [rows EXCEPT ![old] = FALSE]
<1>1. /\ kept \in Seq(BOOLEAN)
      /\ Len(kept) = Len(rows)
      /\ \A n \in 1 .. Len(rows) : kept[n] = IF n = old THEN FALSE ELSE rows[n]
    <2>1. ASSUME NEW e \in BOOLEAN
          PROVE  /\ [rows EXCEPT ![old] = e] \in Seq(BOOLEAN)
                 /\ Len([rows EXCEPT ![old] = e]) = Len(rows)
                 /\ \A n \in 1 .. Len(rows) :
                        [rows EXCEPT ![old] = e][n] = IF n = old THEN e ELSE rows[n]
        BY <2>1, ExceptSeq
    <2>2. FALSE \in BOOLEAN
        OBVIOUS
    <2>. QED
        BY <2>1, <2>2, Zenon
<1>2. replaced(rows, old) = Append(kept, TRUE)
    BY DEF replaced
<1>. HIDE DEF kept
<1>3. /\ Append(kept, TRUE) \in Seq(BOOLEAN)
      /\ Len(Append(kept, TRUE)) = Len(kept) + 1
      /\ \A n \in 1 .. Len(kept) : Append(kept, TRUE)[n] = kept[n]
      /\ Append(kept, TRUE)[Len(kept) + 1] = TRUE
    <2>1. TRUE \in BOOLEAN
        OBVIOUS
    <2>. QED
        BY <1>1, <2>1, AppendProperties
<1>. QED
    BY <1>1, <1>2, <1>3, Zenon

LEMMA Revoking ==
    ASSUME NEW rows \in Seq(BOOLEAN)
    PROVE  /\ revoked(rows) \in Seq(BOOLEAN) /\ Len(revoked(rows)) = Len(rows)
           /\ \A n \in 1 .. Len(rows) : revoked(rows)[n] = FALSE
<1>1. Len(rows) \in Nat /\ DOMAIN rows = 1 .. Len(rows)
    BY LenProperties
<1>2. revoked(rows) = [n \in 1 .. Len(rows) |-> FALSE]
    BY <1>1 DEF revoked
<1>3. [n \in 1 .. Len(rows) |-> FALSE] \in [1 .. Len(rows) -> BOOLEAN]
    OBVIOUS
<1>4. revoked(rows) \in Seq(BOOLEAN)
    <2>1. \E m \in Nat : revoked(rows) \in [1 .. m -> BOOLEAN]
        BY <1>1, <1>2, <1>3, Zenon
    <2>. QED
        BY <2>1, SeqDef
<1>. QED
    BY <1>1, <1>2, <1>4

\* A call that is on its way belongs to a session.
LEMMA SessionOfCall ==
    ASSUME RowsThere, NEW c \in Calls, calls[c].pc # "idle"
    PROVE  Session(c) \in SessionIds
BY SessionAssumption DEF RowsThere, Session

\* A call that only moves on keeps its session and its token.
LEMMA Moving ==
    ASSUME RowsThere, NEW c \in Calls, calls[c].pc # "idle",
           NEW pc \in {"issue", "condemn", "reply"}, calls' = [calls EXCEPT ![c].pc = pc]
    PROVE  /\ calls' \in [Calls -> Call]
           /\ calls'[c].pc = pc /\ calls'[c].tab = calls[c].tab
           /\ calls'[c].presented = calls[c].presented /\ calls'[c].issued = calls[c].issued
           /\ \A b \in Calls \ {c} : calls'[b] = calls[b]
BY DEF RowsThere, Call

\* End closes every row of the sessions that go, and touches no other.
LEMMA Ending ==
    ASSUME RowsThere, NEW gone \in SUBSET SessionIds, End(gone)
    PROVE  /\ tokenRows' \in [SessionIds -> Seq(BOOLEAN)]
           /\ \A s \in SessionIds : Len(tokenRows'[s]) = Len(tokenRows[s])
           /\ \A s \in gone : open(s)' = {}
           /\ \A s \in SessionIds \ gone : tokenRows'[s] = tokenRows[s]
<1>1. \A s \in SessionIds : tokenRows'[s] = IF s \in gone THEN revoked(tokenRows[s]) ELSE tokenRows[s]
    BY DEF End
<1>2. \A s \in SessionIds : tokenRows[s] \in Seq(BOOLEAN)
    BY DEF RowsThere
<1>3. \A s \in SessionIds : tokenRows'[s] \in Seq(BOOLEAN) /\ Len(tokenRows'[s]) = Len(tokenRows[s])
    BY <1>1, <1>2, Revoking
<1>4. ASSUME NEW s \in gone PROVE open(s)' = {}
    <2>1. \A n \in 1 .. Len(tokenRows[s]) : tokenRows'[s][n] = FALSE
        BY <1>1, <1>2, <1>4, Revoking
    <2>2. DOMAIN tokenRows'[s] = 1 .. Len(tokenRows[s])
        BY <1>3, <1>4
    <2>. QED
        BY <2>1, <2>2 DEF open
<1>5. tokenRows' \in [SessionIds -> Seq(BOOLEAN)]
    BY <1>3 DEF End
<1>. QED
    BY <1>1, <1>3, <1>4, <1>5

\* What a call does, the other sessions do not notice.
LEMMA Elsewhere ==
    ASSUME NEW s, NEW c \in Calls, \A b \in Calls \ {c} : calls'[b] = calls[b],
           calls[c].pc # "idle" => Session(c) # s,
           calls'[c].pc # "idle" => SessionOf[calls'[c].tab] # s
    PROVE  /\ OnItsWay(s)' = OnItsWay(s) /\ Rotating(s)' = Rotating(s)
           /\ \A b \in OnItsWay(s) : calls'[b] = calls[b]
<1>1. \A b \in Calls : b \in OnItsWay(s)' <=> b \in OnItsWay(s)
    BY DEF OnItsWay, Session
<1>2. \A b \in OnItsWay(s) : calls'[b] = calls[b]
    BY DEF OnItsWay
<1>. QED
    BY <1>1, <1>2 DEF OnItsWay, Rotating

\* So a session whose rows and cookie stay keeps what was so of it.
LEMMA ElsewhereHolds ==
    ASSUME NEW s, HoldsItsRow(s), tokenRows'[s] = tokenRows[s], jar'[s] = jar[s],
           OnItsWay(s)' = OnItsWay(s), \A b \in OnItsWay(s) : calls'[b] = calls[b]
    PROVE  HoldsItsRow(s)'
<1>1. open(s)' = open(s)
    BY DEF open
<1>. QED
    BY <1>1 DEF HoldsItsRow

\* Where no row changes and no rotation begins, rotations stay in order.
LEMMA NoRotationBegins ==
    ASSUME OneRotates, EndedForGood, UNCHANGED <<tokenRows, endedAt, overtaken, crossed>>,
           \A s \in SessionIds \cup endedAt : Rotating(s)' \subseteq Rotating(s),
           \A s \in SessionIds : \A c \in Rotating(s)' : calls'[c].presented = calls[c].presented
    PROVE  OneRotates' /\ EndedForGood'
<1>1. \A s : open(s)' = open(s)
    BY DEF open
<1>2. OneRotates'
    BY <1>1 DEF OneRotates
<1>3. EndedForGood'
    BY <1>1 DEF EndedForGood
<1>. QED
    BY <1>2, <1>3

-----------------------------------------------------------------------------
(* The browser.                                                            *)

LEMMA RefreshKeepsInv ==
    ASSUME SessionsInv, NEW c \in Calls, NEW t \in Tabs, Refresh(c, t)
    PROVE  SessionsInv'
<1>. DEFINE s == SessionOf[t]
            sent == [OffLine EXCEPT !.pc = "sent", !.tab = t, !.presented = jar[s]]
<1>1. s \in SessionIds /\ jar[s] \in Nat /\ jar[s] \in 1 .. Len(tokenRows[s])
    BY SessionAssumption DEF SessionsInv, RowsThere, Refresh
<1>2. calls' = [calls EXCEPT ![c] = sent] /\ calls[c].pc = "idle"
    BY DEF Refresh
<1>3. sent \in Call
    BY <1>1 DEF OffLine, Call
<1>4. /\ calls'[c] = sent /\ \A b \in Calls \ {c} : calls'[b] = calls[b]
      /\ calls' \in [Calls -> Call]
    BY <1>2, <1>3 DEF SessionsInv, RowsThere
<1>. HIDE DEF s, sent
<1>5. sent.pc = "sent" /\ sent.tab = t /\ sent.presented = jar[s] /\ sent.issued = 0
    BY DEF sent, OffLine
<1>6. UNCHANGED <<tokenRows, jar, endedAt, overtaken, crossed, blamed>>
    BY DEF Refresh
<1>7. RowsThere'
    <2>1. \A b \in Calls : calls'[b].pc # "idle" =>
              /\ calls'[b].tab \in Tabs
              /\ calls'[b].presented \in 1 .. Len(tokenRows[SessionOf[calls'[b].tab]])
              /\ calls'[b].issued <= Len(tokenRows[SessionOf[calls'[b].tab]])
        BY <1>1, <1>4, <1>5 DEF SessionsInv, RowsThere, Session, s
    <2>. QED
        BY <2>1, <1>4, <1>6 DEF SessionsInv, RowsThere, Session
<1>8. OneRotates' /\ EndedForGood'
    <2>1. \A x : \A b \in Rotating(x)' : b \in Rotating(x) /\ calls'[b] = calls[b]
        BY <1>4, <1>5 DEF Rotating, OnItsWay, Session
    <2>. QED
        BY <2>1, <1>6, NoRotationBegins DEF SessionsInv
<1>9. BrowserHolds'
    <2>1. excused \subseteq excused' /\ blamed' \subseteq excused'
        BY <1>6 DEF Refresh, SessionsInv, BrowserHolds
    <2>2. ASSUME NEW x \in SessionIds, x \notin excused', x \notin endedAt', x # s
          PROVE  HoldsItsRow(x)'
        <3>1. HoldsItsRow(x)
            BY <2>1, <2>2, <1>6 DEF SessionsInv, BrowserHolds
        <3>2. OnItsWay(x)' = OnItsWay(x) /\ \A b \in OnItsWay(x) : calls'[b] = calls[b]
            BY <1>2, <1>4, <1>5, <2>2, Elsewhere DEF s
        <3>. QED
            BY <3>1, <3>2, <1>6, ElsewhereHolds
    <2>3. ASSUME s \notin excused', s \notin endedAt'
          PROVE  HoldsItsRow(s)'
        <3>1. HoldsItsRow(s)
            BY <1>1, <1>6, <2>1, <2>3 DEF SessionsInv, BrowserHolds
        <3>2. OnItsWay(s) = {}
            BY <2>3 DEF Refresh, mayRefresh, OnItsWay, s
        <3>3. OnItsWay(s)' = {c}
            BY <3>2, <1>4, <1>5 DEF OnItsWay, Session, s
        <3>4. jar[s] \in open(s) /\ jar[s] # 0
            BY <3>1, <3>2 DEF HoldsItsRow
        <3>. QED
            BY <3>3, <3>4, <1>4, <1>5, <1>6 DEF HoldsItsRow, open
    <2>. QED
        BY <2>1, <2>2, <2>3, <1>6 DEF BrowserHolds
<1>. QED
    BY <1>7, <1>8, <1>9 DEF SessionsInv

LEMMA ReplyKeepsInv ==
    ASSUME SessionsInv, NEW c \in Calls, Reply(c) \/ LoseReply(c)
    PROVE  SessionsInv'
<1>1. calls[c].pc = "reply" /\ calls' = [calls EXCEPT ![c] = OffLine] /\ OffLine.pc = "idle"
    BY DEF Reply, LoseReply, OffLine
<1>2. PICK s \in SessionIds : s = Session(c)
    BY <1>1, SessionOfCall DEF SessionsInv
<1>3. OffLine \in Call
    BY DEF OffLine, Call
<1>4. /\ calls'[c] = OffLine /\ \A b \in Calls \ {c} : calls'[b] = calls[b]
      /\ calls' \in [Calls -> Call]
    BY <1>1, <1>3 DEF SessionsInv, RowsThere
<1>5. /\ UNCHANGED <<tokenRows, endedAt, overtaken, crossed, blamed>> /\ excused \subseteq excused'
      /\ jar' = jar \/ jar' = [jar EXCEPT ![s] = IF calls[c].issued # 0 THEN calls[c].issued ELSE @]
    BY <1>2 DEF Reply, LoseReply, witness
<1>6. RowsThere'
    <2>1. calls[c].issued \in Nat /\ calls[c].issued <= Len(tokenRows[s])
        BY <1>1, <1>2 DEF SessionsInv, RowsThere, Call
    <2>2. jar' \in [SessionIds -> Nat] /\ \A x \in SessionIds : jar'[x] <= Len(tokenRows[x])
        BY <1>5, <2>1 DEF SessionsInv, RowsThere
    <2>. QED
        BY <2>2, <1>1, <1>4, <1>5 DEF SessionsInv, RowsThere, Session
<1>7. OneRotates' /\ EndedForGood'
    <2>1. \A x : \A b \in Rotating(x)' : b \in Rotating(x) /\ calls'[b] = calls[b]
        BY <1>1, <1>4 DEF Rotating, OnItsWay, Session
    <2>. QED
        BY <2>1, <1>5, NoRotationBegins DEF SessionsInv
<1>8. BrowserHolds'
    <2>1. ASSUME NEW x \in SessionIds, x \notin excused', x \notin endedAt', x # s
          PROVE  HoldsItsRow(x)'
        <3>1. HoldsItsRow(x) /\ jar'[x] = jar[x]
            BY <1>5, <2>1 DEF SessionsInv, BrowserHolds, RowsThere
        <3>2. OnItsWay(x)' = OnItsWay(x) /\ \A b \in OnItsWay(x) : calls'[b] = calls[b]
            BY <1>1, <1>2, <1>4, <2>1, Elsewhere
        <3>. QED
            BY <3>1, <3>2, <1>5, ElsewhereHolds
    <2>2. ASSUME s \notin excused', s \notin endedAt'
          PROVE  HoldsItsRow(s)'
        <3>1. HoldsItsRow(s) /\ Reply(c)
            BY <1>2, <1>5, <2>2 DEF SessionsInv, BrowserHolds, LoseReply
        <3>2. c \in OnItsWay(s)
            BY <1>1, <1>2 DEF OnItsWay
        <3>3. calls[c].issued \in open(s) /\ calls[c].issued # 0
            <4>1. calls[c].issued \in open(s)
                BY <3>1, <3>2, <1>1 DEF HoldsItsRow
            <4>2. DOMAIN tokenRows[s] = 1 .. Len(tokenRows[s])
                BY <1>2 DEF SessionsInv, RowsThere
            <4>. QED
                BY <4>1, <4>2 DEF open
        <3>4. jar'[s] = calls[c].issued
            BY <3>1, <3>3, <1>2 DEF Reply, SessionsInv, RowsThere
        <3>5. OnItsWay(s)' = {}
            BY <3>1, <3>2, <1>1, <1>4 DEF HoldsItsRow, OnItsWay, Session
        <3>. QED
            BY <3>3, <3>4, <3>5, <1>5 DEF HoldsItsRow, open
    <2>. QED
        BY <2>1, <2>2, <1>5 DEF SessionsInv, BrowserHolds
<1>. QED
    BY <1>6, <1>7, <1>8 DEF SessionsInv

-----------------------------------------------------------------------------
(* The server.                                                             *)

LEMMA RotateKeepsInv ==
    ASSUME SessionsInv, NEW c \in Calls, Rotate(c)
    PROVE  SessionsInv'
<1>1. calls[c].pc = "sent"
    BY DEF Rotate
<1>2. PICK s \in SessionIds : s = Session(c)
    BY <1>1, SessionOfCall DEF SessionsInv
<1>3. PICK row \in 1 .. Len(tokenRows[s]) : row = calls[c].presented
    BY <1>1, <1>2 DEF SessionsInv, RowsThere
<1>4. PICK pc \in {"issue", "condemn"} : pc = IF tokenRows[s][row] THEN "issue" ELSE "condemn"
    OBVIOUS
<1>5. calls' = [calls EXCEPT ![c].pc = pc]
    BY <1>2, <1>3, <1>4 DEF Rotate
<1>6. /\ calls' \in [Calls -> Call]
      /\ calls'[c].pc = pc /\ calls'[c].tab = calls[c].tab
      /\ calls'[c].presented = calls[c].presented /\ calls'[c].issued = calls[c].issued
      /\ \A b \in Calls \ {c} : calls'[b] = calls[b]
    BY <1>1, <1>4, <1>5, Moving DEF SessionsInv
<1>7. /\ UNCHANGED <<tokenRows, jar, endedAt, overtaken, excused, blamed>>
      /\ crossed \subseteq crossed'
      /\ pc = "issue" /\ Rotating(s) # {} => s \in crossed'
    BY <1>2, <1>6 DEF Rotate
<1>8. pc = "issue" <=> row \in open(s)
    <2>1. DOMAIN tokenRows[s] = 1 .. Len(tokenRows[s])
        BY DEF SessionsInv, RowsThere
    <2>. QED
        BY <2>1, <1>3, <1>4 DEF open
<1>9. RowsThere'
    BY <1>1, <1>6, <1>7 DEF SessionsInv, RowsThere, Session
<1>10. \A x : open(x)' = open(x)
    BY <1>7 DEF open
<1>11. ASSUME NEW x, x # s
       PROVE  /\ OnItsWay(x)' = OnItsWay(x) /\ Rotating(x)' = Rotating(x)
              /\ \A b \in OnItsWay(x) : calls'[b] = calls[b]
    BY <1>2, <1>6, <1>11, Elsewhere DEF Session
<1>12. /\ \A b \in Rotating(s)' : b # c => b \in Rotating(s)
       /\ c \in Rotating(s)' => pc = "issue"
       /\ \A b \in Calls : calls'[b].presented = calls[b].presented
       /\ \A x : Rotating(x) \subseteq Calls /\ Rotating(x)' \subseteq Calls
    BY <1>6 DEF Rotating, OnItsWay, Session
<1>13. OneRotates'
    <2>1. ASSUME NEW x \in SessionIds \ crossed', x # s
          PROVE  /\ open(x)' \subseteq {Len(tokenRows[x])'}
                 /\ \A b \in Rotating(x)' : /\ calls'[b].presented = Len(tokenRows[x])'
                                            /\ Rotating(x)' \subseteq {b}
        <3>1. /\ open(x) \subseteq {Len(tokenRows[x])}
              /\ \A b \in Rotating(x) : /\ calls[b].presented = Len(tokenRows[x])
                                        /\ Rotating(x) \subseteq {b}
            BY <2>1, <1>7 DEF SessionsInv, OneRotates
        <3>2. Len(tokenRows[x])' = Len(tokenRows[x]) /\ open(x)' = open(x) /\ Rotating(x)' = Rotating(x)
            BY <2>1, <1>7, <1>10, <1>11
        <3>. QED
            BY <3>1, <3>2, <1>12
    <2>2. ASSUME s \notin crossed'
          PROVE  /\ open(s)' \subseteq {Len(tokenRows[s])'}
                 /\ \A b \in Rotating(s)' : /\ calls'[b].presented = Len(tokenRows[s])'
                                            /\ Rotating(s)' \subseteq {b}
        <3>1. /\ open(s) \subseteq {Len(tokenRows[s])}
              /\ \A b \in Rotating(s) : /\ calls[b].presented = Len(tokenRows[s])
                                        /\ Rotating(s) \subseteq {b}
            BY <2>2, <1>7 DEF SessionsInv, OneRotates
        <3>2. Len(tokenRows[s])' = Len(tokenRows[s]) /\ open(s)' = open(s)
            BY <1>7, <1>10
        <3>3. CASE pc = "issue"
            <4>1. Rotating(s)' \subseteq {c} /\ row = Len(tokenRows[s])
                BY <3>1, <3>3, <2>2, <1>7, <1>8, <1>12
            <4>. QED
                BY <4>1, <3>1, <3>2, <1>3, <1>12
        <3>4. CASE pc = "condemn"
            <4>1. Rotating(s)' \subseteq Rotating(s)
                BY <3>4, <1>12
            <4>. QED
                BY <4>1, <3>1, <3>2, <1>12
        <3>. QED
            BY <3>3, <3>4, <1>4
    <2>. QED
        BY <2>1, <2>2 DEF OneRotates
<1>14. EndedForGood'
    <2>1. ASSUME NEW x \in endedAt \ overtaken
          PROVE  open(x)' = {} /\ Rotating(x)' = {}
        <3>1. open(x) = {} /\ Rotating(x) = {}
            BY <2>1 DEF SessionsInv, EndedForGood
        <3>. QED
            BY <3>1, <1>8, <1>10, <1>11, <1>12
    <2>. QED
        BY <2>1, <1>7 DEF SessionsInv, EndedForGood
<1>15. BrowserHolds'
    <2>1. ASSUME NEW x \in SessionIds \ (excused \cup endedAt), x # s
          PROVE  HoldsItsRow(x)'
        <3>1. HoldsItsRow(x)
            BY <2>1 DEF SessionsInv, BrowserHolds
        <3>. QED
            BY <3>1, <2>1, <1>7, <1>11, ElsewhereHolds
    <2>2. ASSUME s \notin excused \cup endedAt
          PROVE  HoldsItsRow(s)'
        <3>1. HoldsItsRow(s)
            BY <2>2 DEF SessionsInv, BrowserHolds
        <3>2. OnItsWay(s) = {c} /\ OnItsWay(s)' = {c}
            BY <3>1, <1>1, <1>2, <1>4, <1>6 DEF HoldsItsRow, OnItsWay, Session
        <3>3. row = jar[s] /\ jar[s] \in open(s) /\ jar[s] # 0
            BY <3>1, <3>2, <1>1, <1>3 DEF HoldsItsRow
        <3>4. pc = "issue"
            BY <3>3, <1>8
        <3>. QED
            BY <3>2, <3>3, <3>4, <1>3, <1>6, <1>7, <1>10 DEF HoldsItsRow
    <2>. QED
        BY <2>1, <2>2, <1>7 DEF SessionsInv, BrowserHolds
<1>. QED
    BY <1>9, <1>13, <1>14, <1>15 DEF SessionsInv

LEMMA IssueKeepsInv ==
    ASSUME SessionsInv, NEW c \in Calls, Issue(c)
    PROVE  SessionsInv'
<1>1. calls[c].pc = "issue"
    BY DEF Issue
<1>2. PICK s \in SessionIds : s = Session(c)
    BY <1>1, SessionOfCall DEF SessionsInv
<1>3. PICK row \in 1 .. Len(tokenRows[s]) : row = calls[c].presented
    BY <1>1, <1>2 DEF SessionsInv, RowsThere
<1>4. tokenRows[s] \in Seq(BOOLEAN) /\ Len(tokenRows[s]) \in Nat
    BY LenProperties DEF SessionsInv, RowsThere
<1>5. PICK next \in Nat : next = Len(tokenRows[s]) + 1
    BY <1>4
<1>6. UNCHANGED <<jar, endedAt, overtaken, crossed, excused, blamed>>
    BY DEF Issue, witness
<1>7. /\ tokenRows'[s] = replaced(tokenRows[s], row)
      /\ \A x \in SessionIds \ {s} : tokenRows'[x] = tokenRows[x]
      /\ DOMAIN tokenRows' = SessionIds /\ tokenRows' = [x \in SessionIds |-> tokenRows'[x]]
    BY <1>2, <1>3 DEF Issue, SessionsInv, RowsThere
<1>8. /\ tokenRows'[s] \in Seq(BOOLEAN) /\ Len(tokenRows'[s]) = next
      /\ \A n \in 1 .. Len(tokenRows[s]) :
            tokenRows'[s][n] = IF n = row THEN FALSE ELSE tokenRows[s][n]
      /\ tokenRows'[s][next] = TRUE
    <2>1. /\ replaced(tokenRows[s], row) \in Seq(BOOLEAN)
          /\ Len(replaced(tokenRows[s], row)) = Len(tokenRows[s]) + 1
          /\ \A n \in 1 .. Len(tokenRows[s]) :
                replaced(tokenRows[s], row)[n] = IF n = row THEN FALSE ELSE tokenRows[s][n]
          /\ replaced(tokenRows[s], row)[Len(tokenRows[s]) + 1] = TRUE
        BY <1>4, Replacing
    <2>. QED
        BY <2>1, <1>5, <1>7, Zenon
<1>9. /\ calls' \in [Calls -> Call]
      /\ calls'[c].pc = "reply" /\ calls'[c].tab = calls[c].tab
      /\ calls'[c].presented = calls[c].presented /\ calls'[c].issued = next
      /\ \A b \in Calls \ {c} : calls'[b] = calls[b]
    BY <1>2, <1>5 DEF Issue, SessionsInv, RowsThere, Call
<1>10. RowsThere'
    <2>1. tokenRows' \in [SessionIds -> Seq(BOOLEAN)]
        BY <1>7, <1>8 DEF SessionsInv, RowsThere
    <2>2. \A x \in SessionIds : Len(tokenRows'[x]) \in Nat /\ Len(tokenRows[x]) <= Len(tokenRows'[x])
        <3>1. \A x \in SessionIds : tokenRows[x] \in Seq(BOOLEAN) /\ Len(tokenRows[x]) \in Nat
            BY LenProperties DEF SessionsInv, RowsThere
        <3>. QED
            BY <3>1, <1>5, <1>7, <1>8
    <2>3. \A x \in SessionIds : jar'[x] <= Len(tokenRows'[x])
        BY <2>2, <1>6, LenProperties DEF SessionsInv, RowsThere
    <2>4. ASSUME NEW b \in Calls, calls'[b].pc # "idle"
          PROVE  /\ calls'[b].tab \in Tabs
                 /\ calls'[b].presented \in 1 .. Len(tokenRows'[SessionOf[calls'[b].tab]])
                 /\ calls'[b].issued <= Len(tokenRows'[SessionOf[calls'[b].tab]])
        <3>1. calls[b].pc # "idle" /\ calls'[b].tab = calls[b].tab /\ calls'[b].presented = calls[b].presented
            BY <2>4, <1>1, <1>9
        <3>2. Session(b) \in SessionIds /\ calls[b].tab \in Tabs /\ calls[b].presented \in Nat
              /\ calls[b].presented \in 1 .. Len(tokenRows[Session(b)])
              /\ calls[b].issued \in Nat /\ calls[b].issued <= Len(tokenRows[Session(b)])
            BY <3>1, SessionOfCall DEF SessionsInv, RowsThere, Call
        <3>3. SessionOf[calls'[b].tab] = Session(b)
            BY <3>1 DEF Session
        <3>4. calls'[b].presented \in 1 .. Len(tokenRows'[Session(b)])
            <4>1. Len(tokenRows[Session(b)]) \in Nat
                BY <3>2, LenProperties DEF SessionsInv, RowsThere
            <4>. QED
                BY <4>1, <2>2, <3>1, <3>2
        <3>5. calls'[b].issued <= Len(tokenRows'[Session(b)])
            <4>1. CASE b = c
                BY <4>1, <1>2, <1>8, <1>9, <1>5
            <4>2. CASE b # c
                <5>1. Len(tokenRows[Session(b)]) \in Nat
                    BY <3>2, LenProperties DEF SessionsInv, RowsThere
                <5>. QED
                    BY <5>1, <4>2, <2>2, <3>2, <1>9
            <4>. QED
                BY <4>1, <4>2
        <3>. QED
            BY <3>1, <3>2, <3>3, <3>4, <3>5
    <2>. QED
        BY <2>1, <2>3, <2>4, <1>6, <1>9 DEF SessionsInv, RowsThere, Session
<1>11. ASSUME NEW x \in SessionIds, x # s
       PROVE  /\ OnItsWay(x)' = OnItsWay(x) /\ Rotating(x)' = Rotating(x)
              /\ \A b \in OnItsWay(x) : calls'[b] = calls[b]
              /\ tokenRows'[x] = tokenRows[x] /\ open(x)' = open(x)
    <2>1. tokenRows'[x] = tokenRows[x]
        BY <1>7, <1>11
    <2>2. /\ OnItsWay(x)' = OnItsWay(x) /\ Rotating(x)' = Rotating(x)
          /\ \A b \in OnItsWay(x) : calls'[b] = calls[b]
        BY <1>2, <1>9, <1>11, Elsewhere DEF Session
    <2>. QED
        BY <2>1, <2>2 DEF open
<1>12. /\ \A b \in Rotating(s)' : b \in Rotating(s) /\ b # c
       /\ c \in Rotating(s)
    BY <1>1, <1>2, <1>9 DEF Rotating, OnItsWay, Session
<1>13. open(s)' = (open(s) \ {row}) \cup {next}
    <2>1. DOMAIN tokenRows'[s] = 1 .. next /\ DOMAIN tokenRows[s] = 1 .. Len(tokenRows[s])
        BY <1>4, <1>8, LenProperties
    <2>2. \A n \in 1 .. next : tokenRows'[s][n] <=> n = next \/ (n # row /\ n \in 1 .. Len(tokenRows[s]) /\ tokenRows[s][n])
        <3>1. \A n \in 1 .. next : n = next \/ (n \in 1 .. Len(tokenRows[s]) /\ n # next)
            BY <1>4, <1>5
        <3>2. row # next
            BY <1>3, <1>4, <1>5
        <3>. QED
            BY <3>1, <3>2, <1>8, Zenon
    <2>3. next \in 1 .. next /\ \A n \in 1 .. Len(tokenRows[s]) : n \in 1 .. next /\ n # next
        BY <1>4, <1>5
    <2>. QED
        BY <2>1, <2>2, <2>3 DEF open
<1>14. OneRotates'
    <2>1. ASSUME NEW x \in SessionIds \ crossed', x # s
          PROVE  /\ open(x)' \subseteq {Len(tokenRows[x])'}
                 /\ \A b \in Rotating(x)' : /\ calls'[b].presented = Len(tokenRows[x])'
                                            /\ Rotating(x)' \subseteq {b}
        <3>1. \A b \in Rotating(x) : calls'[b] = calls[b]
            BY <2>1, <1>11 DEF Rotating
        <3>. QED
            BY <2>1, <3>1, <1>6, <1>11 DEF SessionsInv, OneRotates
    <2>2. ASSUME s \notin crossed'
          PROVE  open(s)' \subseteq {Len(tokenRows[s])'} /\ Rotating(s)' = {}
        <3>1. /\ open(s) \subseteq {Len(tokenRows[s])}
              /\ calls[c].presented = Len(tokenRows[s]) /\ Rotating(s) \subseteq {c}
            BY <2>2, <1>6, <1>12 DEF SessionsInv, OneRotates
        <3>. QED
            BY <3>1, <1>3, <1>8, <1>12, <1>13
    <2>. QED
        BY <2>1, <2>2 DEF OneRotates
<1>15. EndedForGood'
    <2>1. endedAt \subseteq SessionIds
        BY DEF SessionsInv, EndedForGood
    <2>2. ASSUME NEW x \in endedAt \ overtaken
          PROVE  open(x)' = {} /\ Rotating(x)' = {}
        <3>1. open(x) = {} /\ Rotating(x) = {}
            BY <2>2 DEF SessionsInv, EndedForGood
        <3>2. x # s
            BY <3>1, <1>12
        <3>. QED
            BY <2>1, <2>2, <3>1, <3>2, <1>11
    <2>. QED
        BY <2>1, <2>2, <1>6 DEF EndedForGood
<1>16. BrowserHolds'
    <2>1. ASSUME NEW x \in SessionIds \ (excused \cup endedAt), x # s
          PROVE  HoldsItsRow(x)'
        <3>1. HoldsItsRow(x)
            BY <2>1 DEF SessionsInv, BrowserHolds
        <3>. QED
            BY <3>1, <2>1, <1>6, <1>11, ElsewhereHolds
    <2>2. ASSUME s \notin excused \cup endedAt
          PROVE  HoldsItsRow(s)'
        <3>1. HoldsItsRow(s)
            BY <2>2 DEF SessionsInv, BrowserHolds
        <3>2. OnItsWay(s)' = {c}
            BY <3>1, <1>1, <1>2, <1>9 DEF HoldsItsRow, OnItsWay, Session
        <3>. QED
            BY <3>1, <3>2, <1>6, <1>9, <1>13 DEF HoldsItsRow
    <2>. QED
        BY <2>1, <2>2, <1>6 DEF SessionsInv, BrowserHolds
<1>. QED
    BY <1>10, <1>14, <1>15, <1>16 DEF SessionsInv

\* Ending sessions keeps rotations in order, and leaves those ended with none
\* under way no row to rotate.
LEMMA EndKeepsRows ==
    ASSUME SessionsInv, NEW gone \in SUBSET SessionIds, End(gone),
           \A x \in SessionIds : /\ Rotating(x)' = Rotating(x)
                                 /\ \A b \in Rotating(x) : calls'[b].presented = calls[b].presented
    PROVE  OneRotates' /\ EndedForGood'
<1>1. /\ \A x \in SessionIds : Len(tokenRows'[x]) = Len(tokenRows[x])
      /\ \A x \in gone : open(x)' = {}
      /\ \A x \in SessionIds \ gone : open(x)' = open(x)
    BY Ending DEF SessionsInv, open
<1>2. /\ crossed' = crossed /\ endedAt' = endedAt \cup gone
      /\ overtaken' = overtaken \cup {x \in gone : Rotating(x) # {}}
    BY DEF End
<1>3. OneRotates'
    <2>1. ASSUME NEW x \in SessionIds \ crossed
          PROVE  /\ open(x)' \subseteq {Len(tokenRows[x])'}
                 /\ \A b \in Rotating(x)' : /\ calls'[b].presented = Len(tokenRows[x])'
                                            /\ Rotating(x)' \subseteq {b}
        <3>1. /\ open(x) \subseteq {Len(tokenRows[x])}
              /\ \A b \in Rotating(x) : /\ calls[b].presented = Len(tokenRows[x])
                                        /\ Rotating(x) \subseteq {b}
            BY <2>1 DEF SessionsInv, OneRotates
        <3>. QED
            BY <3>1, <2>1, <1>1
    <2>. QED
        BY <2>1, <1>2 DEF OneRotates
<1>4. EndedForGood'
    <2>1. endedAt' \subseteq SessionIds
        BY <1>2 DEF SessionsInv, EndedForGood
    <2>2. ASSUME NEW x \in endedAt', x \notin overtaken'
          PROVE  open(x)' = {} /\ Rotating(x)' = {}
        <3>1. CASE x \in gone
            BY <3>1, <2>2, <1>1, <1>2
        <3>2. CASE x \notin gone
            <4>1. open(x) = {} /\ Rotating(x) = {} /\ x \in SessionIds
                BY <3>2, <2>1, <2>2, <1>2 DEF SessionsInv, EndedForGood
            <4>. QED
                BY <4>1, <3>2, <1>1
        <3>. QED
            BY <3>1, <3>2
    <2>. QED
        BY <2>1, <2>2 DEF EndedForGood
<1>. QED
    BY <1>3, <1>4

LEMMA CondemnKeepsInv ==
    ASSUME SessionsInv, NEW c \in Calls, Condemn(c)
    PROVE  SessionsInv'
<1>1. calls[c].pc = "condemn"
    BY DEF Condemn
<1>2. PICK s \in SessionIds : s = Session(c)
    BY <1>1, SessionOfCall DEF SessionsInv
<1>3. End({s}) /\ jar' = jar /\ excused' = excused /\ endedAt' = endedAt \cup {s}
    BY <1>2 DEF Condemn, End
<1>4. /\ calls' \in [Calls -> Call]
      /\ calls'[c].pc = "reply" /\ calls'[c].tab = calls[c].tab
      /\ calls'[c].presented = calls[c].presented /\ calls'[c].issued = calls[c].issued
      /\ \A b \in Calls \ {c} : calls'[b] = calls[b]
    BY <1>1, Moving DEF Condemn, SessionsInv
<1>5. /\ tokenRows' \in [SessionIds -> Seq(BOOLEAN)]
      /\ \A x \in SessionIds : Len(tokenRows'[x]) = Len(tokenRows[x])
      /\ \A x \in SessionIds \ {s} : tokenRows'[x] = tokenRows[x]
    BY <1>3, Ending DEF SessionsInv
<1>6. RowsThere'
    <2>1. \A b \in Calls : calls'[b].pc # "idle" =>
              /\ calls'[b].tab \in Tabs
              /\ SessionOf[calls'[b].tab] \in SessionIds
              /\ calls'[b].presented \in 1 .. Len(tokenRows[SessionOf[calls'[b].tab]])
              /\ calls'[b].issued <= Len(tokenRows[SessionOf[calls'[b].tab]])
        BY <1>1, <1>4, SessionAssumption DEF SessionsInv, RowsThere, Session
    <2>. QED
        BY <2>1, <1>3, <1>4, <1>5 DEF SessionsInv, RowsThere, Session
<1>7. \A x \in SessionIds : /\ Rotating(x)' = Rotating(x)
                            /\ \A b \in Rotating(x) : calls'[b].presented = calls[b].presented
    BY <1>1, <1>4 DEF Rotating, OnItsWay, Session
<1>8. OneRotates' /\ EndedForGood'
    BY <1>3, <1>7, EndKeepsRows
<1>9. BrowserHolds'
    <2>1. ASSUME NEW x \in SessionIds \ (excused \cup endedAt), x # s
          PROVE  HoldsItsRow(x)'
        <3>1. HoldsItsRow(x)
            BY <2>1 DEF SessionsInv, BrowserHolds
        <3>2. OnItsWay(x)' = OnItsWay(x) /\ \A b \in OnItsWay(x) : calls'[b] = calls[b]
            BY <2>1, <1>2, <1>4, Elsewhere DEF Session
        <3>. QED
            BY <3>1, <3>2, <2>1, <1>3, <1>5, ElsewhereHolds
    <2>2. s \in endedAt \/ s \in excused
        <3>1. c \in OnItsWay(s)
            BY <1>1, <1>2 DEF OnItsWay
        <3>2. ~ HoldsItsRow(s)
            BY <3>1, <1>1 DEF HoldsItsRow
        <3>. QED
            BY <3>2 DEF SessionsInv, BrowserHolds
    <2>3. blamed' \subseteq excused'
        BY <2>2, <1>2, <1>3 DEF Condemn, SessionsInv, BrowserHolds
    <2>. QED
        BY <2>1, <2>3, <1>3 DEF BrowserHolds
<1>. QED
    BY <1>6, <1>8, <1>9 DEF SessionsInv

LEMMA SignOutKeepsInv ==
    ASSUME SessionsInv, NEW gone \in SUBSET SessionIds, End(gone), UNCHANGED <<calls, blamed>>,
           jar' = jar \/ \E s \in gone : jar' = [jar EXCEPT ![s] = 0]
    PROVE  SessionsInv'
<1>1. /\ tokenRows' \in [SessionIds -> Seq(BOOLEAN)]
      /\ \A x \in SessionIds : Len(tokenRows'[x]) = Len(tokenRows[x])
      /\ \A x \in SessionIds \ gone : tokenRows'[x] = tokenRows[x]
    BY Ending DEF SessionsInv
<1>2. /\ jar' \in [SessionIds -> Nat]
      /\ \A x \in SessionIds : jar'[x] = jar[x] \/ jar'[x] = 0
      /\ \A x \in SessionIds \ gone : jar'[x] = jar[x]
    BY DEF SessionsInv, RowsThere
<1>3. RowsThere'
    <2>1. \A x \in SessionIds : jar'[x] <= Len(tokenRows'[x])
        <3>1. \A x \in SessionIds : tokenRows[x] \in Seq(BOOLEAN) /\ Len(tokenRows[x]) \in Nat
            BY LenProperties DEF SessionsInv, RowsThere
        <3>. QED
            BY <3>1, <1>1, <1>2 DEF SessionsInv, RowsThere
    <2>2. \A b \in Calls : calls[b].pc # "idle" => Session(b) \in SessionIds
        BY SessionOfCall DEF SessionsInv
    <2>. QED
        BY <2>1, <2>2, <1>1, <1>2 DEF SessionsInv, RowsThere, Session
<1>4. \A x : /\ Rotating(x)' = Rotating(x) /\ OnItsWay(x)' = OnItsWay(x)
             /\ \A b : calls'[b] = calls[b]
    BY DEF Rotating, OnItsWay, Session
<1>5. OneRotates' /\ EndedForGood'
    BY <1>4, EndKeepsRows
<1>6. BrowserHolds'
    <2>1. excused' = excused /\ endedAt' = endedAt \cup gone
        BY DEF End
    <2>2. ASSUME NEW x \in SessionIds \ (excused \cup endedAt \cup gone)
          PROVE  HoldsItsRow(x)'
        <3>1. HoldsItsRow(x)
            BY <2>2 DEF SessionsInv, BrowserHolds
        <3>. QED
            BY <3>1, <2>2, <1>1, <1>2, <1>4, ElsewhereHolds
    <2>. QED
        BY <2>1, <2>2 DEF SessionsInv, BrowserHolds
<1>. QED
    BY <1>3, <1>5, <1>6 DEF SessionsInv

-----------------------------------------------------------------------------
(* The theorems.                                                           *)

LEMMA SessionsInvInit == ASSUME SessionsInit PROVE SessionsInv
<1>1. /\ \A s \in SessionIds : tokenRows[s] = <<TRUE>> /\ jar[s] = 1
      /\ \A c \in Calls : calls[c].pc = "idle"
    BY DEF SessionsInit, OffLine
<1>2. <<TRUE>> \in Seq(BOOLEAN) /\ Len(<<TRUE>>) = 1 /\ <<TRUE>>[1] = TRUE
    OBVIOUS
<1>3. \A s \in SessionIds : open(s) = {1}
    <2>1. DOMAIN <<TRUE>> = {1} /\ <<TRUE>>[1]
        BY <1>2, LenProperties
    <2>2. {n \in DOMAIN <<TRUE>> : <<TRUE>>[n]} = {1}
        BY <2>1
    <2>. QED
        BY <1>1, <2>2 DEF open
<1>4. \A s : OnItsWay(s) = {} /\ Rotating(s) = {}
    BY <1>1 DEF OnItsWay, Rotating
<1>5. RowsThere
    <2>1. OffLine \in Call
        BY DEF OffLine, Call
    <2>. QED
        BY <2>1, <1>1, <1>2 DEF SessionsInit, RowsThere
<1>6. OneRotates /\ EndedForGood
    BY <1>1, <1>2, <1>3, <1>4 DEF OneRotates, EndedForGood, SessionsInit
<1>7. BrowserHolds
    BY <1>1, <1>3, <1>4 DEF BrowserHolds, HoldsItsRow, SessionsInit
<1>. QED
    BY <1>5, <1>6, <1>7 DEF SessionsInv

LEMMA SessionsInvKept == SessionsInv /\ [SessionsNext]_sessionVars => SessionsInv'
<1>. SUFFICES ASSUME SessionsInv, [SessionsNext]_sessionVars
              PROVE  SessionsInv'
    OBVIOUS
<1>1. CASE UNCHANGED sessionVars
    BY <1>1 DEF sessionVars, SessionsInv, RowsThere, OneRotates, EndedForGood, BrowserHolds,
                HoldsItsRow, open, Rotating, OnItsWay, Session
<1>2. ASSUME NEW c \in Calls, NEW t \in Tabs, Refresh(c, t)
      PROVE  SessionsInv'
    BY <1>2, RefreshKeepsInv
<1>3. ASSUME NEW c \in Calls, Reply(c) \/ LoseReply(c) \/ Rotate(c) \/ Issue(c) \/ Condemn(c)
      PROVE  SessionsInv'
    BY <1>3, ReplyKeepsInv, RotateKeepsInv, IssueKeepsInv, CondemnKeepsInv
<1>4. ASSUME NEW s \in SessionIds, SignOut(s)
      PROVE  SessionsInv'
    BY <1>4, SignOutKeepsInv DEF SignOut
<1>5. CASE SignOutOthers
    BY <1>5, SignOutKeepsInv DEF SignOutOthers
<1>. QED
    BY <1>1, <1>2, <1>3, <1>4, <1>5 DEF SessionsNext

LEMMA SessionsInvAlways == SessionsSpec => []SessionsInv
<1>1. SessionsInit => SessionsInv
    BY SessionsInvInit
<1>. QED
    BY <1>1, SessionsInvKept, PTL DEF SessionsSpec

\* A session has one unrevoked row, its latest, as listSessions says, unless two
\* rotations had read their token before either had written (rotate, issue).
THEOREM OneRowOpen == SessionsSpec => []OneOpenRow
<1>1. SessionsInv => OneOpenRow
    BY DEF SessionsInv, OneRotates, OneOpenRow
<1>. QED
    BY <1>1, SessionsInvAlways, PTL

\* A session that was signed out or condemned with no rotation under way has no
\* open row ever after (revokeSession, revokeAllForUser).
THEOREM EndedStayEnded == SessionsSpec => []SignedOutStaysOut
<1>1. SessionsInv => SignedOutStaysOut
    BY DEF SessionsInv, EndedForGood, SignedOutStaysOut
<1>. QED
    BY <1>1, SessionsInvAlways, PTL

\* A browser that lost no reply and did not refresh in two tabs at once is never
\* taken for a thief (refreshAccessToken's single flight, rotate).
THEOREM OwnBrowserTrusted == SessionsSpec => []OnlyStrangersBlamed
<1>1. SessionsInv => OnlyStrangersBlamed
    BY DEF SessionsInv, BrowserHolds, OnlyStrangersBlamed
<1>. QED
    BY <1>1, SessionsInvAlways, PTL
=============================================================================
