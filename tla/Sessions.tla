------------------------------- MODULE Sessions -------------------------------
(***************************************************************************)
(* Signed-in sessions: refresh tokens, each used once and replaced by the  *)
(* next of its family, a browser whose tabs share one cookie, and the ways *)
(* a session is ended while a rotation is under way.                       *)
(*                                                                         *)
(* A refresh is two steps of the server, reading the presented token's row *)
(* and writing the next one, and a reply the browser may never get.  Rows  *)
(* of a family are numbered in the order they were made.  Access tokens    *)
(* stand and fall with their session's row and are left out, as are        *)
(* expiry, which only refuses, and disabled accounts.                      *)
(***************************************************************************)
EXTENDS Integers, FiniteSets, Sequences

CONSTANTS
    SessionIds,     \* a token family is one browser's session
    Tabs, SessionOf,    \* [Tabs -> SessionIds]
    Calls,          \* refresh calls on their way
    MaxRefreshes,   \* bound: how often a session is refreshed
    MaxLosses,      \* bound: replies that get lost
    NoCall

ASSUME SessionAssumption ==
    /\ SessionOf \in [Tabs -> SessionIds]
    /\ {MaxRefreshes, MaxLosses} \subseteq Nat
    /\ NoCall \notin Tabs \cup Calls

VARIABLES
    tokenRows,  \* RefreshToken: of each family, whether each row is unrevoked
    jar,        \* the row whose token the browser's cookie holds; 0 for none
    calls,      \* refreshes between their steps
    refreshes, losses,  \* counted against the bounds
    endedAt,    \* observation: sessions signed out or found replayed
    overtaken,  \* observation: of those, the ones with a rotation under way then
    crossed,    \* observation: sessions in which two rotations were under way at once
    excused,    \* observation: sessions whose browser lost a reply or refreshed in two tabs at once
    blamed      \* observation: sessions ended because a used token was presented

sessionVars == <<tokenRows, jar, calls, refreshes, losses, endedAt, overtaken, crossed, excused, blamed>>
witness == <<endedAt, overtaken, crossed, excused, blamed>>

OffLine == [pc |-> "idle", tab |-> NoCall, presented |-> 0, issued |-> 0]

\* Everybody has just signed in: issueSession starts a family with its first row.
SessionsInit ==
    /\ tokenRows = [s \in SessionIds |-> <<TRUE>>]
    /\ jar = [s \in SessionIds |-> 1]
    /\ calls = [c \in Calls |-> OffLine]
    /\ refreshes = 0 /\ losses = 0
    /\ endedAt = {} /\ overtaken = {} /\ crossed = {} /\ excused = {} /\ blamed = {}

Session(c) == SessionOf[calls[c].tab]
OnItsWay(s) == {c \in Calls : calls[c].pc # "idle" /\ Session(c) = s}
Rotating(s) == {c \in OnItsWay(s) : calls[c].pc = "issue"}

-----------------------------------------------------------------------------
(* The browser.                                                            *)

\* A tab's requests share the refresh in flight; another tab knows nothing of it.
mayRefreshAgain(t) == TRUE    \* mutant: every 401 refreshes for itself
mayRefresh(t) == \A c \in Calls : calls[c].pc = "idle" \/ calls[c].tab # t

Refresh(c, t) == LET s == SessionOf[t] IN
    /\ refreshes < MaxRefreshes /\ refreshes' = refreshes + 1
    /\ calls[c].pc = "idle" /\ jar[s] # 0 /\ mayRefresh(t)
    /\ calls' = [calls EXCEPT ![c] = [OffLine EXCEPT !.pc = "sent", !.tab = t, !.presented = jar[s]]]
    /\ excused' = IF \E b \in OnItsWay(s) : calls[b].tab # t THEN excused \cup {s} ELSE excused
    /\ UNCHANGED <<tokenRows, jar, losses, endedAt, overtaken, crossed, blamed>>

\* The reply brings the next cookie.
Reply(c) ==
    /\ calls[c].pc = "reply"
    /\ jar' = [jar EXCEPT ![Session(c)] = IF calls[c].issued # 0 THEN calls[c].issued ELSE @]
    /\ calls' = [calls EXCEPT ![c] = OffLine]
    /\ UNCHANGED <<tokenRows, refreshes, losses, witness>>

\* A timeout, a reload, a broken connection: the cookie stays what it was, and
\* the next request refreshes with it.
LoseReply(c) ==
    /\ losses < MaxLosses /\ losses' = losses + 1
    /\ calls[c].pc = "reply"
    /\ excused' = excused \cup {Session(c)}
    /\ calls' = [calls EXCEPT ![c] = OffLine]
    /\ UNCHANGED <<tokenRows, jar, refreshes, endedAt, overtaken, crossed, blamed>>

-----------------------------------------------------------------------------
(* The server.                                                             *)

\* rotate: the presented token's row is read; a used one condemns its family.
Rotate(c) == LET s == Session(c) IN
    /\ calls[c].pc = "sent"
    /\ calls' = [calls EXCEPT ![c].pc = IF tokenRows[s][calls[c].presented] THEN "issue" ELSE "condemn"]
    /\ crossed' = IF calls'[c].pc = "issue" /\ Rotating(s) # {} THEN crossed \cup {s} ELSE crossed
    /\ UNCHANGED <<tokenRows, jar, refreshes, losses, endedAt, overtaken, excused, blamed>>

\* issue: the new row, and the old one revoked, in one transaction.
keptOpen(rows, old) == Append(rows, TRUE)    \* mutant: the old row is not revoked
replaced(rows, old) == Append([rows EXCEPT ![old] = FALSE], TRUE)
Issue(c) == LET s == Session(c) IN
    /\ calls[c].pc = "issue"
    /\ tokenRows' = [tokenRows EXCEPT ![s] = replaced(@, calls[c].presented)]
    /\ calls' = [calls EXCEPT ![c].pc = "reply", ![c].issued = Len(tokenRows[s]) + 1]
    /\ UNCHANGED <<jar, refreshes, losses, witness>>

\* revokeSession, revokeSessionOf, revokeAllForUser: every row of the families.
lastRevoked(rows) == [rows EXCEPT ![Len(rows)] = FALSE]    \* mutant: only the newest
revoked(rows) == [n \in DOMAIN rows |-> FALSE]
End(gone) ==
    /\ tokenRows' = [s \in SessionIds |-> IF s \in gone THEN revoked(tokenRows[s]) ELSE tokenRows[s]]
    /\ endedAt' = endedAt \cup gone
    /\ overtaken' = overtaken \cup {s \in gone : Rotating(s) # {}}
    /\ UNCHANGED <<refreshes, losses, crossed, excused>>

Condemn(c) ==
    /\ calls[c].pc = "condemn"
    /\ End({Session(c)})
    /\ blamed' = IF Session(c) \in endedAt THEN blamed ELSE blamed \cup {Session(c)}
    /\ calls' = [calls EXCEPT ![c].pc = "reply"]
    /\ UNCHANGED jar

\* logout, by the cookie; it is cleared here.
SignOut(s) ==
    /\ jar[s] # 0
    /\ End({s})
    /\ jar' = [jar EXCEPT ![s] = 0]
    /\ UNCHANGED <<calls, blamed>>

\* From another device, or by a password reset or change: all but one session,
\* or all.  Only an open session is there to be ended.
SignOutOthers == \E kept \in SUBSET SessionIds :
    /\ Cardinality(kept) <= 1 /\ kept \cup endedAt # SessionIds
    /\ End(SessionIds \ kept)
    /\ UNCHANGED <<jar, calls, blamed>>

SessionsNext ==
    \/ \E c \in Calls : \/ \E t \in Tabs : Refresh(c, t)
                        \/ Reply(c) \/ LoseReply(c) \/ Rotate(c) \/ Issue(c) \/ Condemn(c)
    \/ \E s \in SessionIds : SignOut(s)
    \/ SignOutOthers

SessionsSpec == SessionsInit /\ [][SessionsNext]_sessionVars

-----------------------------------------------------------------------------
(* Properties.                                                             *)

open(s) == {n \in DOMAIN tokenRows[s] : tokenRows[s][n]}

\* listSessions: each family has one unrevoked row, the latest rotation, unless
\* two rotations of it read their token before either had written.
OneOpenRow == \A s \in SessionIds \ crossed : open(s) \subseteq {Len(tokenRows[s])}

\* A session that was signed out, or condemned, stays so: only a rotation that
\* had read its token by then can bring it back.
SignedOutStaysOut == \A s \in endedAt \ overtaken : open(s) = {}

\* Nobody is signed out by their own browser: its token is taken for a stolen
\* one only after a reply was lost or two tabs refreshed at once.
OnlyStrangersBlamed == blamed \subseteq excused
=============================================================================
