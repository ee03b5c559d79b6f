------------------------ MODULE WorkspaceMembersProofs ------------------------
(***************************************************************************)
(* Every variable of WorkspaceMembers keeps its type; a workspace keeps    *)
(* its one owner while nothing moves ownership under a request; open work  *)
(* waits on nobody who cannot get in; deleted accounts are out, and stay   *)
(* out; who left returns by invitation; and no workspace is taken from     *)
(* somebody a purge could have seen.                                       *)
(*                                                                         *)
(* The invariants add to the properties what a request remembers of its    *)
(* read.  MembersInv: it is about somebody, and no request and no offer    *)
(* carries the role of an owner, which only a transfer gives.  AccessInv:  *)
(* nobody takes over their own work, no departure is forgotten at a        *)
(* sign-in, and whoever a purge did not see came after it looked.          *)
(***************************************************************************)
EXTENDS WorkspaceMembers, TLAPS

Targeted == {"role", "end", "deactivate", "reactivate", "transfer", "invite", "revoke",
             "accept", "sso", "scrub", "purge", "purging", "leave"}
GivesRole == {"role", "invite", "accept"}
Ops == Targeted \cup {"idle", "assign", "drop"}
Lesser == Roles \ {"OWNER"}

Request == [op : Ops, by : People \cup {None}, byRow : Nat, target : People \cup {None}, row : Nat,
            role : Roles \cup {None}, to : People \cup {None},
            then : {"idle", "member", "departed", "scrub"}]

\* What a request may be, between its read and its write.
Sound(r) ==
    /\ r \in Request
    /\ r.op \in Targeted => r.target \in People
    /\ r.op # "idle" => r.by \in People
    /\ r.op \in GivesRole => r.role \in Lesser

RequestsSound ==
    /\ requests = [q \in Requests |-> requests[q]]
    /\ \A q \in Requests : Sound(requests[q])

MembersSound ==
    /\ open \in BOOLEAN
    /\ nextId \in Nat
    /\ members \in [People -> Member \cup {None}]
    /\ \A p \in People : In(p) => open /\ members[p].id < nextId

OffersSound ==
    /\ offers \in [People -> Offer \cup {None}]
    /\ \A p \in People : offers[p] # None => open /\ offers[p].role \in Lesser

RestSound ==
    /\ accounts \subseteq People /\ departed \subseteq People
    /\ assignee \in People \cup {None}
    /\ asks \in 0 .. MaxAsks /\ imports \in Nat
    /\ overlaps \subseteq {"owner", "work", "return", "account"}

Owns(p) == In(p) /\ members[p].role = "OWNER"

MembersInv == RequestsSound /\ MembersSound /\ OffersSound /\ RestSound /\ OneOwnerUnlessMoved

-----------------------------------------------------------------------------
(* Lemmas.                                                                 *)

\* Where nobody's ownership changes, one owner stays one owner.
LEMMA OwnersKept ==
    ASSUME OneOwnerUnlessMoved, overlaps \subseteq overlaps', open' => open,
           "owner" \notin overlaps' => \A p \in People : Owns(p)' <=> Owns(p)
    PROVE  OneOwnerUnlessMoved'
BY DEF OneOwnerUnlessMoved, OneOwner, Owns, In

\* A request that is answered leaves the requests sound.
LEMMA AnsweredSound ==
    ASSUME RequestsSound, NEW q \in Requests, Answered(q)
    PROVE  RequestsSound'
<1>1. Sound(NoAsk)
    BY MembersAssumption DEF Sound, NoAsk, Request, Ops, Targeted, GivesRole
<1>. QED
    BY <1>1 DEF RequestsSound, Answered

\* So does one that asks for something sound, and nothing else changes.
LEMMA AskSound ==
    ASSUME MembersInv, NEW q \in Requests, NEW r, Sound(r), Ask(q, r)
    PROVE  MembersInv'
<1>1. RequestsSound'
    BY DEF MembersInv, RequestsSound, Ask
<1>2. MembersSound' /\ OffersSound' /\ OneOwnerUnlessMoved'
    BY DEF MembersInv, Ask, MembersSound, OffersSound, OneOwnerUnlessMoved, OneOwner, In
<1>3. RestSound'
    BY MembersAssumption DEF MembersInv, Ask, RestSound
<1>. QED
    BY <1>1, <1>2, <1>3 DEF MembersInv

\* A request about a member names them, and the row its maker has.
LEMMA AboutSound ==
    ASSUME MembersInv, NEW op \in {"role", "end", "deactivate", "reactivate", "transfer"},
           NEW a \in People, NEW t \in People, In(t)
    PROVE  /\ About(op, a, t) \in Request
           /\ About(op, a, t).op = op /\ About(op, a, t).by = a /\ About(op, a, t).target = t
           /\ op # "role" => Sound(About(op, a, t))
           /\ \A to \in People \cup {None} :
                op # "role" => Sound([About(op, a, t) EXCEPT !.to = to])
           /\ \A role \in Lesser : Sound([About(op, a, t) EXCEPT !.role = role])
<1>1. members[t].id \in Nat /\ (In(a) => members[a].id \in Nat)
    BY DEF MembersInv, MembersSound, Member, In
<1>. DEFINE byRow == IF In(a) THEN members[a].id ELSE 0
            r == [op |-> op, by |-> a, byRow |-> byRow, target |-> t, row |-> members[t].id,
                  role |-> None, to |-> None, then |-> "idle"]
<1>2. About(op, a, t) = r
    BY DEF About
<1>3. byRow \in Nat
    BY <1>1
<1>. HIDE DEF byRow
<1>4. r \in Request /\ op \in Targeted
    BY <1>1, <1>3 DEF Request, Ops, Targeted
<1>5. op # "role" => op \notin GivesRole
    BY DEF GivesRole
<1>6. op # "role" => Sound(r)
    BY <1>4, <1>5 DEF Sound
<1>7. ASSUME NEW to \in People \cup {None}, op # "role"
      PROVE  Sound([r EXCEPT !.to = to])
    <2>1. [r EXCEPT !.to = to] \in Request
        BY <1>4 DEF Request
    <2>. QED
        BY <2>1, <1>7, <1>5 DEF Sound
<1>8. ASSUME NEW role \in Lesser
      PROVE  Sound([r EXCEPT !.role = role])
    <2>1. [r EXCEPT !.role = role] \in Request
        BY <1>4 DEF Request, Lesser
    <2>. QED
        BY <2>1, <1>8 DEF Sound
<1>. HIDE DEF r
<1>9. r.op = op /\ r.by = a /\ r.target = t
    BY DEF r
<1>. QED
    BY <1>2, <1>4, <1>6, <1>7, <1>8, <1>9

LEMMA RecipientsArePeople == ASSUME NEW t PROVE Recipients(t) \subseteq People \cup {None}
BY DEF Recipients

-----------------------------------------------------------------------------
(* What is checked.                                                        *)

LEMMA AsksKeepInv ==
    ASSUME MembersInv, NEW q \in Requests, NEW a \in People,
           \/ \E t \in People, role \in Roles : AskRole(q, a, t, role) \/ AskInvite(q, a, t, role)
           \/ \E t \in People, to \in People \cup {None} :
                AskRemove(q, a, t, to) \/ AskDeactivate(q, a, t, to)
           \/ \E t \in People : AskReactivate(q, a, t) \/ AskTransfer(q, a, t)
                                  \/ AskRevoke(q, a, t) \/ AskAssign(q, a, t)
           \/ AskLeave(q, a) \/ AskAccept(q, a) \/ AskSso(q, a) \/ AskDrop(q, a) \/ AskDelete(q, a)
    PROVE  MembersInv'
<1>. USE DEF NoAsk, Request, Ops, Targeted, GivesRole, Lesser
<1>1. ASSUME NEW t \in People, NEW role \in Roles, AskRole(q, a, t, role)
      PROVE  MembersInv'
    <2>1. In(t) /\ role \in Lesser
        BY <1>1 DEF AskRole, canGrantRole
    <2>2. Sound([About("role", a, t) EXCEPT !.role = role])
        BY <2>1, AboutSound
    <2>. QED
        BY <1>1, <2>2, AskSound DEF AskRole
<1>2. ASSUME NEW t \in People, NEW role \in Roles, AskInvite(q, a, t, role)
      PROVE  MembersInv'
    <2>1. role \in Lesser
        BY <1>2 DEF AskInvite, canGrantRole
    <2>2. Sound([NoAsk EXCEPT !.op = "invite", !.by = a, !.target = t, !.role = role])
        BY <2>1 DEF Sound
    <2>. QED
        BY <1>2, <2>2, AskSound DEF AskInvite
<1>3. ASSUME NEW t \in People, NEW to \in People \cup {None}, AskRemove(q, a, t, to)
      PROVE  MembersInv'
    <2>1. Sound([About("end", a, t) EXCEPT !.to = to])
        BY <1>3, AboutSound DEF AskRemove
    <2>. QED
        BY <1>3, <2>1, AskSound DEF AskRemove
<1>4. ASSUME NEW t \in People, NEW to \in People \cup {None}, AskDeactivate(q, a, t, to)
      PROVE  MembersInv'
    <2>1. Sound([About("deactivate", a, t) EXCEPT !.to = to])
        BY <1>4, AboutSound DEF AskDeactivate, Active
    <2>. QED
        BY <1>4, <2>1, AskSound DEF AskDeactivate
<1>5. ASSUME NEW t \in People, AskReactivate(q, a, t) \/ AskTransfer(q, a, t)
      PROVE  MembersInv'
    <2>1. Sound(About("reactivate", a, t)) /\ Sound(About("transfer", a, t))
        BY <1>5, AboutSound DEF AskReactivate, AskTransfer
    <2>. QED
        BY <1>5, <2>1, AskSound DEF AskReactivate, AskTransfer
<1>6. ASSUME NEW t \in People, AskRevoke(q, a, t) \/ AskAssign(q, a, t)
      PROVE  MembersInv'
    <2>1. /\ Sound([NoAsk EXCEPT !.op = "revoke", !.by = a, !.target = t])
          /\ Sound([NoAsk EXCEPT !.op = "assign", !.by = a, !.to = t])
        BY DEF Sound
    <2>. QED
        BY <1>6, <2>1, AskSound DEF AskRevoke, AskAssign
<1>7. ASSUME AskLeave(q, a)
      PROVE  MembersInv'
    <2>1. Sound(About("end", a, a))
        BY <1>7, AboutSound DEF AskLeave, Active
    <2>. QED
        BY <1>7, <2>1, AskSound DEF AskLeave
<1>8. ASSUME AskAccept(q, a)
      PROVE  MembersInv'
    <2>1. offers[a].role \in Lesser
        BY <1>8 DEF AskAccept, Usable, MembersInv, OffersSound
    <2>2. Sound([NoAsk EXCEPT !.op = "accept", !.by = a, !.target = a, !.role = offers[a].role,
                              !.then = IF In(a) THEN "member" ELSE "idle"])
        BY <2>1 DEF Sound
    <2>. QED
        BY <1>8, <2>2, AskSound DEF AskAccept
<1>9. ASSUME AskSso(q, a)
      PROVE  MembersInv'
    <2>1. Sound([NoAsk EXCEPT !.op = "sso", !.by = a, !.target = a,
                              !.then = IF a \in departed THEN "departed" ELSE "idle"])
        BY DEF Sound
    <2>. QED
        BY <1>9, <2>1, AskSound DEF AskSso
<1>10. ASSUME AskDrop(q, a)
       PROVE  MembersInv'
    <2>1. Sound([NoAsk EXCEPT !.op = "drop", !.by = a])
        BY DEF Sound
    <2>. QED
        BY <1>10, <2>1, AskSound DEF AskDrop
<1>11. ASSUME AskDelete(q, a)
       PROVE  MembersInv'
    <2>1. Sound([NoAsk EXCEPT !.by = a, !.target = a,
                   !.op = IF ~ In(a) THEN "scrub"
                          ELSE IF members[a].role = "OWNER" THEN "purge" ELSE "leave"])
        BY DEF Sound
    <2>. QED
        BY <1>11, <2>1, AskSound DEF AskDelete
<1>. QED
    BY <1>1, <1>2, <1>3, <1>4, <1>5, <1>6, <1>7, <1>8, <1>9, <1>10, <1>11

-----------------------------------------------------------------------------
(* What is written.                                                        *)

\* What a request that is due to act on a member has read, and still finds.
LEMMA WhoIsThere ==
    ASSUME MembersInv, NEW q \in Requests
    PROVE  /\ requests[q].op \in Targeted => requests[q].target \in People
           /\ requests[q].op \in GivesRole => requests[q].role \in Lesser
           /\ requests[q].op # "idle" => requests[q].by \in People
           /\ requests[q].to \in People \cup {None}
           /\ \A p \in People : In(p) => /\ members[p] \in Member /\ open
                                         /\ members[p].id < nextId
BY DEF MembersInv, RequestsSound, Sound, Request, MembersSound, In

\* One that moves the request on leaves it sound.
LEMMA GoesSound ==
    ASSUME RequestsSound, NEW q \in Requests, requests[q].op \in Targeted,
           NEW op \in {"scrub", "purging", "leave"}, Goes(q, op)
    PROVE  RequestsSound'
<1>1. Sound([requests[q] EXCEPT !.op = op])
    BY DEF RequestsSound, Sound, Request, Ops, Targeted, GivesRole
<1>. QED
    BY <1>1 DEF RequestsSound, Goes

LEMMA ChangeRoleKeepsInv ==
    ASSUME MembersInv, NEW q \in Requests, ChangeRole(q)
    PROVE  MembersInv'
<1>. DEFINE t == requests[q].target
<1>1. t \in People /\ requests[q].role \in Lesser /\ In(t) /\ members[t] \in Member
    BY WhoIsThere DEF ChangeRole, TargetThere, There, Targeted, GivesRole
<1>2. RequestsSound'
    BY AnsweredSound DEF MembersInv, ChangeRole
<1>3. [members[t] EXCEPT !.role = requests[q].role] \in Member
    BY <1>1 DEF Member, Lesser
<1>4. MembersSound'
    BY <1>1, <1>3, MembersAssumption DEF MembersInv, MembersSound, ChangeRole, In, Member
<1>5. OffersSound' /\ RestSound'
    BY DEF MembersInv, OffersSound, RestSound, ChangeRole, Overlap
<1>6. "owner" \notin overlaps' => members[t].role # "OWNER"
    BY DEF ChangeRole, Overlap, OwnerMoved
<1>7. "owner" \notin overlaps' => \A p \in People : Owns(p)' <=> Owns(p)
    BY <1>1, <1>3, <1>6, MembersAssumption DEF MembersInv, MembersSound, ChangeRole, Owns, In, Member, Lesser
<1>8. OneOwnerUnlessMoved'
    BY <1>7, OwnersKept DEF MembersInv, ChangeRole, Overlap
<1>. QED
    BY <1>2, <1>4, <1>5, <1>8 DEF MembersInv

LEMMA EndMembershipKeepsInv ==
    ASSUME MembersInv, NEW q \in Requests, EndMembership(q)
    PROVE  MembersInv'
<1>. DEFINE t == requests[q].target
<1>1. t \in People /\ In(t) /\ requests[q].to \in People \cup {None}
    BY WhoIsThere DEF EndMembership, TargetThere, There, Targeted
<1>2. RequestsSound'
    BY AnsweredSound, GoesSound DEF MembersInv, EndMembership, Targeted
<1>3. MembersSound' /\ OffersSound'
    BY <1>1 DEF MembersInv, MembersSound, OffersSound, EndMembership, In
<1>4. RestSound'
    BY <1>1 DEF MembersInv, RestSound, EndMembership, Overlap, handOver
<1>5. "owner" \notin overlaps' => members[t].role # "OWNER"
    BY DEF EndMembership, Overlap, OwnerMoved
<1>6. "owner" \notin overlaps' => \A p \in People : Owns(p)' <=> Owns(p)
    BY <1>1, <1>5 DEF MembersInv, MembersSound, EndMembership, Owns, In
<1>7. OneOwnerUnlessMoved'
    BY <1>6, OwnersKept DEF MembersInv, EndMembership, Overlap
<1>. QED
    BY <1>2, <1>3, <1>4, <1>7 DEF MembersInv

LEMMA DeactivateKeepsInv ==
    ASSUME MembersInv, NEW q \in Requests, Deactivate(q) \/ Reactivate(q)
    PROVE  MembersInv'
<1>. DEFINE t == requests[q].target
<1>1. t \in People /\ In(t) /\ members[t] \in Member /\ requests[q].to \in People \cup {None}
    BY WhoIsThere DEF Deactivate, Reactivate, TargetThere, There, Targeted
<1>2. RequestsSound'
    BY AnsweredSound DEF MembersInv, Deactivate, Reactivate
<1>3. PICK b \in BOOLEAN : members' = [members EXCEPT ![t].active = b]
    BY DEF Deactivate, Reactivate
<1>4. /\ [members[t] EXCEPT !.active = b] \in Member
      /\ [members[t] EXCEPT !.active = b].role = members[t].role
      /\ [members[t] EXCEPT !.active = b].id = members[t].id
    BY <1>1 DEF Member
<1>5. MembersSound'
    BY <1>1, <1>3, <1>4, MembersAssumption DEF MembersInv, MembersSound, Deactivate, Reactivate, In
<1>6. OffersSound' /\ RestSound'
    BY <1>1 DEF MembersInv, OffersSound, RestSound, Deactivate, Reactivate, Overlap, handOver
<1>7. \A p \in People : Owns(p)' <=> Owns(p)
    BY <1>1, <1>3, <1>4, MembersAssumption DEF MembersInv, MembersSound, Owns, In
<1>8. OneOwnerUnlessMoved'
    BY <1>7, OwnersKept DEF MembersInv, Deactivate, Reactivate, Overlap
<1>. QED
    BY <1>2, <1>5, <1>6, <1>8 DEF MembersInv

\* The one step that makes an owner: its maker is the owner it unmakes.
LEMMA TransferKeepsInv ==
    ASSUME MembersInv, NEW q \in Requests, TransferOwnership(q)
    PROVE  MembersInv'
<1>1. PICK t \in People, a \in People :
        /\ t = requests[q].target /\ In(t) /\ members[t] \in Member
        /\ a = requests[q].by /\ In(a) /\ members[a] \in Member
    BY WhoIsThere DEF TransferOwnership, TargetThere, There, Targeted
<1>. DEFINE atOne == [members EXCEPT ![a].role = formerOwner]
<1>2. RequestsSound'
    BY AnsweredSound DEF MembersInv, TransferOwnership
<1>3. [members[a] EXCEPT !.role = formerOwner] \in Member
    BY <1>1, MembersAssumption DEF Member, formerOwner
<1>4. /\ atOne \in [People -> Member \cup {None}] /\ atOne[t] \in Member
      /\ \A p \in People : (atOne[p] # None <=> In(p)) /\ (In(p) => atOne[p].id = members[p].id)
      /\ atOne[a].role # "OWNER"
      /\ \A p \in People \ {a} : atOne[p] = members[p]
    BY <1>1, <1>3, MembersAssumption DEF MembersInv, MembersSound, In, Member, formerOwner
<1>5. /\ members' = [atOne EXCEPT ![t].role = "OWNER"]
      /\ [atOne[t] EXCEPT !.role = "OWNER"] \in Member
    BY <1>1, <1>4, MembersAssumption DEF TransferOwnership, Member
<1>. HIDE DEF atOne
<1>6. /\ members' \in [People -> Member \cup {None}]
      /\ \A p \in People : In(p)' <=> In(p)
      /\ \A p \in People : In(p) => members'[p].id = members[p].id
      /\ members'[t].role = "OWNER"
      /\ \A p \in People \ {t} : members'[p] = atOne[p]
    BY <1>1, <1>4, <1>5, MembersAssumption DEF In, Member
<1>7. MembersSound'
    <2>1. open' = open /\ nextId' = nextId
        BY DEF TransferOwnership
    <2>. QED
        BY <1>6, <2>1 DEF MembersInv, MembersSound
<1>8. OffersSound' /\ RestSound'
    BY DEF MembersInv, OffersSound, RestSound, TransferOwnership, Overlap
<1>9. "owner" \notin overlaps' => "owner" \notin overlaps /\ members[a].role = "OWNER"
    BY <1>1 DEF TransferOwnership, Overlap, OwnerMoved
<1>10. OneOwnerUnlessMoved'
    <2>1. SUFFICES ASSUME "owner" \notin overlaps', open'
                   PROVE  OneOwner'
        BY DEF OneOwnerUnlessMoved, OneOwner
    <2>2. Owns(a) /\ OneOwner /\ open
        BY <1>1, <1>9, <2>1 DEF MembersInv, OneOwnerUnlessMoved, Owns, TransferOwnership
    <2>3. \A p \in People : Owns(p) => p = a
        BY <1>1, <2>2 DEF OneOwner, Owns
    <2>4. Owns(t)'
        BY <1>1, <1>6 DEF Owns, In
    <2>5. \A p \in People \ {t} : ~ Owns(p)'
        BY <1>1, <1>4, <1>6, <2>3 DEF Owns, In
    <2>. QED
        BY <1>1, <2>4, <2>5 DEF OneOwner, Owns, In
<1>. QED
    BY <1>2, <1>7, <1>8, <1>10 DEF MembersInv

LEMMA OfferKeepsInv ==
    ASSUME MembersInv, NEW q \in Requests, Invite(q) \/ Revoke(q)
    PROVE  MembersInv'
<1>. DEFINE t == requests[q].target
<1>1. t \in People /\ (requests[q].op = "invite" => requests[q].role \in Lesser)
    BY WhoIsThere DEF Invite, Revoke, Targeted, GivesRole
<1>2. RequestsSound'
    BY AnsweredSound DEF MembersInv, Invite, Revoke
<1>3. OffersSound'
    <2>1. CASE Invite(q)
        BY <1>1, <2>1 DEF MembersInv, OffersSound, Invite, Offer, Lesser
    <2>2. CASE Revoke(q)
        <3>1. offers[t] \in Offer /\ offers[t].role \in Lesser /\ open
            BY <1>1, <2>2 DEF MembersInv, OffersSound, Revoke
        <3>2. /\ [offers[t] EXCEPT !.state = "revoked"] \in Offer
              /\ [offers[t] EXCEPT !.state = "revoked"].role = offers[t].role
            BY <3>1 DEF Offer
        <3>. QED
            BY <1>1, <2>2, <3>1, <3>2 DEF MembersInv, OffersSound, Revoke
    <2>. QED
        BY <2>1, <2>2
<1>4. MembersSound' /\ RestSound' /\ OneOwnerUnlessMoved'
    BY DEF MembersInv, MembersSound, RestSound, OneOwnerUnlessMoved, OneOwner, In, Invite, Revoke
<1>. QED
    BY <1>2, <1>3, <1>4 DEF MembersInv

\* Whoever joins is no owner.
LEMMA JoinSound ==
    ASSUME MembersInv, NEW p \in People, NEW role \in Lesser, open, open' = open, ~ In(p), Join(p, role)
    PROVE  MembersSound' /\ \A o \in People : Owns(o)' <=> Owns(o)
<1>1. [id |-> nextId, role |-> role, active |-> TRUE] \in Member
    BY DEF MembersInv, MembersSound, Member, Lesser
<1>2. \A o \in People : members'[o] = IF o = p THEN [id |-> nextId, role |-> role, active |-> TRUE]
                                               ELSE members[o]
    BY DEF Join, MembersInv, MembersSound
<1>3. members' \in [People -> Member \cup {None}] /\ nextId' \in Nat /\ nextId < nextId'
    BY <1>1 DEF MembersInv, MembersSound, Join
<1>4. \A o \in People : In(o)' => open' /\ members'[o].id < nextId'
    BY <1>2, <1>3 DEF MembersInv, MembersSound, Join, In, Member
<1>5. MembersSound'
    BY <1>3, <1>4 DEF MembersInv, MembersSound
<1>6. [id |-> nextId, role |-> role, active |-> TRUE] # None
    BY <1>1, MembersAssumption
<1>7. \A o \in People : Owns(o)' <=> Owns(o)
    BY <1>2, <1>6 DEF Owns, In, Lesser
<1>. QED
    BY <1>5, <1>7

LEMMA AcceptKeepsInv ==
    ASSUME MembersInv, NEW q \in Requests, Accept(q)
    PROVE  MembersInv'
<1>. DEFINE t == requests[q].target
<1>1. t \in People /\ requests[q].role \in Lesser /\ offers[t] \in Offer /\ offers[t].role \in Lesser /\ open
    BY WhoIsThere DEF Accept, Targeted, GivesRole, MembersInv, OffersSound
<1>2. RequestsSound'
    BY AnsweredSound DEF MembersInv, Accept
<1>3. MembersSound' /\ \A p \in People : Owns(p)' <=> Owns(p)
    <2>1. CASE requests[q].then = "member"
        BY <2>1 DEF MembersInv, MembersSound, Accept, Owns, In
    <2>2. CASE requests[q].then # "member"
        BY <1>1, <2>2, JoinSound DEF Accept
    <2>. QED
        BY <2>1, <2>2
<1>4. /\ [offers[t] EXCEPT !.state = "spent"] \in Offer
      /\ [offers[t] EXCEPT !.state = "spent"].role = offers[t].role
    BY <1>1 DEF Offer
<1>5. OffersSound'
    BY <1>1, <1>4 DEF MembersInv, OffersSound, Accept
<1>6. RestSound'
    BY DEF MembersInv, RestSound, Accept, Overlap
<1>7. OneOwnerUnlessMoved'
    BY <1>3, OwnersKept DEF MembersInv, Accept, Overlap
<1>. QED
    BY <1>2, <1>3, <1>5, <1>6, <1>7 DEF MembersInv

LEMMA SamlKeepsInv ==
    ASSUME MembersInv, NEW q \in Requests, SignInWithSaml(q)
    PROVE  MembersInv'
<1>1. requests[q].target \in People /\ "MEMBER" \in Lesser
    BY WhoIsThere, MembersAssumption DEF SignInWithSaml, Targeted, Lesser
<1>2. RequestsSound'
    BY AnsweredSound DEF MembersInv, SignInWithSaml
<1>3. MembersSound' /\ \A p \in People : Owns(p)' <=> Owns(p)
    BY <1>1, JoinSound DEF SignInWithSaml
<1>4. OffersSound' /\ RestSound'
    BY DEF MembersInv, OffersSound, RestSound, SignInWithSaml, Overlap
<1>5. OneOwnerUnlessMoved'
    BY <1>3, OwnersKept DEF MembersInv, SignInWithSaml, Overlap
<1>. QED
    BY <1>2, <1>3, <1>4, <1>5 DEF MembersInv

LEMMA ImportKeepsInv ==
    ASSUME MembersInv, NEW p \in People, NEW role \in ImportRoles, ImportPerson(p, role)
    PROVE  MembersInv'
<1>1. role \in Lesser
    BY MembersAssumption DEF Lesser
<1>2. MembersSound' /\ \A o \in People : Owns(o)' <=> Owns(o)
    BY <1>1, JoinSound DEF ImportPerson
<1>3. RequestsSound' /\ OffersSound'
    BY DEF MembersInv, RequestsSound, OffersSound, ImportPerson
<1>4. RestSound'
    BY MembersAssumption DEF MembersInv, RestSound, ImportPerson
<1>5. OneOwnerUnlessMoved'
    BY <1>2, OwnersKept DEF MembersInv, ImportPerson
<1>. QED
    BY <1>2, <1>3, <1>4, <1>5 DEF MembersInv

LEMMA AssignKeepsInv ==
    ASSUME MembersInv, NEW q \in Requests, Assign(q)
    PROVE  MembersInv'
<1>1. RequestsSound' /\ requests[q].to \in People \cup {None}
    BY WhoIsThere, AnsweredSound DEF MembersInv, Assign
<1>2. MembersSound' /\ OffersSound'
    BY DEF MembersInv, MembersSound, OffersSound, In, Assign
<1>3. RestSound'
    BY <1>1 DEF MembersInv, RestSound, Assign, Overlap
<1>4. OneOwnerUnlessMoved'
    <2>1. \A p \in People : Owns(p)' <=> Owns(p)
        BY DEF Assign, Owns, In
    <2>. QED
        BY <2>1, OwnersKept DEF MembersInv, Assign, Overlap
<1>. QED
    BY <1>1, <1>2, <1>3, <1>4 DEF MembersInv

-----------------------------------------------------------------------------
(* Deleting a workspace, or an account.                                    *)

\* Nobody is left in it, and nothing needs an owner.
LEMMA CascadeKeepsInv ==
    ASSUME MembersInv, NEW q \in Requests, DeleteAsOwner(q) \/ PurgeWorkspace(q)
    PROVE  MembersInv'
<1>1. Cascade /\ UNCHANGED <<accounts, nextId, asks, imports, overlaps>>
    BY DEF DeleteAsOwner, PurgeWorkspace
<1>2. RequestsSound'
    BY AnsweredSound, GoesSound DEF MembersInv, DeleteAsOwner, PurgeWorkspace, Targeted
<1>3. MembersSound' /\ OffersSound'
    BY <1>1 DEF MembersInv, MembersSound, OffersSound, Cascade, In
<1>4. RestSound' /\ OneOwnerUnlessMoved'
    BY <1>1 DEF MembersInv, RestSound, OneOwnerUnlessMoved, OneOwner, Cascade
<1>. QED
    BY <1>2, <1>3, <1>4 DEF MembersInv

\* Only the request moves on.
LEMMA DeletionReadsKeepInv ==
    ASSUME MembersInv, NEW q \in Requests, PurgeCheck(q) \/ LeaveBehind(q) \/ Failing(q)
    PROVE  MembersInv'
<1>1. UNCHANGED <<open, accounts, members, departed, offers, assignee, nextId, asks, imports, overlaps>>
    BY DEF PurgeCheck, LeaveBehind, Failing, Fail
<1>2. RequestsSound'
    <2>1. CASE Failing(q)
        BY <2>1, AnsweredSound DEF MembersInv, Failing, Fail
    <2>2. CASE PurgeCheck(q)
        <3>1. Sound([requests[q] EXCEPT !.op = "purging", !.row = nextId])
            BY <2>2, ZenonT(30) DEF MembersInv, MembersSound, RequestsSound, PurgeCheck, Sound, Request, Ops,
                        Targeted, GivesRole
        <3>2. CASE aloneAs(q)
            BY <2>2, <3>1, <3>2 DEF MembersInv, RequestsSound, PurgeCheck
        <3>3. CASE ~ aloneAs(q)
            BY <2>2, <3>3, AnsweredSound DEF MembersInv, PurgeCheck, Answered
        <3>. QED
            BY <3>2, <3>3
    <2>3. CASE LeaveBehind(q)
        <3>. DEFINE t == requests[q].target
        <3>1. t \in People /\ (In(t) => members[t].id \in Nat)
            BY <2>3, WhoIsThere DEF LeaveBehind, Targeted, Member
        <3>2. CASE ~ In(t)
            <4>1. Sound([requests[q] EXCEPT !.op = "scrub"])
                BY <2>3 DEF MembersInv, RequestsSound, LeaveBehind, Sound, Request, Ops, Targeted, GivesRole
            <4>. QED
                BY <2>3, <3>2, <4>1 DEF MembersInv, RequestsSound, LeaveBehind
        <3>3. CASE In(t) /\ members[t].role = "OWNER"
            BY <2>3, <3>3, AnsweredSound DEF MembersInv, LeaveBehind, Answered
        <3>4. CASE In(t) /\ members[t].role # "OWNER"
            <4>1. Sound([requests[q] EXCEPT !.op = "end", !.row = members[t].id, !.then = "scrub"])
                BY <2>3, <3>1, <3>4 DEF MembersInv, RequestsSound, LeaveBehind, Sound, Request, Ops,
                                        Targeted, GivesRole
            <4>. QED
                BY <2>3, <3>4, <4>1 DEF MembersInv, RequestsSound, LeaveBehind
        <3>. QED
            BY <3>2, <3>3, <3>4
    <2>. QED
        BY <2>1, <2>2, <2>3
<1>3. MembersSound' /\ OffersSound' /\ RestSound'
    BY <1>1 DEF MembersInv, MembersSound, OffersSound, RestSound, In
<1>4. OneOwnerUnlessMoved'
    BY <1>1 DEF MembersInv, OneOwnerUnlessMoved, OneOwner, In
<1>. QED
    BY <1>2, <1>3, <1>4 DEF MembersInv

LEMMA ScrubKeepsInv ==
    ASSUME MembersInv, NEW q \in Requests, Scrub(q)
    PROVE  MembersInv'
<1>. DEFINE t == requests[q].target
<1>1. t \in People
    BY WhoIsThere DEF Scrub, Targeted
<1>2. RequestsSound'
    BY AnsweredSound DEF MembersInv, Scrub
<1>3. \A p \in People : members'[p] = IF p = t /\ In(t) /\ members[t].role # "OWNER" THEN None ELSE members[p]
    BY <1>1 DEF MembersInv, MembersSound, Scrub, scrubbed
<1>4. members' \in [People -> Member \cup {None}]
    BY <1>1 DEF MembersInv, MembersSound, Scrub, scrubbed
<1>5. MembersSound'
    BY <1>3, <1>4 DEF MembersInv, MembersSound, In, Scrub
<1>6. OffersSound' /\ RestSound'
    BY DEF MembersInv, OffersSound, RestSound, Scrub, Overlap
<1>7. \A p \in People : Owns(p)' <=> Owns(p)
    BY <1>3 DEF Owns, In
<1>8. OneOwnerUnlessMoved'
    BY <1>7, OwnersKept DEF MembersInv, Scrub, Overlap
<1>. QED
    BY <1>2, <1>5, <1>6, <1>8 DEF MembersInv

-----------------------------------------------------------------------------
(* Theorems.                                                               *)

LEMMA MembersInitInv == ASSUME MembersInit PROVE MembersInv
<1>1. RequestsSound
    BY MembersAssumption DEF MembersInit, RequestsSound, Sound, NoAsk, Request, Ops, Targeted, GivesRole
<1>2. PICK role \in [People -> Roles \cup {None}] :
        /\ \A p \in People : role[p] = "OWNER" <=> p = Founder
        /\ members = [p \in People |->
                IF role[p] = None THEN None ELSE [id |-> 0, role |-> role[p], active |-> TRUE]]
    BY DEF MembersInit
<1>3. \A p \in People : role[p] # None => /\ [id |-> 0, role |-> role[p], active |-> TRUE] \in Member
                                          /\ [id |-> 0, role |-> role[p], active |-> TRUE] # None
    <2>1. TAKE p \in People
    <2>2. HAVE role[p] # None
    <2>3. role[p] \in Roles
        BY <2>2
    <2>4. [id |-> 0, role |-> role[p], active |-> TRUE] \in Member
        BY <2>3 DEF Member
    <2>. QED
        BY <2>4, MembersAssumption
<1>4. MembersSound
    BY <1>2, <1>3 DEF MembersInit, MembersSound, In
<1>5. OffersSound
    <2>1. [role |-> "MEMBER", state |-> "open"] \in Offer /\ "MEMBER" \in Lesser
        BY MembersAssumption DEF Offer, Lesser
    <2>. QED
        BY <2>1 DEF MembersInit, OffersSound
<1>6. RestSound
    <2>1. accounts = People /\ departed \subseteq People /\ assignee \in People
        BY DEF MembersInit
    <2>2. asks = 0 /\ imports = 0 /\ overlaps = {}
        BY DEF MembersInit
    <2>. QED
        BY <2>1, <2>2, MembersAssumption DEF RestSound
<1>7. \A p \in People : Owns(p) <=> p = Founder
    BY <1>2, <1>3, MembersAssumption DEF Owns, In
<1>8. OneOwnerUnlessMoved
    BY <1>7, MembersAssumption DEF OneOwnerUnlessMoved, OneOwner, Owns, In
<1>. QED
    BY <1>1, <1>4, <1>5, <1>6, <1>8 DEF MembersInv

LEMMA MembersNextKeepsInv == ASSUME MembersInv, [MembersNext]_mvars PROVE MembersInv'
<1>1. CASE UNCHANGED mvars
    <2>1. RequestsSound' /\ MembersSound' /\ OffersSound' /\ RestSound'
        BY <1>1 DEF MembersInv, mvars, RequestsSound, MembersSound, OffersSound, RestSound, In
    <2>2. OneOwnerUnlessMoved'
        BY <1>1 DEF MembersInv, mvars, OneOwnerUnlessMoved, OneOwner, In
    <2>. QED
        BY <2>1, <2>2 DEF MembersInv
<1>2. CASE MembersNext
    BY <1>2, AsksKeepInv, ChangeRoleKeepsInv, EndMembershipKeepsInv, DeactivateKeepsInv,
       TransferKeepsInv, OfferKeepsInv, AcceptKeepsInv, SamlKeepsInv, ImportKeepsInv, AssignKeepsInv,
       CascadeKeepsInv, DeletionReadsKeepInv, ScrubKeepsInv, Zenon DEF MembersNext
<1>. QED
    BY <1>1, <1>2

\* In every workspace, of any size and with any number of requests side by side,
\* there is one owner, unless ownership moved between the read and the write of a
\* request that acts on owner or heir (updateRole, remove, deactivate,
\* transferOwnership, accept, signInWithSaml, purge, scrub).
THEOREM OneOwnerKept == MembersSpec => []OneOwnerUnlessMoved
<1>1. MembersInit => MembersInv
    BY MembersInitInv
<1>2. MembersInv /\ [MembersNext]_mvars => MembersInv'
    BY MembersNextKeepsInv
<1>3. MembersInv => OneOwnerUnlessMoved
    BY DEF MembersInv
<1>. QED
    BY <1>1, <1>2, <1>3, PTL DEF MembersSpec

\* Rows, offers and requests keep their types, and nobody is in a workspace that
\* is gone.
THEOREM MembersTyped == MembersSpec => []MembersTypeOK
<1>1. MembersInit => MembersInv
    BY MembersInitInv
<1>2. MembersInv /\ [MembersNext]_mvars => MembersInv'
    BY MembersNextKeepsInv
<1>3. MembersInv => MembersTypeOK
    BY DEF MembersInv, MembersSound, OffersSound, RestSound, MembersTypeOK
<1>. QED
    BY <1>1, <1>2, <1>3, PTL DEF MembersSpec

-----------------------------------------------------------------------------
(* Who comes in, what a request remembers, and where the work goes.        *)

\* Nobody hands their work to themselves; nobody is let in as one who had left.
Recalls(r) ==
    /\ r.op \in {"end", "deactivate", "leave"} => r.to # r.target
    /\ r.op = "sso" => r.then # "departed"

\* Whoever a purge did not see came after it looked.
Purging(q) == requests[q].op = "purging" =>
    /\ requests[q].row <= nextId
    /\ \A p \in People \ {requests[q].target} : In(p) => members[p].id >= requests[q].row

RequestsRecall == \A q \in Requests : Recalls(requests[q]) /\ Purging(q)

AccessInv == RequestsRecall /\ NoWorkStranded /\ DeletedAreOut

\* Person p becomes a member.
Enters(p) ==
    \/ \E q \in Requests : (Accept(q) \/ SignInWithSaml(q)) /\ requests[q].target = p
    \/ \E role \in ImportRoles : ImportPerson(p, role)

\* Requests that read, are answered or fail without having touched the members.
Aside(q) == \/ Invite(q) \/ Revoke(q) \/ Assign(q) \/ PurgeCheck(q) \/ LeaveBehind(q) \/ Failing(q)
AsksOf(q, a) ==
    \/ \E t \in People, role \in Roles : AskRole(q, a, t, role) \/ AskInvite(q, a, t, role)
    \/ \E t \in People, to \in People \cup {None} : AskRemove(q, a, t, to) \/ AskDeactivate(q, a, t, to)
    \/ \E t \in People : AskReactivate(q, a, t) \/ AskTransfer(q, a, t) \/ AskRevoke(q, a, t)
                          \/ AskAssign(q, a, t)
    \/ AskLeave(q, a) \/ AskAccept(q, a) \/ AskSso(q, a) \/ AskDrop(q, a) \/ AskDelete(q, a)

\* Whatever is asked for is put down as a request, and nothing else changes.
LEMMA AskedOnly ==
    ASSUME NEW q \in Requests, NEW a \in People, AsksOf(q, a)
    PROVE  \E r : Ask(q, r) /\ Recalls(r) /\ r.op # "purging"
<1>1. ASSUME NEW t \in People, NEW role \in Roles, AskRole(q, a, t, role) \/ AskInvite(q, a, t, role)
      PROVE  \E r : Ask(q, r) /\ Recalls(r) /\ r.op # "purging"
    <2>1. /\ AskRole(q, a, t, role) => Ask(q, [About("role", a, t) EXCEPT !.role = role])
          /\ AskInvite(q, a, t, role) =>
                Ask(q, [NoAsk EXCEPT !.op = "invite", !.by = a, !.target = t, !.role = role])
        BY DEF AskRole, AskInvite
    <2>2. /\ [About("role", a, t) EXCEPT !.role = role].op = "role"
          /\ [NoAsk EXCEPT !.op = "invite", !.by = a, !.target = t, !.role = role].op = "invite"
        BY DEF About, NoAsk
    <2>. QED
        BY <1>1, <2>1, <2>2 DEF Recalls
<1>2. ASSUME NEW t \in People, NEW to \in People \cup {None},
             AskRemove(q, a, t, to) \/ AskDeactivate(q, a, t, to)
      PROVE  \E r : Ask(q, r) /\ Recalls(r) /\ r.op # "purging"
    <2>1. PICK op \in {"end", "deactivate"} : Ask(q, [About(op, a, t) EXCEPT !.to = to])
        BY <1>2 DEF AskRemove, AskDeactivate
    <2>2. PICK r : r = [About(op, a, t) EXCEPT !.to = to]
        OBVIOUS
    <2>3. to # t
        BY <1>2, MembersAssumption DEF AskRemove, AskDeactivate, Recipients
    <2>4. r.op = op /\ r.to = to /\ r.target = t
        BY <2>2 DEF About
    <2>. QED
        BY <2>1, <2>2, <2>3, <2>4 DEF Recalls
<1>3. ASSUME NEW t \in People, AskReactivate(q, a, t) \/ AskTransfer(q, a, t)
      PROVE  \E r : Ask(q, r) /\ Recalls(r) /\ r.op # "purging"
    <2>1. PICK op \in {"reactivate", "transfer"} : Ask(q, About(op, a, t))
        BY <1>3 DEF AskReactivate, AskTransfer
    <2>2. About(op, a, t).op = op
        BY DEF About
    <2>. QED
        BY <2>1, <2>2 DEF Recalls
<1>4. ASSUME AskLeave(q, a)
      PROVE  \E r : Ask(q, r) /\ Recalls(r) /\ r.op # "purging"
    <2>1. About("end", a, a).op = "end" /\ About("end", a, a).to = None /\ About("end", a, a).target = a
        BY DEF About
    <2>. QED
        BY <1>4, <2>1, MembersAssumption DEF Recalls, AskLeave
<1>5. ASSUME NEW t \in People, AskRevoke(q, a, t) \/ AskAssign(q, a, t)
      PROVE  \E r : Ask(q, r) /\ Recalls(r) /\ r.op # "purging"
    <2>1. /\ AskRevoke(q, a, t) => Ask(q, [NoAsk EXCEPT !.op = "revoke", !.by = a, !.target = t])
          /\ AskAssign(q, a, t) => Ask(q, [NoAsk EXCEPT !.op = "assign", !.by = a, !.to = t])
        BY DEF AskRevoke, AskAssign
    <2>2. /\ [NoAsk EXCEPT !.op = "revoke", !.by = a, !.target = t].op = "revoke"
          /\ [NoAsk EXCEPT !.op = "assign", !.by = a, !.to = t].op = "assign"
        BY DEF NoAsk
    <2>. QED
        BY <1>5, <2>1, <2>2 DEF Recalls
<1>6. ASSUME AskAccept(q, a) \/ AskDrop(q, a)
      PROVE  \E r : Ask(q, r) /\ Recalls(r) /\ r.op # "purging"
    <2>1. PICK then, role :
            \/ Ask(q, [NoAsk EXCEPT !.op = "accept", !.by = a, !.target = a, !.role = role, !.then = then])
            \/ Ask(q, [NoAsk EXCEPT !.op = "drop", !.by = a])
        BY <1>6 DEF AskAccept, AskDrop
    <2>2. /\ [NoAsk EXCEPT !.op = "accept", !.by = a, !.target = a, !.role = role, !.then = then].op = "accept"
          /\ [NoAsk EXCEPT !.op = "drop", !.by = a].op = "drop"
        BY DEF NoAsk
    <2>. QED
        BY <2>1, <2>2 DEF Recalls
<1>7. ASSUME AskSso(q, a)
      PROVE  \E r : Ask(q, r) /\ Recalls(r) /\ r.op # "purging"
    <2>1. PICK r : Ask(q, r) /\ r = [NoAsk EXCEPT !.op = "sso", !.by = a, !.target = a, !.then = "idle"]
        BY <1>7 DEF AskSso, mayEnterBySso
    <2>2. r.op = "sso" /\ r.then = "idle"
        BY <2>1 DEF NoAsk
    <2>. QED
        BY <2>1, <2>2 DEF Recalls
<1>8. ASSUME AskDelete(q, a)
      PROVE  \E r : Ask(q, r) /\ Recalls(r) /\ r.op # "purging"
    <2>1. PICK op \in {"scrub", "purge", "leave"} : Ask(q, [NoAsk EXCEPT !.by = a, !.target = a, !.op = op])
        BY <1>8 DEF AskDelete
    <2>2. PICK r : r = [NoAsk EXCEPT !.by = a, !.target = a, !.op = op]
        OBVIOUS
    <2>3. r.op = op /\ r.to = None /\ r.target = a
        BY <2>2 DEF NoAsk
    <2>. QED
        BY <2>1, <2>2, <2>3, MembersAssumption DEF Recalls
<1>. QED
    BY <1>1, <1>2, <1>3, <1>4, <1>5, <1>6, <1>7, <1>8 DEF AsksOf

\* The steps there are.
LEMMA StepsThere ==
    ASSUME MembersNext
    PROVE  \/ \E q \in Requests, a \in People : AsksOf(q, a)
           \/ \E q \in Requests :
                \/ Aside(q) \/ ChangeRole(q) \/ EndMembership(q) \/ Deactivate(q) \/ Reactivate(q)
                \/ TransferOwnership(q) \/ Accept(q) \/ SignInWithSaml(q)
                \/ DeleteAsOwner(q) \/ PurgeWorkspace(q) \/ Scrub(q)
           \/ \E p \in People, role \in ImportRoles : ImportPerson(p, role)
BY Zenon DEF MembersNext, AsksOf, Aside

\* A row in the workspace was there, or is the new row of somebody who enters.
LEMMA Comings ==
    ASSUME MembersInv, MembersNext, NEW p \in People, In(p)'
    PROVE  \/ In(p) /\ members'[p].id = members[p].id
           \/ ~ In(p) /\ members'[p].id = nextId /\ nextId' = nextId + 1 /\ Enters(p)
<1>0. members \in [People -> Member \cup {None}] /\ None \notin Member
    BY MembersAssumption DEF MembersInv, MembersSound
<1>1. ASSUME members' = members PROVE In(p) /\ members'[p].id = members[p].id
    BY <1>1 DEF In
<1>2. ASSUME NEW q \in Requests, ChangeRole(q) \/ Deactivate(q) \/ Reactivate(q)
      PROVE  In(p) /\ members'[p].id = members[p].id
    <2>1. PICK t \in People : t = requests[q].target /\ members[t] \in Member
        BY <1>2, WhoIsThere DEF ChangeRole, Deactivate, Reactivate, TargetThere, There, Targeted
    <2>2. PICK x : \/ members' = [members EXCEPT ![t].role = x] \/ members' = [members EXCEPT ![t].active = x]
        BY <1>2, <2>1 DEF ChangeRole, Deactivate, Reactivate
    <2>3. members'[p] # None => members[p] # None /\ members'[p].id = members[p].id
        BY <1>0, <2>1, <2>2 DEF Member
    <2>. QED
        BY <2>3 DEF In
<1>3. ASSUME NEW q \in Requests, TransferOwnership(q) PROVE In(p) /\ members'[p].id = members[p].id
    <2>1. PICK t \in People, a \in People :
            /\ members[t] \in Member /\ members[a] \in Member
            /\ members' = [members EXCEPT ![a].role = formerOwner, ![t].role = "OWNER"]
        BY <1>3, WhoIsThere DEF TransferOwnership, TargetThere, There, Targeted
    <2>2. members'[p] # None => members[p] # None /\ members'[p].id = members[p].id
        BY <1>0, <2>1 DEF Member
    <2>. QED
        BY <2>2 DEF In
<1>4. ASSUME NEW q \in Requests, EndMembership(q) \/ Scrub(q) PROVE In(p) /\ members'[p].id = members[p].id
    <2>1. members'[p] \in {members[p], None}
        BY <1>0, <1>4 DEF EndMembership, Scrub, scrubbed
    <2>. QED
        BY <2>1 DEF In
<1>5. ASSUME NEW q \in Requests, DeleteAsOwner(q) \/ PurgeWorkspace(q) PROVE FALSE
    BY <1>5 DEF DeleteAsOwner, PurgeWorkspace, Cascade, In
<1>6. ASSUME NEW t \in People, NEW role, ~ In(t), Join(t, role), t = p => Enters(p)
      PROVE  \/ In(p) /\ members'[p].id = members[p].id
             \/ ~ In(p) /\ members'[p].id = nextId /\ nextId' = nextId + 1 /\ Enters(p)
    <2>1. CASE t = p
        BY <1>0, <1>6, <2>1 DEF Join
    <2>2. CASE t # p
        BY <1>0, <1>6, <2>2 DEF Join, In
    <2>. QED
        BY <2>1, <2>2
<1>7. ASSUME NEW q \in Requests, Accept(q) \/ SignInWithSaml(q)
      PROVE  \/ In(p) /\ members'[p].id = members[p].id
             \/ ~ In(p) /\ members'[p].id = nextId /\ nextId' = nextId + 1 /\ Enters(p)
    <2>1. PICK t \in People : t = requests[q].target
        BY <1>7, WhoIsThere DEF Accept, SignInWithSaml, Targeted
    <2>2. t = p => Enters(p)
        BY <1>7, <2>1 DEF Enters
    <2>3. members' = members \/ (~ In(t) /\ \E role : Join(t, role))
        BY <1>7, <2>1 DEF Accept, SignInWithSaml
    <2>. QED
        BY <1>1, <1>6, <2>2, <2>3
<1>8. ASSUME NEW t \in People, NEW role \in ImportRoles, ImportPerson(t, role)
      PROVE  \/ In(p) /\ members'[p].id = members[p].id
             \/ ~ In(p) /\ members'[p].id = nextId /\ nextId' = nextId + 1 /\ Enters(p)
    BY <1>6, <1>8 DEF ImportPerson, Enters
<1>9. ASSUME NEW q \in Requests, NEW a \in People, AsksOf(q, a) PROVE members' = members
    BY <1>9, AskedOnly DEF Ask
<1>10. ASSUME NEW q \in Requests, Aside(q) PROVE members' = members
    BY <1>10 DEF Aside, Invite, Revoke, Assign, PurgeCheck, LeaveBehind, Failing, Fail
<1>. QED
    BY <1>1, <1>2, <1>3, <1>4, <1>5, <1>7, <1>8, <1>9, <1>10, StepsThere

\* Whose account was deleted stays out: only a request answered after the deletion
\* lets them in, and a scrub leaves only owners.
LEMMA DeletedStep ==
    ASSUME MembersInv, DeletedAreOut, MembersNext
    PROVE  DeletedAreOut'
<1>0. members \in [People -> Member \cup {None}]
    BY DEF MembersInv, MembersSound
<1>. SUFFICES ASSUME "account" \notin overlaps', NEW p \in People, p \notin accounts', In(p)'
              PROVE  FALSE
    BY DEF DeletedAreOut
<1>1. overlaps \subseteq overlaps' /\ (accounts' = accounts \/ \E q \in Requests : Scrub(q))
    <2>1. ASSUME NEW q \in Requests, NEW a \in People, AsksOf(q, a)
          PROVE  overlaps \subseteq overlaps' /\ accounts' = accounts
        BY <2>1, AskedOnly DEF Ask
    <2>2. ASSUME NEW q \in Requests,
                 \/ Aside(q) \/ ChangeRole(q) \/ EndMembership(q) \/ Deactivate(q) \/ Reactivate(q)
          PROVE  overlaps \subseteq overlaps' /\ accounts' = accounts
        BY <2>2 DEF Aside, Invite, Revoke, Assign, PurgeCheck, LeaveBehind, Failing, Fail,
                    ChangeRole, EndMembership, Deactivate, Reactivate, Overlap
    <2>3. ASSUME NEW q \in Requests,
                 \/ TransferOwnership(q) \/ Accept(q) \/ SignInWithSaml(q)
                 \/ DeleteAsOwner(q) \/ PurgeWorkspace(q)
          PROVE  overlaps \subseteq overlaps' /\ accounts' = accounts
        BY <2>3 DEF TransferOwnership, Accept, SignInWithSaml, DeleteAsOwner, PurgeWorkspace, Overlap
    <2>4. ASSUME NEW q \in Requests, Scrub(q) PROVE overlaps \subseteq overlaps'
        BY <2>4 DEF Scrub, Overlap
    <2>5. ASSUME NEW t \in People, NEW role \in ImportRoles, ImportPerson(t, role)
          PROVE  overlaps \subseteq overlaps' /\ accounts' = accounts
        BY <2>5 DEF ImportPerson
    <2>. QED
        BY <2>1, <2>2, <2>3, <2>4, <2>5, StepsThere
<1>2. CASE p \in accounts
    <2>1. PICK q \in Requests : Scrub(q)
        BY <1>1, <1>2
    <2>2. PICK t : t = requests[q].target
        OBVIOUS
    <2>3. p = t /\ ~ (In(t) /\ members[t].role = "OWNER") /\ members' = scrubbed(t)
        BY <1>2, <2>1, <2>2 DEF Scrub, Overlap
    <2>4. members'[p] = None
        BY <1>0, <2>3 DEF scrubbed, In
    <2>. QED
        BY <2>4 DEF In
<1>3. CASE p \notin accounts
    <2>1. ~ In(p)
        BY <1>1, <1>3 DEF DeletedAreOut
    <2>2. Enters(p)
        BY <2>1, Comings
    <2>3. ASSUME NEW q \in Requests, Accept(q) \/ SignInWithSaml(q), requests[q].target = p
          PROVE  FALSE
        BY <1>3, <2>3 DEF Accept, SignInWithSaml, Overlap
    <2>4. ASSUME NEW role \in ImportRoles, ImportPerson(p, role) PROVE FALSE
        BY <1>3, <2>4 DEF ImportPerson
    <2>. QED
        BY <2>2, <2>3, <2>4 DEF Enters
<1>. QED
    BY <1>2, <1>3

\* Who holds the work keeps it and can still get in.
LEMMA WorkKept ==
    ASSUME NoWorkStranded, RestSound, overlaps \subseteq overlaps', assignee' = assignee,
           \A p \in People : Active(p) /\ p = assignee => Active(p)'
    PROVE  NoWorkStranded'
BY DEF NoWorkStranded, RestSound

LEMMA WorkStep ==
    ASSUME MembersInv, RequestsRecall, NoWorkStranded, MembersNext
    PROVE  NoWorkStranded'
<1>0. members \in [People -> Member \cup {None}] /\ None \notin Member /\ RestSound
    BY MembersAssumption DEF MembersInv, MembersSound
<1>1. ASSUME UNCHANGED <<members, assignee, overlaps>> PROVE NoWorkStranded'
    BY <1>0, <1>1, WorkKept DEF Active, In
<1>2. ASSUME NEW q \in Requests, ChangeRole(q) \/ Reactivate(q) PROVE NoWorkStranded'
    <2>1. PICK t \in People, role \in Roles : t = requests[q].target /\ members[t] \in Member
                                                  /\ (ChangeRole(q) => role = requests[q].role)
        BY <1>2, WhoIsThere, MembersAssumption
           DEF ChangeRole, Reactivate, TargetThere, There, Targeted, GivesRole, Lesser
    <2>2. \/ members' = [members EXCEPT ![t].role = role] \/ members' = [members EXCEPT ![t].active = TRUE]
        BY <1>2, <2>1 DEF ChangeRole, Reactivate
    <2>3. /\ [members[t] EXCEPT !.role = role] \in Member /\ [members[t] EXCEPT !.active = TRUE] \in Member
          /\ [members[t] EXCEPT !.role = role].active = members[t].active
          /\ [members[t] EXCEPT !.active = TRUE].active
        BY <2>1 DEF Member
    <2>4. \A p \in People : Active(p) => Active(p)'
        BY <1>0, <2>1, <2>2, <2>3 DEF Active, In
    <2>5. assignee' = assignee /\ overlaps \subseteq overlaps'
        BY <1>2 DEF ChangeRole, Reactivate, Overlap
    <2>. QED
        BY <1>0, <2>4, <2>5, WorkKept
<1>3. ASSUME NEW q \in Requests, TransferOwnership(q) PROVE NoWorkStranded'
    <2>1. PICK t \in People, a \in People :
            /\ members[t] \in Member /\ members[a] \in Member
            /\ members' = [members EXCEPT ![a].role = formerOwner, ![t].role = "OWNER"]
        BY <1>3, WhoIsThere DEF TransferOwnership, TargetThere, There, Targeted
    <2>2. PICK between : between = [members EXCEPT ![a].role = formerOwner]
        OBVIOUS
    <2>3. \A p \in People : Active(p) => Active(p)'
        <3>1. /\ [members[a] EXCEPT !.role = formerOwner] \in Member
              /\ [members[a] EXCEPT !.role = formerOwner].active = members[a].active
            BY <2>1, MembersAssumption DEF Member, formerOwner
        <3>2. /\ between \in [People -> Member \cup {None}] /\ between[t] \in Member
              /\ \A p \in People : between[p] # None /\ between[p].active <=> Active(p)
            BY <1>0, <2>1, <2>2, <3>1 DEF Active, In
        <3>3. /\ [between[t] EXCEPT !.role = "OWNER"] \in Member
              /\ [between[t] EXCEPT !.role = "OWNER"].active = between[t].active
            BY <3>2, MembersAssumption DEF Member
        <3>4. members' = [between EXCEPT ![t].role = "OWNER"]
            BY <2>1, <2>2
        <3>. QED
            BY <1>0, <3>2, <3>3, <3>4 DEF Active, In
    <2>4. assignee' = assignee /\ overlaps \subseteq overlaps'
        BY <1>3 DEF TransferOwnership, Overlap
    <2>. QED
        BY <1>0, <2>3, <2>4, WorkKept
<1>4. ASSUME NEW t \in People, NEW role, ~ In(t), Join(t, role), assignee' = assignee,
             overlaps \subseteq overlaps'
      PROVE  NoWorkStranded'
    <2>1. \A p \in People : Active(p) => Active(p)'
        BY <1>0, <1>4 DEF Active, In, Join
    <2>. QED
        BY <1>0, <1>4, <2>1, WorkKept
<1>5. ASSUME NEW q \in Requests, Accept(q) \/ SignInWithSaml(q) PROVE NoWorkStranded'
    <2>1. PICK t \in People : t = requests[q].target
        BY <1>5, WhoIsThere DEF Accept, SignInWithSaml, Targeted
    <2>2. assignee' = assignee /\ overlaps \subseteq overlaps'
        BY <1>5 DEF Accept, SignInWithSaml, Overlap
    <2>3. members' = members \/ (~ In(t) /\ \E role : Join(t, role))
        BY <1>5, <2>1 DEF Accept, SignInWithSaml
    <2>4. CASE members' = members
        BY <1>0, <2>2, <2>4, WorkKept DEF Active, In
    <2>. QED
        BY <1>4, <2>2, <2>3, <2>4
<1>6. ASSUME NEW p \in People, NEW role \in ImportRoles, ImportPerson(p, role) PROVE NoWorkStranded'
    BY <1>4, <1>6 DEF ImportPerson
<1>7. ASSUME NEW q \in Requests, EndMembership(q) \/ Deactivate(q), "work" \notin overlaps'
      PROVE  assignee' # None => Active(assignee)'
    <2>1. PICK t \in People, to \in People \cup {None} :
            /\ t = requests[q].target /\ to = requests[q].to /\ members[t] \in Member
        BY <1>7, WhoIsThere DEF EndMembership, Deactivate, TargetThere, There, Targeted
    <2>2. to # t
        BY <1>7, <2>1 DEF EndMembership, Deactivate, RequestsRecall, Recalls
    <2>3. assignee' \in handOver(t, to) /\ "work" \notin overlaps /\ ~ Mislaid(assignee')
        BY <1>7, <2>1 DEF EndMembership, Deactivate, Overlap
    <2>4. assignee' # None => assignee' # t /\ Active(assignee')
        BY <2>2, <2>3 DEF handOver, Mislaid
    <2>5. \A p \in People \ {t} : members'[p] = members[p]
        BY <1>0, <1>7, <2>1 DEF EndMembership, Deactivate
    <2>6. assignee' \in People \cup {None}
        BY <1>0, <2>1, <2>3 DEF RestSound, handOver
    <2>. QED
        BY <2>4, <2>5, <2>6 DEF Active, In
<1>8. ASSUME NEW q \in Requests, Assign(q) PROVE NoWorkStranded'
    <2>1. members' = members /\ assignee' = requests[q].to
          /\ ("work" \notin overlaps' => ~ Mislaid(assignee'))
        BY <1>8 DEF Assign, Overlap
    <2>. QED
        BY <2>1 DEF NoWorkStranded, Mislaid, Active, In
<1>9. ASSUME NEW q \in Requests, DeleteAsOwner(q) \/ PurgeWorkspace(q) PROVE NoWorkStranded'
    BY <1>9 DEF DeleteAsOwner, PurgeWorkspace, Cascade, NoWorkStranded
<1>10. ASSUME NEW q \in Requests, Scrub(q) PROVE NoWorkStranded'
    <2>1. PICK t : t = requests[q].target /\ members' = scrubbed(t) /\ assignee' = assignee
                   /\ overlaps \subseteq overlaps' /\ ("work" \notin overlaps' => ~ (In(t) /\ assignee = t))
        BY <1>10 DEF Scrub, Overlap
    <2>2. \A p \in People \ {t} : members'[p] = members[p]
        BY <1>0, <2>1 DEF scrubbed
    <2>3. ASSUME "work" \notin overlaps', assignee # None PROVE Active(assignee)'
        <3>1. Active(assignee) /\ assignee \in People
            BY <1>0, <2>1, <2>3 DEF NoWorkStranded, RestSound
        <3>2. assignee # t
            BY <2>1, <2>3, <3>1 DEF Active
        <3>. QED
            BY <2>1, <2>2, <3>1, <3>2 DEF Active, In
    <2>. QED
        BY <2>1, <2>3 DEF NoWorkStranded
<1>11. ASSUME NEW q \in Requests, NEW a \in People, AsksOf(q, a) PROVE NoWorkStranded'
    BY <1>1, <1>11, AskedOnly DEF Ask
<1>12. ASSUME NEW q \in Requests, Aside(q) PROVE NoWorkStranded'
    BY <1>1, <1>8, <1>12 DEF Aside, Invite, Revoke, PurgeCheck, LeaveBehind, Failing, Fail
<1>13. ASSUME NEW q \in Requests, EndMembership(q) \/ Deactivate(q) PROVE NoWorkStranded'
    BY <1>7, <1>13 DEF NoWorkStranded
<1>. QED
    BY <1>2, <1>3, <1>5, <1>6, <1>9, <1>10, <1>11, <1>12, <1>13, StepsThere

\* A request remembers what it was made with, and a purge where it looked from.
LEMMA RecallStep ==
    ASSUME MembersInv, RequestsRecall, MembersNext
    PROVE  RequestsRecall'
<1>0. nextId \in Nat /\ Recalls(NoAsk) /\ NoAsk.op # "purging"
    BY DEF MembersInv, MembersSound, Recalls, NoAsk
<1>1. nextId <= nextId' /\ nextId' \in Nat
      /\ \A p \in People : In(p)' => \/ In(p) /\ members'[p].id = members[p].id
                                     \/ members'[p].id = nextId
    <2>1. nextId' = nextId \/ nextId' = nextId + 1
        <3>1. ASSUME NEW q \in Requests, NEW a \in People, AsksOf(q, a) PROVE nextId' = nextId
            BY <3>1, AskedOnly DEF Ask
        <3>2. ASSUME NEW q \in Requests,
                     \/ Aside(q) \/ ChangeRole(q) \/ EndMembership(q) \/ Deactivate(q) \/ Reactivate(q)
                     \/ TransferOwnership(q) \/ DeleteAsOwner(q) \/ PurgeWorkspace(q) \/ Scrub(q)
              PROVE  nextId' = nextId
            BY <3>2 DEF Aside, Invite, Revoke, Assign, PurgeCheck, LeaveBehind, Failing, Fail,
                        ChangeRole, EndMembership, Deactivate, Reactivate, TransferOwnership,
                        DeleteAsOwner, PurgeWorkspace, Scrub
        <3>3. ASSUME NEW q \in Requests, Accept(q) \/ SignInWithSaml(q)
              PROVE  nextId' = nextId \/ nextId' = nextId + 1
            BY <3>3 DEF Accept, SignInWithSaml, Join
        <3>4. ASSUME NEW t \in People, NEW role \in ImportRoles, ImportPerson(t, role)
              PROVE  nextId' = nextId + 1
            BY <3>4 DEF ImportPerson, Join
        <3>. QED
            BY <3>1, <3>2, <3>3, <3>4, StepsThere
    <2>. QED
        BY <1>0, <2>1, Comings
<1>2. ASSUME NEW q \in Requests, requests'[q] = requests[q] PROVE Recalls(requests[q])' /\ Purging(q)'
    <2>1. \A p \in People : In(p) => members[p].id \in Nat
        BY DEF MembersInv, MembersSound, Member, In
    <2>2. requests[q].row \in Nat
        BY DEF MembersInv, RequestsSound, Sound, Request
    <2>3. Recalls(requests[q])'
        BY <1>2 DEF RequestsRecall, Recalls
    <2>4. ASSUME requests[q].op = "purging", NEW p \in People \ {requests[q].target}, In(p)'
          PROVE  members'[p].id >= requests[q].row
        <3>1. CASE In(p) /\ members'[p].id = members[p].id
            BY <2>4, <3>1 DEF RequestsRecall, Purging
        <3>2. CASE members'[p].id = nextId
            BY <1>0, <2>2, <2>4, <3>2 DEF RequestsRecall, Purging
        <3>. QED
            BY <1>1, <2>4, <3>1, <3>2
    <2>5. requests[q].op = "purging" => requests[q].row <= nextId'
        BY <1>0, <1>1, <2>2 DEF RequestsRecall, Purging
    <2>. QED
        BY <1>2, <2>3, <2>4, <2>5 DEF Purging
<1>3. ASSUME NEW q \in Requests, NEW r, Recalls(r), r.op # "purging",
             requests' = [requests EXCEPT ![q] = r]
      PROVE  RequestsRecall'
    <2>1. ASSUME NEW j \in Requests PROVE Recalls(requests[j])' /\ Purging(j)'
        <3>1. CASE j # q
            BY <1>2, <1>3, <3>1 DEF MembersInv, RequestsSound
        <3>2. CASE j = q
            BY <1>3, <3>2 DEF MembersInv, RequestsSound, Recalls, Purging
        <3>. QED
            BY <3>1, <3>2
    <2>. QED
        BY <2>1 DEF RequestsRecall
<1>4. ASSUME requests' = requests PROVE RequestsRecall'
    BY <1>2, <1>4 DEF RequestsRecall
<1>5. ASSUME NEW q \in Requests, Answered(q) PROVE RequestsRecall'
    BY <1>0, <1>3, <1>5 DEF Answered
<1>6. ASSUME NEW q \in Requests, Goes(q, "scrub") PROVE RequestsRecall'
    <2>1. PICK r : r = [requests[q] EXCEPT !.op = "scrub"]
        OBVIOUS
    <2>2. r.op = "scrub"
        BY <2>1 DEF MembersInv, RequestsSound, Sound, Request
    <2>. QED
        BY <1>3, <1>6, <2>1, <2>2 DEF Goes, Recalls
<1>7. ASSUME NEW q \in Requests, NEW a \in People, AsksOf(q, a) PROVE RequestsRecall'
    BY <1>3, <1>7, AskedOnly DEF Ask
<1>8. ASSUME NEW q \in Requests, PurgeCheck(q) PROVE RequestsRecall'
    <2>1. CASE ~ aloneAs(q)
        BY <1>0, <1>3, <1>8, <2>1 DEF PurgeCheck
    <2>2. CASE aloneAs(q)
        <3>1. PICK r : r = [requests[q] EXCEPT !.op = "purging", !.row = nextId]
            OBVIOUS
        <3>2. requests' = [requests EXCEPT ![q] = r] /\ members' = members /\ nextId' = nextId
            BY <1>8, <2>2, <3>1 DEF PurgeCheck
        <3>3. r.op = "purging" /\ r.row = nextId /\ r.target = requests[q].target
            BY <3>1 DEF MembersInv, RequestsSound, Sound, Request
        <3>4. requests'[q] = r /\ \A j \in Requests \ {q} : requests'[j] = requests[j]
            BY <3>2 DEF MembersInv, RequestsSound
        <3>5. Recalls(requests[q])' /\ Purging(q)'
            BY <1>0, <2>2, <3>2, <3>3, <3>4 DEF Recalls, Purging, aloneAs, In
        <3>. QED
            BY <1>2, <3>4, <3>5 DEF RequestsRecall
    <2>. QED
        BY <2>1, <2>2
<1>9. ASSUME NEW q \in Requests, LeaveBehind(q) PROVE RequestsRecall'
    <2>1. PICK row : \/ requests' = [requests EXCEPT ![q].op = "scrub"]
                     \/ requests' = [requests EXCEPT ![q] = NoAsk]
                     \/ requests' = [requests EXCEPT ![q].op = "end", ![q].row = row, ![q].then = "scrub"]
        BY <1>9 DEF LeaveBehind
    <2>2. CASE requests' = [requests EXCEPT ![q].op = "end", ![q].row = row, ![q].then = "scrub"]
        <3>1. PICK r : r = [requests[q] EXCEPT !.op = "end", !.row = row, !.then = "scrub"]
            OBVIOUS
        <3>2. r.op = "end" /\ r.to = requests[q].to /\ r.target = requests[q].target
            BY <3>1 DEF MembersInv, RequestsSound, Sound, Request
        <3>3. requests[q].to # requests[q].target
            BY <1>9 DEF LeaveBehind, RequestsRecall, Recalls
        <3>4. requests' = [requests EXCEPT ![q] = r]
            BY <2>2, <3>1
        <3>. QED
            BY <1>3, <3>2, <3>3, <3>4 DEF Recalls
    <2>. QED
        BY <1>5, <1>6, <2>1, <2>2 DEF Answered, Goes
<1>10. ASSUME NEW q \in Requests, Aside(q) PROVE RequestsRecall'
    BY <1>5, <1>8, <1>9, <1>10 DEF Aside, Invite, Revoke, Assign, Failing, Fail
<1>11. ASSUME NEW q \in Requests,
              \/ ChangeRole(q) \/ EndMembership(q) \/ Deactivate(q) \/ Reactivate(q)
              \/ TransferOwnership(q) \/ Accept(q) \/ SignInWithSaml(q)
              \/ DeleteAsOwner(q) \/ PurgeWorkspace(q) \/ Scrub(q)
       PROVE  RequestsRecall'
    <2>1. Answered(q) \/ Goes(q, "scrub")
        BY <1>11 DEF ChangeRole, EndMembership, Deactivate, Reactivate, TransferOwnership, Accept,
                     SignInWithSaml, DeleteAsOwner, PurgeWorkspace, Scrub
    <2>. QED
        BY <1>5, <1>6, <2>1
<1>12. ASSUME NEW p \in People, NEW role \in ImportRoles, ImportPerson(p, role) PROVE RequestsRecall'
    BY <1>4, <1>12 DEF ImportPerson
<1>. QED
    BY <1>7, <1>10, <1>11, <1>12, StepsThere

LEMMA AccessStep == MembersInv /\ AccessInv /\ [MembersNext]_mvars => AccessInv'
<1>. SUFFICES ASSUME MembersInv, AccessInv, [MembersNext]_mvars PROVE AccessInv'
    OBVIOUS
<1>1. CASE MembersNext
    BY <1>1, RecallStep, WorkStep, DeletedStep DEF AccessInv
<1>2. CASE UNCHANGED mvars
    <2>1. RequestsRecall'
        BY <1>2 DEF mvars, AccessInv, RequestsRecall, Recalls, Purging, In
    <2>2. NoWorkStranded' /\ DeletedAreOut'
        BY <1>2 DEF mvars, AccessInv, NoWorkStranded, DeletedAreOut, Active, In
    <2>. QED
        BY <2>1, <2>2 DEF AccessInv
<1>. QED
    BY <1>1, <1>2

LEMMA AccessInit == MembersInit => AccessInv
<1>. SUFFICES ASSUME MembersInit PROVE AccessInv
    OBVIOUS
<1>1. RequestsRecall
    BY DEF MembersInit, NoAsk, RequestsRecall, Recalls, Purging
<1>2. NoWorkStranded
    <2>1. PICK role \in [People -> Roles \cup {None}] :
            members = [p \in People |->
                IF role[p] = None THEN None ELSE [id |-> 0, role |-> role[p], active |-> TRUE]]
        BY DEF MembersInit
    <2>2. \A p \in People : members[p] # None => members[p].active
        BY <2>1
    <2>. QED
        BY <2>2 DEF MembersInit, NoWorkStranded, Active, In
<1>3. DeletedAreOut
    BY DEF MembersInit, DeletedAreOut
<1>. QED
    BY <1>1, <1>2, <1>3 DEF AccessInv

LEMMA MembersInvariant == MembersSpec => [](MembersInv /\ AccessInv)
<1>1. MembersInit => MembersInv /\ AccessInv
    BY MembersInitInv, AccessInit
<1>2. MembersInv /\ AccessInv /\ [MembersNext]_mvars => (MembersInv /\ AccessInv)'
    BY MembersNextKeepsInv, AccessStep
<1>. QED
    BY <1>1, <1>2, PTL DEF MembersSpec

\* Open work waits on nobody who cannot get in, whoever leaves, is put out,
\* deactivated, deleted or let in meanwhile, unless its new holder lost access
\* between the check and the write.
THEOREM WorkIsReachable == MembersSpec => []NoWorkStranded
<1>1. AccessInv => NoWorkStranded
    BY DEF AccessInv
<1>. QED
    BY <1>1, MembersInvariant, PTL

\* No deleted account is in a workspace, unless a request answered after the
\* deletion let it in, or it was made owner while it was being deleted.
THEOREM DeletedStayOut == MembersSpec => []DeletedAreOut
<1>1. AccessInv => DeletedAreOut
    BY DEF AccessInv
<1>. QED
    BY <1>1, MembersInvariant, PTL

\* Somebody who left comes back only by an offer that stood and is spent by it, by
\* the import, or by an answer that overtook the departure.
THEOREM OnlyInvitedReturn == MembersSpec => ReturnsInvited
<1>. DEFINE Invited == \A p \in People : Returns(p) =>
                        \/ Usable(p) /\ offers'[p].state = "spent"
                        \/ imports' # imports
                        \/ "return" \in overlaps'
<1>1. MembersInv /\ AccessInv /\ [MembersNext]_mvars => [Invited]_mvars
    <2>. SUFFICES ASSUME MembersInv, AccessInv, MembersNext, NEW p \in People, Returns(p),
                         imports' = imports, "return" \notin overlaps'
                  PROVE  Usable(p) /\ offers'[p].state = "spent"
        OBVIOUS
    <2>1. Enters(p) /\ p \in departed
        BY Comings DEF Returns, In
    <2>2. ASSUME NEW q \in Requests, Accept(q), requests[q].target = p
          PROVE  Usable(p) /\ offers'[p].state = "spent"
        <3>1. Usable(p)
            BY <2>2 DEF Accept, Overlap
        <3>2. offers[p] \in Offer
            BY <3>1 DEF Usable, MembersInv, OffersSound
        <3>3. offers' = [offers EXCEPT ![p].state = "spent"]
            BY <2>2 DEF Accept
        <3>. QED
            BY <3>1, <3>2, <3>3 DEF Offer, MembersInv, OffersSound
    <2>3. ASSUME NEW q \in Requests, SignInWithSaml(q), requests[q].target = p PROVE FALSE
        <3>1. requests[q].then # "departed"
            BY <2>3 DEF SignInWithSaml, AccessInv, RequestsRecall, Recalls
        <3>. QED
            BY <2>1, <2>3, <3>1 DEF SignInWithSaml, Overlap
    <2>4. ASSUME NEW role \in ImportRoles, ImportPerson(p, role) PROVE FALSE
        BY <2>4 DEF ImportPerson, MembersInv, RestSound
    <2>. QED
        BY <2>1, <2>2, <2>3, <2>4 DEF Enters
<1>. HIDE DEF Invited
<1>2. MembersSpec => [][Invited]_mvars
    BY <1>1, MembersInvariant, PTL DEF MembersSpec
<1>. QED
    BY <1>2 DEF ReturnsInvited, Invited

\* A workspace is taken by its owner, or with an account whose deletion, when it
\* looked, found nobody else in it.
THEOREM NobodyIsEvicted == MembersSpec => NobodyEvicted
<1>. DEFINE Vacated == open /\ ~ open' => \E q \in Requests :
                        \/ requests[q].op = "drop" /\ requests'[q] = NoAsk
                        \/ /\ requests[q].op = "purging" /\ requests'[q].op = "scrub"
                           /\ \A p \in People \ {requests[q].target} :
                                In(p) => members[p].id >= requests[q].row
<1>1. MembersInv /\ AccessInv /\ [MembersNext]_mvars => [Vacated]_mvars
    <2>. SUFFICES ASSUME MembersInv, AccessInv, MembersNext, open, ~ open'
                  PROVE  Vacated
        OBVIOUS
    <2>1. PICK q \in Requests : DeleteAsOwner(q) \/ PurgeWorkspace(q)
        <3>1. ASSUME NEW q \in Requests, NEW a \in People, AsksOf(q, a) PROVE FALSE
            BY <3>1, AskedOnly DEF Ask
        <3>2. ASSUME NEW q \in Requests,
                     \/ Aside(q) \/ ChangeRole(q) \/ EndMembership(q) \/ Deactivate(q) \/ Reactivate(q)
                     \/ TransferOwnership(q) \/ Accept(q) \/ SignInWithSaml(q) \/ Scrub(q)
              PROVE  FALSE
            BY <3>2 DEF Aside, Invite, Revoke, Assign, PurgeCheck, LeaveBehind, Failing, Fail,
                        ChangeRole, EndMembership, Deactivate, Reactivate, TransferOwnership,
                        Accept, SignInWithSaml, Scrub
        <3>3. ASSUME NEW t \in People, NEW role \in ImportRoles, ImportPerson(t, role) PROVE FALSE
            BY <3>3 DEF ImportPerson
        <3>. QED
            BY <3>1, <3>2, <3>3, StepsThere
    <2>2. requests = [j \in Requests |-> requests[j]] /\ requests[q] \in Request
        BY DEF MembersInv, RequestsSound, Sound
    <2>3. CASE DeleteAsOwner(q)
        <3>1. requests[q].op = "drop" /\ requests'[q] = NoAsk
            BY <2>2, <2>3 DEF DeleteAsOwner, Answered
        <3>. QED
            BY <3>1
    <2>4. CASE PurgeWorkspace(q)
        <3>1. requests[q].op = "purging" /\ requests'[q].op = "scrub"
            BY <2>2, <2>4 DEF PurgeWorkspace, Goes, Request
        <3>2. \A p \in People \ {requests[q].target} : In(p) => members[p].id >= requests[q].row
            BY <3>1 DEF AccessInv, RequestsRecall, Purging
        <3>. QED
            BY <3>1, <3>2
    <2>. QED
        BY <2>1, <2>3, <2>4
<1>. HIDE DEF Vacated
<1>2. MembersSpec => [][Vacated]_mvars
    BY <1>1, MembersInvariant, PTL DEF MembersSpec
<1>. QED
    BY <1>2 DEF NobodyEvicted, Vacated
=============================================================================
