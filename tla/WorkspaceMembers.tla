-------------------------- MODULE WorkspaceMembers --------------------------
(***************************************************************************)
(* Who is in a workspace: roles, ownership, invitations, single sign-on,   *)
(* the nightly import, people who leave or are put out, accounts and       *)
(* workspaces that are deleted.                                            *)
(*                                                                         *)
(* A request reads and checks, then writes in one transaction; requests    *)
(* run side by side on any number of API processes, and nothing is locked  *)
(* in between.  A request that dies is one whose next step never comes.    *)
(*                                                                         *)
(* One workspace and one open task in it.  Projects, teams and followers   *)
(* go with the membership in the same transaction and are left out; so are *)
(* service accounts, expiry of offers and what is told to whom.            *)
(***************************************************************************)
EXTENDS Integers, FiniteSets

CONSTANTS
    People, Founder,    \* Founder owns the workspace at first
    Roles,              \* the roles in use, of those Rank orders
    Verified,           \* people whose address is in a domain the workspace verified
    ImportRoles,        \* the roles Asana's membership list can ask for
    Requests,
    MaxAsks,            \* bound: how many requests are made
    None

Rank(role) == CASE role = "OWNER" -> 50 [] role = "SUPER_ADMIN" -> 45 [] role = "ADMIN" -> 40
                [] role = "MANAGER" -> 30 [] role = "MEMBER" -> 20 [] OTHER -> 10

Member == [id : Nat, role : Roles, active : BOOLEAN]
Offer == [role : Roles, state : {"open", "spent", "revoked"}]

ASSUME MembersAssumption ==
    /\ Founder \in People /\ Verified \subseteq People
    /\ {"OWNER", "SUPER_ADMIN", "MEMBER"} \subseteq Roles
    /\ ImportRoles \subseteq Roles \ {"OWNER"}
    /\ MaxAsks \in Nat
    /\ None \notin People \cup Roles /\ None \notin Member /\ None \notin Offer

VARIABLES
    open,       \* the workspace exists
    accounts,   \* User: people whose account is not deleted
    members,    \* WorkspaceMember rows by person; id tells a new row from an old one
    departed,   \* WorkspaceDeparture rows
    offers,     \* WorkspaceInvitation rows by address
    assignee,   \* of the open task
    requests,   \* requests between their read and their write
    nextId, asks, imports,  \* fresh ids; counted against the bound
    overlaps    \* observation: what a write did after what it had read changed

mvars == <<open, accounts, members, departed, offers, assignee, requests, nextId, asks,
           imports, overlaps>>

\* `then` is where a request goes next, or what else it read.
NoAsk == [op |-> "idle", by |-> None, byRow |-> 0, target |-> None, row |-> 0, role |-> None,
          to |-> None, then |-> "idle"]

MembersInit ==
    /\ open = TRUE /\ accounts = People
    \* Anybody else may be in by now, be invited, or have left.
    /\ \E role \in [People -> Roles \cup {None}] :
        /\ \A p \in People : role[p] = "OWNER" <=> p = Founder
        /\ members = [p \in People |->
                IF role[p] = None THEN None ELSE [id |-> 0, role |-> role[p], active |-> TRUE]]
    /\ departed \in SUBSET {p \in People : members[p] = None}
    /\ \E invited \in SUBSET {p \in People : members[p] = None} :
        offers = [p \in People |->
                    IF p \in invited THEN [role |-> "MEMBER", state |-> "open"] ELSE None]
    /\ assignee \in {p \in People : members[p] # None}
    /\ requests = [q \in Requests |-> NoAsk]
    /\ nextId = 1 /\ asks = 0 /\ imports = 0
    /\ overlaps = {}

-----------------------------------------------------------------------------
(* What is checked.                                                        *)

In(p) == members[p] # None
Active(p) == In(p) /\ members[p].active
requireRole(p, minimum) == Active(p) /\ Rank(members[p].role) >= Rank(minimum)
canManageMember(actor, target) == Rank(actor) > Rank(target)
canGrantRoleAny(actor, role) == Rank(actor) >= Rank(role)   \* mutant: ownership is granted
canGrantRole(actor, role) == role # "OWNER" /\ Rank(actor) >= Rank(role)
Usable(p) == offers[p] # None /\ offers[p].state = "open"
mayEnterBySsoAgain(p) == p \in Verified    \* mutant: departures are not looked up
mayEnterBySso(p) == p \in Verified /\ p \notin departed

Ask(q, request) ==
    /\ asks < MaxAsks /\ open /\ requests[q] = NoAsk /\ request.by \in accounts
    /\ requests' = [requests EXCEPT ![q] = request]
    /\ asks' = asks + 1
    /\ UNCHANGED <<open, accounts, members, departed, offers, assignee, nextId, imports, overlaps>>

\* A request by a about the membership of t, as both rows are read.
About(op, a, t) ==
    [op |-> op, by |-> a, byRow |-> IF In(a) THEN members[a].id ELSE 0, target |-> t,
     row |-> members[t].id, role |-> None, to |-> None, then |-> "idle"]

\* Who may take over the work of t; nobody, if nobody was named.
Recipients(t) == {None} \cup {p \in People \ {t} : Active(p)}

AskRole(q, a, t, role) ==
    /\ requireRole(a, "ADMIN") /\ In(t) /\ members[t].role # role
    /\ canManageMember(members[a].role, members[t].role)
    /\ canGrantRole(members[a].role, role)
    /\ Ask(q, [About("role", a, t) EXCEPT !.role = role])

AskRemove(q, a, t, to) ==
    /\ a # t /\ In(t) /\ members[t].role # "OWNER"
    /\ requireRole(a, "ADMIN") /\ canManageMember(members[a].role, members[t].role)
    /\ to \in Recipients(t)
    /\ Ask(q, [About("end", a, t) EXCEPT !.to = to])

AskLeave(q, a) ==
    /\ Active(a) /\ members[a].role # "OWNER"
    /\ Ask(q, About("end", a, a))

AskDeactivate(q, a, t, to) ==
    /\ requireRole(a, "SUPER_ADMIN") /\ Active(t) /\ members[t].role # "OWNER"
    /\ canManageMember(members[a].role, members[t].role)
    /\ to \in Recipients(t)
    /\ Ask(q, [About("deactivate", a, t) EXCEPT !.to = to])

AskReactivate(q, a, t) ==
    /\ requireRole(a, "SUPER_ADMIN") /\ In(t) /\ ~ members[t].active
    /\ canManageMember(members[a].role, members[t].role)
    /\ Ask(q, About("reactivate", a, t))

AskTransfer(q, a, t) ==
    /\ requireRole(a, "OWNER") /\ In(t) /\ t # a
    /\ Ask(q, About("transfer", a, t))

AskInvite(q, a, p, role) ==
    /\ requireRole(a, "ADMIN") /\ canGrantRole(members[a].role, role) /\ ~ In(p)
    /\ Ask(q, [NoAsk EXCEPT !.op = "invite", !.by = a, !.target = p, !.role = role])

AskRevoke(q, a, p) ==
    /\ requireRole(a, "ADMIN") /\ Usable(p)
    /\ Ask(q, [NoAsk EXCEPT !.op = "revoke", !.by = a, !.target = p])

\* accept: the role on offer, and whether the account was a member already.
AskAccept(q, p) ==
    /\ Usable(p)
    /\ Ask(q, [NoAsk EXCEPT !.op = "accept", !.by = p, !.target = p, !.role = offers[p].role,
                            !.then = IF In(p) THEN "member" ELSE "idle"])

AskSso(q, p) ==
    /\ mayEnterBySso(p) /\ ~ In(p)
    /\ Ask(q, [NoAsk EXCEPT !.op = "sso", !.by = p, !.target = p,
                            !.then = IF p \in departed THEN "departed" ELSE "idle"])

AskAssign(q, a, p) ==
    /\ Active(a) /\ Active(p)
    /\ Ask(q, [NoAsk EXCEPT !.op = "assign", !.by = a, !.to = p])

AskDrop(q, a) ==
    /\ requireRole(a, "OWNER")
    /\ Ask(q, [NoAsk EXCEPT !.op = "drop", !.by = a])

\* preview: an owner's workspace goes if nobody else is in it; with others in it
\* the account cannot be deleted.
AskDelete(q, p) ==
    /\ In(p) /\ members[p].role = "OWNER" => \A o \in People \ {p} : ~ In(o)
    /\ Ask(q, [NoAsk EXCEPT !.by = p, !.target = p,
                 !.op = IF ~ In(p) THEN "scrub"
                        ELSE IF members[p].role = "OWNER" THEN "purge" ELSE "leave"])

-----------------------------------------------------------------------------
(* What is written.                                                        *)

\* The row that was read is still there; a write to one that is gone fails, and
\* its transaction with it.
There(p, row) == In(p) /\ members[p].id = row
TargetThere(q) == There(requests[q].target, requests[q].row)

Answered(q) == requests' = [requests EXCEPT ![q] = NoAsk]
Goes(q, op) == requests' = [requests EXCEPT ![q].op = op]
Fail(q) ==
    /\ Answered(q)
    /\ UNCHANGED <<open, accounts, members, departed, offers, assignee, nextId, asks, imports,
                   overlaps>>

\* Ownership moved between the read and the write.
OwnerMoved(q) == LET r == requests[q] IN
    IF r.op = "transfer" THEN members[r.by].role # "OWNER" ELSE members[r.target].role = "OWNER"
\* Whoever was to get the work can no longer open it.
Mislaid(to) == to # None /\ ~ Active(to)
Overlap(happened) == overlaps' = overlaps \cup {k \in DOMAIN happened : happened[k]}

\* The owner may be given any work; others, work in no project or in their own.
handOverKept(p, to) == {assignee}    \* mutant: open work stays with who held it
handOver(p, to) == IF assignee # p THEN {assignee} ELSE {to, None}

ChangeRole(q) == LET r == requests[q] IN
    /\ r.op = "role" /\ TargetThere(q)
    /\ members' = [members EXCEPT ![r.target].role = r.role]
    /\ Overlap([owner |-> OwnerMoved(q)])
    /\ Answered(q)
    /\ UNCHANGED <<open, accounts, departed, offers, assignee, nextId, asks, imports>>

EndMembership(q) == LET r == requests[q] IN
    /\ r.op = "end" /\ TargetThere(q)
    /\ assignee' \in handOver(r.target, r.to)
    /\ members' = [members EXCEPT ![r.target] = None]
    /\ departed' = departed \cup {r.target}
    /\ Overlap([owner |-> OwnerMoved(q), work |-> Mislaid(assignee')])
    /\ IF r.then = "scrub" THEN Goes(q, "scrub") ELSE Answered(q)
    /\ UNCHANGED <<open, accounts, offers, nextId, asks, imports>>

Deactivate(q) == LET r == requests[q] IN
    /\ r.op = "deactivate" /\ TargetThere(q)
    /\ assignee' \in handOver(r.target, r.to)
    /\ members' = [members EXCEPT ![r.target].active = FALSE]
    /\ Overlap([owner |-> OwnerMoved(q), work |-> Mislaid(assignee')])
    /\ Answered(q)
    /\ UNCHANGED <<open, accounts, departed, offers, nextId, asks, imports>>

Reactivate(q) == LET r == requests[q] IN
    /\ r.op = "reactivate" /\ TargetThere(q)
    /\ members' = [members EXCEPT ![r.target].active = TRUE]
    /\ Answered(q)
    /\ UNCHANGED <<open, accounts, departed, offers, assignee, nextId, asks, imports, overlaps>>

formerOwnerOut == None    \* mutant: the outgoing owner is left with no role
formerOwner == "SUPER_ADMIN"
TransferOwnership(q) == LET r == requests[q] IN
    /\ r.op = "transfer" /\ TargetThere(q) /\ There(r.by, r.byRow)
    /\ members' = [members EXCEPT ![r.by].role = formerOwner, ![r.target].role = "OWNER"]
    /\ Overlap([owner |-> OwnerMoved(q)])
    /\ Answered(q)
    /\ UNCHANGED <<open, accounts, departed, offers, assignee, nextId, asks, imports>>

\* The row of the address is reused: a spent or revoked offer is open again.
Invite(q) == LET r == requests[q] IN
    /\ r.op = "invite" /\ open
    /\ offers' = [offers EXCEPT ![r.target] = [role |-> r.role, state |-> "open"]]
    /\ Answered(q)
    /\ UNCHANGED <<open, accounts, members, departed, assignee, nextId, asks, imports, overlaps>>

Revoke(q) == LET r == requests[q] IN
    /\ r.op = "revoke" /\ offers[r.target] # None
    /\ offers' = [offers EXCEPT ![r.target].state = "revoked"]
    /\ Answered(q)
    /\ UNCHANGED <<open, accounts, members, departed, assignee, nextId, asks, imports, overlaps>>

Join(p, role) ==
    /\ members' = [members EXCEPT ![p] = [id |-> nextId, role |-> role, active |-> TRUE]]
    /\ nextId' = nextId + 1

\* A member already when it was read: only the offer is spent.
Accept(q) == LET r == requests[q] IN
    /\ r.op = "accept" /\ offers[r.target] # None
    /\ IF r.then = "member" THEN UNCHANGED <<members, nextId>>
                            ELSE ~ In(r.target) /\ Join(r.target, r.role)
    /\ offers' = [offers EXCEPT ![r.target].state = "spent"]
    /\ Overlap([return |-> ~ Usable(r.target), account |-> r.target \notin accounts])
    /\ Answered(q)
    /\ UNCHANGED <<open, accounts, departed, assignee, asks, imports>>

SignInWithSaml(q) == LET r == requests[q] IN
    /\ r.op = "sso" /\ open /\ ~ In(r.target)
    /\ Join(r.target, "MEMBER")
    /\ Overlap([return |-> r.target \in departed /\ r.then # "departed",
                account |-> r.target \notin accounts])
    /\ Answered(q)
    /\ UNCHANGED <<open, accounts, departed, offers, assignee, asks, imports>>

\* importPeople: whoever is on Asana's list is made a member, if not one yet.
ImportPerson(p, role) ==
    /\ open /\ asks < MaxAsks /\ p \in accounts /\ ~ In(p)
    /\ Join(p, role)
    /\ asks' = asks + 1 /\ imports' = imports + 1
    /\ UNCHANGED <<open, accounts, departed, offers, assignee, requests, overlaps>>

Assign(q) == LET r == requests[q] IN
    /\ r.op = "assign" /\ open
    /\ assignee' = r.to
    /\ Overlap([work |-> Mislaid(r.to)])
    /\ Answered(q)
    /\ UNCHANGED <<open, accounts, members, departed, offers, nextId, asks, imports>>

-----------------------------------------------------------------------------
(* Deleting a workspace, or an account.                                    *)

\* What the cascade from the workspace's row takes.
Cascade ==
    /\ open /\ open' = FALSE
    /\ members' = [p \in People |-> None] /\ offers' = [p \in People |-> None]
    /\ departed' = {} /\ assignee' = None

DeleteAsOwner(q) ==
    /\ requests[q].op = "drop" /\ Cascade
    /\ Answered(q)
    /\ UNCHANGED <<accounts, nextId, asks, imports, overlaps>>

\* purge with aloneAs: the members are read again inside the transaction.
aloneAsPreviewed(q) == open    \* mutant: the preview is relied on
aloneAs(q) == open /\ \A p \in People \ {requests[q].target} : ~ In(p)
PurgeCheck(q) ==
    /\ requests[q].op = "purge"
    /\ requests' = IF aloneAs(q) THEN [requests EXCEPT ![q].op = "purging", ![q].row = nextId]
                                 ELSE [requests EXCEPT ![q] = NoAsk]
    /\ UNCHANGED <<open, accounts, members, departed, offers, assignee, nextId, asks, imports,
                   overlaps>>
PurgeWorkspace(q) ==
    /\ requests[q].op = "purging" /\ Cascade
    /\ Goes(q, "scrub")
    /\ UNCHANGED <<accounts, nextId, asks, imports, overlaps>>

\* leaveForAccountDeletion: the membership is read again.
LeaveBehind(q) == LET p == requests[q].target IN
    /\ requests[q].op = "leave"
    /\ requests' = [requests EXCEPT ![q] =
            CASE ~ In(p) -> [@ EXCEPT !.op = "scrub"]
              [] In(p) /\ members[p].role = "OWNER" -> NoAsk
              [] OTHER -> [@ EXCEPT !.op = "end", !.row = members[p].id, !.then = "scrub"]]
    /\ UNCHANGED <<open, accounts, members, departed, offers, assignee, nextId, asks, imports,
                   overlaps>>

scrubbedKept(p) == members    \* mutant: what a race left behind stays
scrubbed(p) == IF In(p) /\ members[p].role # "OWNER" THEN [members EXCEPT ![p] = None] ELSE members
Scrub(q) == LET p == requests[q].target IN
    /\ requests[q].op = "scrub"
    /\ accounts' = accounts \ {p}
    /\ members' = scrubbed(p)
    /\ Overlap([account |-> In(p) /\ members[p].role = "OWNER", work |-> In(p) /\ assignee = p])
    /\ Answered(q)
    /\ UNCHANGED <<open, departed, offers, assignee, nextId, asks, imports>>

\* A write whose row, workspace or offer is gone, or who joined meanwhile: the
\* request fails as a whole.  (A second sign-in finds the member and is done.)
Failing(q) == LET r == requests[q] IN
    /\ \/ r.op \in {"role", "end", "deactivate", "reactivate", "transfer"} /\ ~ TargetThere(q)
       \/ r.op = "transfer" /\ ~ There(r.by, r.byRow)
       \/ r.op \in {"invite", "assign", "drop", "purging", "sso"} /\ ~ open
       \/ r.op \in {"revoke", "accept"} /\ offers[r.target] = None
       \/ r.op = "sso" /\ In(r.target)
       \/ r.op = "accept" /\ r.then # "member" /\ In(r.target)
    /\ Fail(q)

MembersNext ==
    \/ \E q \in Requests, a \in People :
        \/ \E t \in People, role \in Roles : AskRole(q, a, t, role) \/ AskInvite(q, a, t, role)
        \/ \E t \in People, to \in People \cup {None} :
            AskRemove(q, a, t, to) \/ AskDeactivate(q, a, t, to)
        \/ \E t \in People : AskReactivate(q, a, t) \/ AskTransfer(q, a, t) \/ AskRevoke(q, a, t)
                              \/ AskAssign(q, a, t)
        \/ AskLeave(q, a) \/ AskAccept(q, a) \/ AskSso(q, a) \/ AskDrop(q, a) \/ AskDelete(q, a)
    \/ \E q \in Requests :
        \/ ChangeRole(q) \/ EndMembership(q) \/ Deactivate(q) \/ Reactivate(q)
        \/ TransferOwnership(q) \/ Invite(q) \/ Revoke(q) \/ Accept(q) \/ SignInWithSaml(q)
        \/ Assign(q) \/ DeleteAsOwner(q) \/ PurgeCheck(q) \/ PurgeWorkspace(q)
        \/ LeaveBehind(q) \/ Scrub(q) \/ Failing(q)
    \/ \E p \in People, role \in ImportRoles : ImportPerson(p, role)

MembersSpec == MembersInit /\ [][MembersNext]_mvars

-----------------------------------------------------------------------------
(* Properties.                                                             *)

\* Every variable has its type, and a row's id is below the next one
\* (WorkspaceMember, WorkspaceInvitation).
MembersTypeOK ==
    /\ open \in BOOLEAN /\ accounts \subseteq People /\ departed \subseteq People
    /\ members \in [People -> Member \cup {None}]
    /\ \A p \in People : In(p) => open /\ members[p].id < nextId
    /\ offers \in [People -> Offer \cup {None}]
    /\ assignee \in People \cup {None}
    /\ nextId \in Nat /\ asks \in 0 .. MaxAsks /\ imports \in Nat
    /\ overlaps \subseteq {"owner", "work", "return", "account"}

\* A workspace has exactly one owner.  transferOwnership's comment says of its
\* transaction "so there is never an instant with two owners or none".
OneOwner == open => \E p \in People :
    /\ In(p) /\ members[p].role = "OWNER"
    /\ \A o \in People : In(o) /\ members[o].role = "OWNER" => o = p

\* What the checks of updateRole, remove, deactivate, transferOwnership, invite and
\* deletion are worth: a workspace has exactly one owner unless ownership moved
\* between the read and the write of a request that acts on owner or heir.
OneOwnerUnlessMoved == "owner" \notin overlaps => OneOwner

\* handOverOpenWork, assertAssigneeIsMember: open work waits on nobody who cannot
\* get in, unless its new holder lost access between the check and the write.
NoWorkStranded == "work" \notin overlaps => (assignee # None => Active(assignee))

\* Scrubbing leaves no deleted account in a workspace, whatever joined it while it
\* was being deleted, unless a request answered after that let it in, or it was
\* made owner meanwhile.
DeletedAreOut == "account" \notin overlaps => \A p \in People \ accounts : ~ In(p)

Returns(p) == p \in departed /\ ~ In(p) /\ members'[p] # None
\* endMembership: somebody who left or was put out comes back only by an offer that
\* stands and is spent by it, by the import, or by an answer that overtook a departure.
ReturnsInvited == [][\A p \in People : Returns(p) =>
                        \/ Usable(p) /\ offers'[p].state = "spent"
                        \/ imports' # imports
                        \/ "return" \in overlaps']_mvars

\* purge with aloneAs: deleting an account takes no workspace from anybody who had
\* joined it when the transaction looked.
NobodyEvicted == [][open /\ ~ open' => \E q \in Requests :
                        \/ requests[q].op = "drop" /\ requests'[q] = NoAsk
                        \/ /\ requests[q].op = "purging" /\ requests'[q].op = "scrub"
                           /\ \A p \in People \ {requests[q].target} :
                                In(p) => members[p].id >= requests[q].row]_mvars
=============================================================================
