--------------------------- MODULE IdempotentCreate ---------------------------
(***************************************************************************)
(* A create that can be repeated: the first request with an                *)
(* Idempotency-Key takes the key in Redis, runs and leaves its answer      *)
(* there; a repeat finds the key taken or the answer.  This is the life of *)
(* one key, of one caller.  Taking it is one command, looking who has it a *)
(* second, and a key taken is given up after a minute whether or not its   *)
(* request is done.  An answer is kept for a day, which never passes here. *)
(***************************************************************************)
EXTENDS Naturals

CONSTANTS
    Attempts,   \* requests with the key, on their way
    Bodies,     \* what a request asks for: its fingerprint
    MaxSent,    \* bound: requests sent
    MaxCreateFaults,    \* bound: creates that fail, Redis not answering, a process that stops
    NoBody

ASSUME IdempotencyAssumption ==
    /\ {MaxSent, MaxCreateFaults} \subseteq Nat
    /\ NoBody \notin Bodies

VARIABLES
    kept,       \* StoredRecord: [fingerprint, state, payload]
    attempts,   \* requests between their steps; `has` is the record it made
    records,    \* how many were created, numbered as they come
    sent, createFaults, \* counted against the bounds
    loose       \* observation: a request ran without the key, outlived it, or did not keep its answer

idempotencyVars == <<kept, attempts, records, sent, createFaults, loose>>

Free == [fingerprint |-> NoBody, state |-> "free", payload |-> 0]
AtRest == [pc |-> "idle", body |-> NoBody, has |-> 0]

IdempotencyInit ==
    /\ kept = Free
    /\ attempts = [a \in Attempts |-> AtRest]
    /\ records = 0 /\ sent = 0 /\ createFaults = 0 /\ loose = FALSE

Fault == createFaults < MaxCreateFaults /\ createFaults' = createFaults + 1
Send == sent < MaxSent /\ sent' = sent + 1
Goes(a, pc) == attempts' = [attempts EXCEPT ![a].pc = pc]
Answer(a) == attempts' = [attempts EXCEPT ![a] = AtRest]

-----------------------------------------------------------------------------

\* claim: SET NX.  Whoever does not get the key looks who has it.
freeForAll(b) == kept.state = "free" \/ kept.fingerprint = b    \* mutant: a repeat takes it too
isFree(b) == kept.state = "free"
Claim(a, b) ==
    /\ attempts[a].pc = "idle" /\ Send
    /\ attempts' = [attempts EXCEPT ![a] = [AtRest EXCEPT !.body = b, !.pc = IF isFree(b) THEN "create" ELSE "look"]]
    /\ kept' = IF isFree(b) THEN [Free EXCEPT !.fingerprint = b, !.state = "pending"] ELSE kept
    /\ UNCHANGED <<records, createFaults, loose>>

\* Redis does not answer: the request is handled without it, as if it had no key.
ClaimFails(a, b) ==
    /\ attempts[a].pc = "idle" /\ Send /\ Fault
    /\ attempts' = [attempts EXCEPT ![a] = [AtRest EXCEPT !.body = b, !.pc = "unkeyed"]]
    /\ loose' = TRUE
    /\ UNCHANGED <<kept, records>>

\* GET: another request's key is refused, a running one too, and an answer that
\* is there is given again.  A key given up meanwhile counts as this request's.
Look(a) ==
    /\ attempts[a].pc = "look"
    /\ IF kept.state = "free" THEN Goes(a, "create") /\ loose' = TRUE
                              ELSE Answer(a) /\ UNCHANGED loose
    /\ UNCHANGED <<kept, records, sent, createFaults>>

\* The handler.
Create(a) ==
    /\ attempts[a].pc \in {"create", "unkeyed"}
    /\ records' = records + 1
    /\ attempts' = [attempts EXCEPT ![a] = IF @.pc = "unkeyed" THEN AtRest
                                           ELSE [@ EXCEPT !.pc = "remember", !.has = records + 1]]
    /\ UNCHANGED <<kept, sent, createFaults, loose>>

\* It fails, before its record is written or, in what follows the write, after.
CreateFails(a) ==
    /\ attempts[a].pc = "create" /\ Fault
    /\ Goes(a, "release")
    /\ \E written \in {0, 1} : records' = records + written /\ loose' = (loose \/ written = 1)
    /\ UNCHANGED <<kept, sent>>

Remember(a) ==
    /\ attempts[a].pc = "remember"
    /\ kept' = [fingerprint |-> attempts[a].body, state |-> "done", payload |-> attempts[a].has]
    /\ Answer(a)
    /\ UNCHANGED <<records, sent, createFaults, loose>>

\* The answer cannot be kept: the request fails, and the key is released with it.
RememberFails(a) ==
    /\ attempts[a].pc = "remember" /\ Fault
    /\ Goes(a, "release")
    /\ loose' = TRUE
    /\ UNCHANGED <<kept, records, sent>>

\* release, whoever has the key by now.
Release(a) ==
    /\ attempts[a].pc = "release"
    /\ kept' = Free
    /\ Answer(a)
    /\ UNCHANGED <<records, sent, createFaults, loose>>

Running == {a \in Attempts : attempts[a].pc \in {"create", "remember", "release"}}
\* IN_FLIGHT_TTL_SECONDS pass.  One that fails later still takes the next one's key.
Expire ==
    /\ kept.state = "pending"
    /\ kept' = Free
    /\ loose' = (loose \/ Running # {})
    /\ UNCHANGED <<attempts, records, sent, createFaults>>

\* The process stops: what it wrote stays, the key until it expires.
Stop(a) ==
    /\ attempts[a].pc \in {"create", "remember", "release"} /\ Fault
    /\ loose' = (loose \/ attempts[a].pc = "remember")
    /\ Answer(a)
    /\ UNCHANGED <<kept, records, sent>>

IdempotencyNext ==
    \/ \E a \in Attempts :
        \/ \E b \in Bodies : Claim(a, b) \/ ClaimFails(a, b)
        \/ Look(a) \/ Create(a) \/ CreateFails(a) \/ Remember(a) \/ RememberFails(a) \/ Release(a) \/ Stop(a)
    \/ Expire

IdempotencySpec == IdempotencyInit /\ [][IdempotencyNext]_idempotencyVars

-----------------------------------------------------------------------------
(* Property.                                                               *)

\* However often and for whatever a key is sent, it creates one record, and the
\* answer that is kept is of a record that was made.  Except where a request ran
\* without the key (Redis was not there, or the key went between the two commands
\* of a claim), outlived its minute, or wrote its record and left no answer.
CreatedOnce == loose \/ (records <= 1 /\ (kept.state = "done" => kept.payload = 1))
=============================================================================
