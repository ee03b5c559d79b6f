------------------------------ MODULE RuleLedger ------------------------------
(***************************************************************************)
(* What the automation engine promises about answering events, with no     *)
(* queue, worker or retry in it: a ledger of answers.  An answer (one rule *)
(* on one event) is opened once; while it is open its steps are performed  *)
(* in order, each once; closed, it is never touched again.                 *)
(***************************************************************************)
EXTENDS Integers

VARIABLES opened, closed, performed

Init == opened = {} /\ closed = {} /\ performed = {}

Open(x) ==
    /\ x \notin opened
    /\ opened' = opened \cup {x}
    /\ UNCHANGED <<closed, performed>>

\* A refusal is recorded and never performs anything.
Refuse(x) ==
    /\ x \notin opened
    /\ opened' = opened \cup {x}
    /\ closed' = closed \cup {x}
    /\ UNCHANGED performed

Perform(x, i) ==
    /\ x \in opened \ closed
    /\ \A a \in performed : a[1] = x => a[2] < i
    /\ performed' = performed \cup {<<x, i>>}
    /\ UNCHANGED <<opened, closed>>

Close(x) ==
    /\ x \in opened \ closed
    /\ closed' = closed \cup {x}
    /\ UNCHANGED <<opened, performed>>

\* What is new in the ledger names the entry the step made.
Next ==
    \/ \E x \in opened' \ opened : Open(x) \/ Refuse(x)
    \/ \E x \in closed' \ closed : Close(x)
    \/ \E a \in performed' \ performed : Perform(a[1], a[2])

Spec == Init /\ [][Next]_<<opened, closed, performed>>

=============================================================================
