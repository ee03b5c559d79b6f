------------------------------ MODULE MCRequests ------------------------------
(***************************************************************************)
(* Small components of the request side that share no row with each other, *)
(* checked in one run: a behaviour exercises one of them.                  *)
(***************************************************************************)
EXTENDS Sessions, TaskDependencies, TaskCompletion, IdempotentCreate, TLC

CONSTANTS s1, s2, t3

\* Two tabs of one browser, and one of another.
TabsOf == [t \in Tabs |-> IF t = t3 THEN s2 ELSE s1]

VARIABLE part   \* the component under way

MCInit ==
    /\ SessionsInit /\ LinksInit /\ CompletionInit /\ IdempotencyInit
    /\ part \in {"sessions", "links", "completion", "creates"}
    \* Bound: of three tasks at most one is in no project.
    /\ Cardinality(placed) >= 2 /\ (part # "links" => placed = LinkTasks)
    /\ part # "completion" => repeats = <<fresh(0, "none")>>

MCNext ==
    \/ part = "sessions" /\ SessionsNext /\ UNCHANGED <<part, linkVars, completionVars, idempotencyVars>>
    \/ part = "links" /\ LinksNext /\ UNCHANGED <<part, sessionVars, completionVars, idempotencyVars>>
    \/ part = "completion" /\ CompletionNext /\ UNCHANGED <<part, sessionVars, linkVars, idempotencyVars>>
    \/ part = "creates" /\ IdempotencyNext /\ UNCHANGED <<part, sessionVars, linkVars, completionVars>>

MCSpec == MCInit /\ [][MCNext]_<<part, sessionVars, linkVars, completionVars, idempotencyVars>>

\* Tasks, and requests that have not begun, are alike, and every property here is an
\* invariant.  (More symmetry costs more time than it saves.)
Symmetric == Permutations(LinkTasks) \cup Permutations(LinkRequests)
=============================================================================
