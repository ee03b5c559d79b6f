------------------------------- MODULE MCAsana -------------------------------
(* Asana sync on a small instance: a task, and a subtask of it.            *)
EXTENDS AsanaSync

CONSTANTS x, y

MCParent == [r \in Records |-> IF r = y THEN x ELSE Nothing]

MCAsanaSpec == AsanaSpec /\ AsanaFair
=============================================================================
