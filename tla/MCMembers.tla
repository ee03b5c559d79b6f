------------------------------ MODULE MCMembers ------------------------------
(* A small workspace for TLC.                                              *)
EXTENDS WorkspaceMembers, TLC

RequestSymmetry == Permutations(Requests)
=============================================================================
