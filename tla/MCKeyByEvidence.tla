-------------------------- MODULE MCKeyByEvidence --------------------------
(* A small instance of KeyByEvidence for TLC. *)
EXTENDS KeyByEvidence

\* The only subtask of a narrow operator, the second one of a full one.
Owners == [w \in {1, 2} |-> w - 1]
=============================================================================
