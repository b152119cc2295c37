----------------------------- MODULE MCProducer -----------------------------
(* Small instances of Producer for TLC. *)
EXTENDS Producer

CONSTANTS p1
=============================================================================
