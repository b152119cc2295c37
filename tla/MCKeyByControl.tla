--------------------------- MODULE MCKeyByControl ---------------------------
(* Small instances of KeyByControl for TLC. *)
EXTENDS KeyByControl

CONSTANTS o1, o2

Rebuilders == {"submit", "keyby-rebuild"}
Deployers == {"submit", "deploy"}
=============================================================================
