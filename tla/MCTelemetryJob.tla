--------------------------- MODULE MCTelemetryJob ---------------------------
(* Small instances of TelemetryJob for TLC. *)
EXTENDS TelemetryJob

CONSTANTS p1, p2, s1, s2, hot, cold

\* Two splits on two subtasks; the tenants are owned by different subtasks.
MCSplitOwner == [p \in Partitions |-> IF p = p1 THEN s1 ELSE s2]
MCKeyOwner == [t \in Tenants |-> IF t = hot THEN s2 ELSE s1]
=============================================================================
