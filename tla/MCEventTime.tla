----------------------------- MODULE MCEventTime -----------------------------
(* A small instance of EventTime for TLC. *)
EXTENDS EventTime, TLC

CONSTANTS p1, p2, p3, s1, s2

MCLongMin == -5

\* On both sides of TimeOfRejected.
MCTimes == {-2, 0, 1}

\* Two splits in one source subtask, a third in another; rows of both subtasks
\* meet at one operator.
MCOwner == [p \in Splits |-> IF p = p3 THEN s2 ELSE s1]
MCEdges == {<<s1, s1>>, <<s2, s1>>}

\* The two splits of one subtask are interchangeable.
Symmetry == Permutations({p1, p2})
=============================================================================
