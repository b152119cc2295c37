------------------------ MODULE AtLeastOnceDelivery ------------------------
(***************************************************************************)
(* What the pipeline promises of the records of the raw topic, with no job *)
(* in sight: a valid record may be stored in ClickHouse, a rejected one    *)
(* may be put in the dead-letter topic, neither ever moves or disappears,  *)
(* and the consumer group's offsets may be set, forwards or backwards,     *)
(* only over records that are already in one of the two.                   *)
(***************************************************************************)
EXTENDS Integers, Sequences

CONSTANTS
    Partitions,  \* partitions of the raw topic
    Valid,       \* kinds of records that validation accepts
    Rejected,    \* kinds of records that validation rejects
    Unreadable   \* kinds of records on which validation fails

VARIABLES
    log,         \* the kinds of the records of each partition
    table,       \* coordinates of the records in ClickHouse
    dlq,         \* coordinates of the records in the dead-letter topic
    committed    \* the consumer group's offsets

vars == <<log, table, dlq, committed>>

Kinds == Valid \cup Rejected \cup Unreadable

\* c is the coordinate of a record of the topic whose kind is in K.
Holds(c, K) ==
    /\ c \in Partitions \X Nat
    /\ c[2] \in 1 .. Len(log[c[1]])
    /\ log[c[1]][c[2]] \in K

Covered(p, n) == \A o \in 1 .. n : <<p, o>> \in table \cup dlq

Init ==
    /\ log = [p \in Partitions |-> <<>>]
    /\ table = {} /\ dlq = {}
    /\ committed = [p \in Partitions |-> 0]

Produce(p, k) ==
    /\ log' = [log EXCEPT ![p] = Append(@, k)]
    /\ UNCHANGED <<table, dlq, committed>>

Store ==
    /\ table \subseteq table'
    /\ \A c \in table' \ table : Holds(c, Valid)
    /\ UNCHANGED <<log, dlq, committed>>

Reject ==
    /\ dlq \subseteq dlq'
    /\ \A c \in dlq' \ dlq : Holds(c, Rejected)
    /\ UNCHANGED <<log, table, committed>>

Commit ==
    /\ committed' \in [Partitions -> Nat]
    /\ \A p \in Partitions : Covered(p, committed'[p])
    /\ UNCHANGED <<log, table, dlq>>

Next ==
    \/ \E p \in Partitions, k \in Kinds : Produce(p, k)
    \/ Store
    \/ Reject
    \/ Commit

Spec == Init /\ [][Next]_vars
=============================================================================
