--------------------------- MODULE ProducerProofs ---------------------------
(* Proofs of the delivery accounting of Producer. *)
EXTENDS Producer, FiniteSetTheorems, TLAPS

-----------------------------------------------------------------------------
(* librdkafka's queue is finite, and changes by one message at a time.     *)

LEMMA QueueSize ==
    ASSUME TypeOK
    PROVE  /\ IsFiniteSet(queue) /\ Cardinality(queue) \in Nat
           /\ \A m : IF m \in queue
                     THEN Cardinality(queue \ {m}) = Cardinality(queue) - 1
                     ELSE Cardinality(queue \cup {m}) = Cardinality(queue) + 1
<1>1. IsFiniteSet(1 .. attempted)
  BY FS_Interval DEF TypeOK
<1>2. IsFiniteSet(queue)
  BY <1>1, FS_Subset DEF TypeOK
<1> QED
  BY <1>2, FS_CardinalityType, FS_AddElement, FS_RemoveElement

\* The inductive invariant of the accounting: the attempt in the hands of
\* _enqueue is not queued yet, no message has two reports, and the attempts
\* without an outcome are at most the one an exception took from _enqueue.
Unaccounted == attempted - (acked + failed + undelivered + InQueue + Current)
AccountInv ==
    /\ Current = 1 => attempted >= 1 /\ attempted \notin accepted /\ left >= 1
    /\ delivered \cap expired = {}
    /\ pc \notin {"flush", "exited"} => reason # "unhandled_exception"
    /\ final => pc = "exited"
    /\ reason # "unhandled_exception" /\ (pc = "exited" => final) => Unaccounted = 0
    /\ Unaccounted >= 0
    /\ pc # "exited" \/ final => Unaccounted <= 1

LEMMA InitAccount == Init => TypeOK /\ AccountInv
<1> SUFFICES ASSUME Init PROVE TypeOK /\ AccountInv
  OBVIOUS
<1>1. log \in [Partitions -> Seq(Nat)]
  BY DEF Init
<1>2. counts \in [Partitions -> Nat] /\ low \in [Partitions -> Nat] /\ high \in [Partitions -> Nat]
  BY DEF Init, Zero
<1>3. TypeOK
  <2>1. accepted = {} /\ queue = {} /\ delivered = {} /\ expired = {}
    BY DEF Init
  <2>2. accepted \subseteq 1 .. attempted /\ queue \subseteq accepted
        /\ delivered \subseteq queue /\ expired \subseteq queue
    BY <2>1
  <2>3. pc \in PCs /\ stop \in BOOLEAN /\ final \in BOOLEAN /\ reason \in Reasons
    BY DEF Init, PCs, Reasons
  <2>4. left \in 0 .. 2 /\ originals \in Nat /\ exit \in {-1, 0, 1}
        /\ attempted \in Nat /\ acked \in Nat /\ failed \in Nat /\ undelivered \in Nat
    BY DEF Init
  <2> QED
    BY <1>1, <1>2, <2>2, <2>3, <2>4 DEF TypeOK
<1>4. Cardinality(queue) = 0
  BY FS_EmptySet DEF Init
<1>5. AccountInv
  BY <1>4 DEF Init, AccountInv, Current, InQueue, Unaccounted
<1> QED
  BY <1>3, <1>5

-----------------------------------------------------------------------------
(* The steps that change nothing but the place of the main thread.         *)

\* Every term of the accounting is an integer.
LEMMA AccountTypes ==
    ASSUME TypeOK
    PROVE  /\ attempted \in Nat /\ acked \in Nat /\ failed \in Nat
           /\ undelivered \in Nat
           /\ Current \in {0, 1} /\ InQueue \in Nat /\ Unaccounted \in Int
<1>1. Current \in {0, 1} /\ InQueue \in Nat
  BY QueueSize DEF Current, InQueue
<1> QED
  BY <1>1 DEF TypeOK, Unaccounted

\* A step that moves an attempt from one account to another.
LEMMA SameAccount ==
    ASSUME AccountInv,
           Current' = Current, Unaccounted' = Unaccounted,
           UNCHANGED <<pc, left, reason, final, attempted, accepted>>,
           delivered' \cap expired' = {}
    PROVE  AccountInv'
BY DEF AccountInv

\* The main thread moves without an attempt changing hands.
Moves == \/ Signal \/ LoopContinues \/ LoopEnds \/ WaitStopped \/ NotStopped
         \/ QueueFull \/ PollReturns \/ Returned

LEMMA MovesAccount ==
    ASSUME TypeOK, AccountInv, Moves
    PROVE  TypeOK' /\ AccountInv'
<1> USE DEF mainVars, statVars, brokerVars
<1>1. TypeOK'
  BY DEF TypeOK, Moves, Signal, LoopContinues, LoopEnds, WaitStopped,
         NotStopped, QueueFull, PollReturns, Returned, PCs, Reasons
<1>2. Current' = Current /\ InQueue' = InQueue
  BY DEF Moves, Signal, LoopContinues, LoopEnds, WaitStopped, NotStopped,
         QueueFull, PollReturns, Returned, Current, InQueue
<1>3. Unaccounted' = Unaccounted
  BY <1>2 DEF Moves, Signal, LoopContinues, LoopEnds, WaitStopped, NotStopped,
              QueueFull, PollReturns, Returned, Unaccounted
<1>4. /\ UNCHANGED <<left, final, attempted, accepted, delivered, expired>>
      /\ \/ UNCHANGED <<pc, reason>>
         \/ /\ pc \notin {"flush", "exited"} /\ pc' # "exited"
            /\ reason' # "unhandled_exception"
  BY DEF AccountInv, Moves, Signal, LoopContinues, LoopEnds, WaitStopped,
         NotStopped, QueueFull, PollReturns, Returned
<1>5. AccountInv'
  BY <1>2, <1>3, <1>4, AccountTypes DEF AccountInv
<1> QED
  BY <1>1, <1>5

-----------------------------------------------------------------------------
(* The steps that begin or end the work of _enqueue on an attempt.         *)

LEMMA WaitDueAccount ==
    ASSUME TypeOK, AccountInv, WaitDue
    PROVE  TypeOK' /\ AccountInv'
<1> USE DEF WaitDue, brokerVars
<1>1. TypeOK'
  BY DEF TypeOK, PCs, Reasons
<1>2. Current = 0 /\ Current' = 1 /\ InQueue' = InQueue
  BY DEF Current, InQueue
<1>3. Unaccounted' = Unaccounted
  BY <1>2, AccountTypes DEF Unaccounted
<1>4. AccountInv'
  BY <1>2, <1>3, AccountTypes DEF TypeOK, AccountInv
<1> QED
  BY <1>1, <1>4

\* What Return does, whatever became of the message.
LEMMA ReturnEffect ==
    ASSUME TypeOK, AccountInv, Current = 1, Return
    PROVE  /\ pc' \in {"try", "poll"} /\ left' \in 0 .. 2 /\ originals' \in Nat
           /\ attempted' \in Nat /\ attempted' >= attempted
           /\ attempted' = attempted + Current'
           /\ Current' = 1 => left' >= 1
           /\ Current' \in {0, 1} /\ attempted >= 1
<1>1. CASE left > 1
  BY <1>1 DEF Return, TypeOK, AccountInv, Current
<1>2. CASE ~(left > 1)
  BY <1>2 DEF Return, TypeOK, AccountInv, Current
<1> QED
  BY <1>1, <1>2

\* The attempt ends as a failure, before or inside produce().
LEMMA FailedAccount ==
    ASSUME TypeOK, AccountInv, Cancelled \/ Refused
    PROVE  TypeOK' /\ AccountInv'
<1> USE DEF brokerVars
<1>1. /\ pc \in {"try", "produce"} /\ failed' = failed + 1 /\ Return
      /\ UNCHANGED <<stop, reason, exit, final, acked, undelivered, counts,
                     low, high, accepted, queue, delivered, expired, log>>
  BY DEF Cancelled, Refused
<1>2. Current = 1
  BY <1>1 DEF Current
<1>3. TypeOK'
  BY <1>1, <1>2, ReturnEffect DEF TypeOK, PCs
<1>4. InQueue' = InQueue
  BY <1>1, <1>2, ReturnEffect DEF InQueue, Current
<1>5. Unaccounted' = Unaccounted
  BY <1>1, <1>2, <1>4, ReturnEffect, AccountTypes DEF Unaccounted
<1>6. Current' = 1 => attempted' \notin accepted'
  BY <1>1, <1>2, ReturnEffect DEF TypeOK
<1>7. pc \notin {"flush", "exited"} /\ pc' \notin {"flush", "exited"}
  BY <1>1, <1>2, ReturnEffect
<1>8. AccountInv'
  BY <1>1, <1>2, <1>5, <1>6, <1>7, ReturnEffect, AccountTypes DEF TypeOK, AccountInv
<1> QED
  BY <1>3, <1>8

\* The attempt moves from _enqueue into librdkafka's queue.
LEMMA AcceptedAccount ==
    ASSUME TypeOK, AccountInv, Accepted
    PROVE  TypeOK' /\ AccountInv'
<1>1. Current = 1
  BY DEF Accepted, Current
<1>2. Cardinality(queue') = Cardinality(queue) + 1
  BY <1>1, QueueSize DEF Accepted, TypeOK, AccountInv
<1>3. TypeOK'
  BY <1>1, ReturnEffect DEF Accepted, TypeOK, PCs
<1>4. InQueue' = InQueue + 1
  BY <1>1, <1>2, ReturnEffect DEF Accepted, InQueue
<1>5. Unaccounted' = Unaccounted
  BY <1>1, <1>4, ReturnEffect, AccountTypes DEF Accepted, Unaccounted
<1>6. Current' = 1 => attempted' \notin accepted'
  BY <1>1, ReturnEffect DEF Accepted, TypeOK
<1>7. pc \notin {"flush", "exited"} /\ pc' \notin {"flush", "exited"}
  BY <1>1, ReturnEffect DEF Accepted
<1>8. AccountInv'
  BY <1>1, <1>5, <1>6, <1>7, ReturnEffect, AccountTypes
  DEF Accepted, TypeOK, AccountInv
<1> QED
  BY <1>3, <1>8

-----------------------------------------------------------------------------
(* The end of the run.                                                     *)

\* The exception that may take one attempt out of the hands of _enqueue.
LEMMA PollRaisesAccount ==
    ASSUME TypeOK, AccountInv, PollRaises
    PROVE  TypeOK' /\ AccountInv'
<1> USE DEF PollRaises, statVars, brokerVars
<1>1. TypeOK'
  BY DEF TypeOK, PCs, Reasons
<1>2. AccountInv'
  BY QueueSize DEF TypeOK, AccountInv, Current, InQueue, Unaccounted
<1> QED
  BY <1>1, <1>2

LEMMA FinalizeAccount ==
    ASSUME TypeOK, AccountInv, Finalize
    PROVE  TypeOK' /\ AccountInv'
<1> USE DEF Finalize, Remaining, brokerVars
<1>1. exit' \in {-1, 0, 1}
  OBVIOUS
<1>2. TypeOK'
  BY <1>1, QueueSize DEF TypeOK, PCs, Reasons
<1>3. AccountInv'
  BY QueueSize DEF TypeOK, AccountInv, Current, InQueue, Unaccounted
<1> QED
  BY <1>2, <1>3

LEMMA FlushRaisesAccount ==
    ASSUME TypeOK, AccountInv, FlushRaises
    PROVE  TypeOK' /\ AccountInv'
<1> USE DEF FlushRaises, statVars, brokerVars
<1>1. TypeOK'
  BY DEF TypeOK, PCs, Reasons
<1>2. AccountInv'
  BY QueueSize DEF TypeOK, AccountInv, Current, InQueue, Unaccounted
<1> QED
  BY <1>1, <1>2

-----------------------------------------------------------------------------
(* Callbacks take an attempt out of the queue and count it once.           *)

LEMMA AckCallbackAccount ==
    ASSUME TypeOK, AccountInv,
           NEW m \in delivered, NEW p \in Partitions,
           NEW o \in 1 .. Len(log[p]), AckCallback(m, p, o)
    PROVE  TypeOK' /\ AccountInv'
<1> USE DEF AckCallback, RecordAck, Higher, mainVars
<1>1. Cardinality(queue') = Cardinality(queue) - 1
  BY QueueSize DEF TypeOK
<1>2. counts' \in [Partitions -> Nat]
  BY DEF TypeOK
<1>3. o \in Nat
  BY DEF TypeOK
<1>4. low' \in [Partitions -> Nat]
  BY <1>3 DEF TypeOK
<1>5. high' \in [Partitions -> Nat]
  BY <1>3 DEF TypeOK
<1>6. TypeOK'
  BY <1>2, <1>4, <1>5 DEF TypeOK, AccountInv
<1>7. Current' = Current /\ InQueue' = InQueue - 1
  BY <1>1 DEF Current, InQueue, Polling
<1>8. Unaccounted' = Unaccounted
  BY <1>7, AccountTypes DEF Unaccounted
<1>9. AccountInv'
  BY <1>7, <1>8, SameAccount DEF AccountInv
<1> QED
  BY <1>6, <1>9

LEMMA ErrorCallbackAccount ==
    ASSUME TypeOK, AccountInv, NEW m \in expired, ErrorCallback(m)
    PROVE  TypeOK' /\ AccountInv'
<1> USE DEF ErrorCallback, mainVars
<1>1. Cardinality(queue') = Cardinality(queue) - 1
  BY QueueSize DEF TypeOK
<1>2. TypeOK'
  BY DEF TypeOK, AccountInv
<1>3. Current' = Current /\ InQueue' = InQueue - 1
  BY <1>1 DEF Current, InQueue, Polling
<1>4. Unaccounted' = Unaccounted
  BY <1>3, AccountTypes DEF Unaccounted
<1>5. AccountInv'
  BY <1>3, <1>4, SameAccount DEF AccountInv
<1> QED
  BY <1>2, <1>5

\* Nothing the broker does changes the accounting.
LEMMA BrokerAccount ==
    ASSUME TypeOK, AccountInv,
           Report \/ \E m \in accepted, p \in Partitions : BrokerAppends(m, p)
    PROVE  TypeOK' /\ AccountInv'
<1> USE DEF mainVars, statVars
<1>1. ASSUME NEW m \in accepted, NEW p \in Partitions, BrokerAppends(m, p)
      PROVE  TypeOK' /\ AccountInv'
  <2>1. m \in Nat
    BY <1>1 DEF TypeOK
  <2>2. log' \in [Partitions -> Seq(Nat)]
    BY <1>1, <2>1 DEF TypeOK, BrokerAppends
  <2>3. TypeOK'
    BY <1>1, <2>2 DEF TypeOK, BrokerAppends
  <2>4. AccountInv'
    BY <1>1 DEF BrokerAppends, AccountInv, Current, InQueue, Unaccounted
  <2> QED
    BY <2>3, <2>4
<1>2. ASSUME NEW m \in queue, ReportDelivered(m) \/ ReportExpired(m)
      PROVE  TypeOK' /\ AccountInv'
  <2>1. TypeOK'
    BY <1>2 DEF TypeOK, ReportDelivered, ReportExpired
  <2>2. AccountInv'
    BY <1>2 DEF ReportDelivered, ReportExpired, Waiting, AccountInv, Current,
                InQueue, Unaccounted
  <2> QED
    BY <2>1, <2>2
<1> QED
  BY <1>1, <1>2 DEF Report

-----------------------------------------------------------------------------
(* Every step, and the theorems.                                           *)

LEMMA NextAccount ==
    ASSUME TypeOK, AccountInv, [Next]_vars
    PROVE  TypeOK' /\ AccountInv'
<1>1. CASE Moves
  BY <1>1, MovesAccount
<1>2. CASE WaitDue
  BY <1>2, WaitDueAccount
<1>3. CASE Cancelled \/ Refused
  BY <1>3, FailedAccount
<1>4. CASE Accepted
  BY <1>4, AcceptedAccount
<1>5. CASE PollRaises
  BY <1>5, PollRaisesAccount
<1>6. CASE Finalize
  BY <1>6, FinalizeAccount
<1>7. CASE FlushRaises
  BY <1>7, FlushRaisesAccount
<1>8. CASE Callback
  BY <1>8, AckCallbackAccount, ErrorCallbackAccount DEF Callback
<1>9. CASE Report \/ \E m \in accepted, p \in Partitions : BrokerAppends(m, p)
  BY <1>9, BrokerAccount
<1>10. CASE UNCHANGED vars
  <2> USE <1>10 DEF vars, mainVars, statVars, brokerVars
  <2>1. TypeOK'
    BY DEF TypeOK
  <2>2. AccountInv'
    BY DEF AccountInv, Current, InQueue, Unaccounted
  <2> QED
    BY <2>1, <2>2
<1> QED
  BY <1>1, <1>2, <1>3, <1>4, <1>5, <1>6, <1>7, <1>8, <1>9, <1>10
  DEF Next, Main, Raises, Moves

\* The variables of the producer and of its delivery accounting always have
\* their types: in particular librdkafka reports only what was accepted.
THEOREM ProducerTypeCorrect == Spec => []TypeOK
<1>1. TypeOK /\ AccountInv /\ [Next]_vars => (TypeOK /\ AccountInv)'
  BY NextAccount
<1> QED
  BY InitAccount, <1>1, PTL DEF Spec

\* The inductive invariant of delivery accounting holds for every number of
\* partitions, every count and every queue size.
THEOREM AccountInvariant == Spec => []AccountInv
<1>1. TypeOK /\ AccountInv /\ [Next]_vars => (TypeOK /\ AccountInv)'
  BY NextAccount
<1> QED
  BY InitAccount, <1>1, PTL DEF Spec

\* Delivery accounting balances at every step of every run: no attempt of
\* producer.py is counted twice, and none is missing from the final snapshot
\* except the one that an exception may take from _enqueue.
THEOREM BalancedHolds == Spec => []Balanced
<1>1. TypeOK /\ AccountInv => Balanced
  <2> SUFFICES ASSUME TypeOK, AccountInv PROVE Balanced
    OBVIOUS
  <2>1. Cardinality(queue) \in Nat
    BY QueueSize
  <2>2. Current \in {0, 1} /\ InQueue \in Nat
    BY <2>1 DEF Current, InQueue
  <2> QED
    BY <2>2 DEF TypeOK, AccountInv, Unaccounted, Balanced
<1> QED
  BY ProducerTypeCorrect, AccountInvariant, <1>1, PTL

-----------------------------------------------------------------------------
(* What the acknowledgements say of the topic.                             *)

\* The offsets of partition p that hold a message of K.
OffsetsOf(K, p) == {o \in 1 .. Len(log[p]) : log[p][o] \in K}

\* The topic holds accepted messages, each once.
StoredOnce ==
    \A p, q \in Partitions : \A o \in 1 .. Len(log[p]), r \in 1 .. Len(log[q]) :
        /\ log[p][o] \in accepted
        /\ log[p][o] = log[q][r] => p = q /\ o = r

\* K are the acknowledged messages: the counts and ranges are those of the
\* offsets they are stored at.
Ledger(K) ==
    /\ K \subseteq accepted /\ K \cap queue = {} /\ Cardinality(K) = acked
    /\ \A m \in K : Stored(m)
    /\ \A p \in Partitions :
          /\ Cardinality(OffsetsOf(K, p)) = counts[p]
          /\ OffsetsOf(K, p) \subseteq low[p] .. high[p]
          /\ high[p] <= Len(log[p])
          /\ counts[p] = 0 <=> low[p] = 0

ExitInv ==
    exit = 0 => /\ pc = "exited" /\ final /\ reason # "unhandled_exception"
                /\ failed = 0 /\ undelivered = 0

LedgerInv == StoredOnce /\ ExitInv /\ \E K \in SUBSET accepted : Ledger(K)
ProducerInv == TypeOK /\ AccountInv /\ LedgerInv

LEMMA InitLedger == Init => LedgerInv
<1> SUFFICES ASSUME Init PROVE LedgerInv
  OBVIOUS
<1>1. Ledger({})
  <2>1. Cardinality({}) = 0
    BY FS_EmptySet
  <2>2. ASSUME NEW p \in Partitions
        PROVE  /\ OffsetsOf({}, p) = {} /\ counts[p] = 0 /\ low[p] = 0
               /\ high[p] = 0 /\ Len(log[p]) = 0
    BY DEF OffsetsOf, Init, Zero
  <2>3. acked = 0 /\ {} \subseteq accepted /\ {} \cap queue = {}
    BY DEF Init
  <2>4. ASSUME NEW p \in Partitions
        PROVE  /\ Cardinality(OffsetsOf({}, p)) = counts[p]
               /\ OffsetsOf({}, p) \subseteq low[p] .. high[p]
               /\ high[p] <= Len(log[p])
               /\ counts[p] = 0 <=> low[p] = 0
    <3>1. OffsetsOf({}, p) = {} /\ counts[p] = 0 /\ low[p] = 0
      BY <2>2
    <3>2. high[p] <= Len(log[p])
      BY <2>2
    <3> QED
      BY <2>1, <3>1, <3>2
  <2>5. \A m \in {} : Stored(m)
    OBVIOUS
  <2> QED
    BY <2>1, <2>3, <2>4, <2>5 DEF Ledger
<1>2. StoredOnce /\ ExitInv
  BY DEF Init, StoredOnce, ExitInv
<1> QED
  BY <1>1, <1>2 DEF LedgerInv

LEMMA IntervalSize ==
    ASSUME NEW n \in Nat
    PROVE  IsFiniteSet(1 .. n) /\ Cardinality(1 .. n) = n
BY FS_Interval

\* The offsets of a set of messages are finitely many.
LEMMA OffsetsFinite ==
    ASSUME TypeOK, NEW K, NEW p \in Partitions
    PROVE  /\ IsFiniteSet(OffsetsOf(K, p)) /\ Cardinality(OffsetsOf(K, p)) \in Nat
           /\ Cardinality(OffsetsOf(K, p)) <= Len(log[p])
           /\ Len(log[p]) \in Nat
<1>1. Len(log[p]) \in Nat
  BY DEF TypeOK
<1>2. IsFiniteSet(1 .. Len(log[p])) /\ Cardinality(1 .. Len(log[p])) = Len(log[p])
  BY <1>1, IntervalSize
<1>3. OffsetsOf(K, p) \subseteq 1 .. Len(log[p])
  BY DEF OffsetsOf
<1> QED
  BY <1>1, <1>2, <1>3, FS_Subset, FS_CardinalityType

\* Steps that touch neither the topic nor the acknowledgements.
LEMMA LedgerStays ==
    ASSUME LedgerInv, ExitInv', UNCHANGED <<acked, counts, low, high, log>>,
           accepted \subseteq accepted', queue' \cap accepted \subseteq queue
    PROVE  LedgerInv'
<1>1. PICK K \in SUBSET accepted : Ledger(K)
  BY DEF LedgerInv
<1>2. Ledger(K)'
  BY <1>1 DEF Ledger, OffsetsOf, Stored
<1>3. StoredOnce'
  BY DEF LedgerInv, StoredOnce
<1> QED
  BY <1>1, <1>2, <1>3 DEF LedgerInv

LEMMA MainLedger ==
    ASSUME TypeOK, AccountInv, LedgerInv, Signal \/ Main \/ Raises
    PROVE  LedgerInv'
<1> USE DEF mainVars, statVars, brokerVars
<1>1. ExitInv'
  <2>1. CASE Finalize
    <3>1. undelivered \in Nat /\ Cardinality(queue) \in Nat /\ undelivered' \in Nat
          /\ failed \in Nat
      BY <2>1, QueueSize DEF TypeOK, Finalize, Remaining
    <3> QED
      BY <2>1, <3>1 DEF Finalize, Succeeded, ExitInv
  <2>2. CASE FlushRaises
    BY <2>2 DEF FlushRaises, ExitInv
  <2>3. CASE \/ Moves \/ WaitDue \/ Cancelled \/ Refused \/ Accepted \/ PollRaises
    BY <2>3 DEF LedgerInv, ExitInv, Moves, Signal, LoopContinues, LoopEnds, WaitStopped,
        NotStopped, QueueFull, PollReturns, Returned, WaitDue, Cancelled, Refused,
        Accepted, PollRaises
  <2> QED
    BY <2>1, <2>2, <2>3 DEF Main, Raises, Moves
<1>2. UNCHANGED <<acked, counts, low, high, log>>
  BY DEF Main, Raises, Signal, LoopContinues, LoopEnds, WaitStopped, NotStopped,
      QueueFull, PollReturns, Returned, WaitDue, Cancelled, Refused, Accepted,
      PollRaises, Finalize, FlushRaises
<1>3. accepted \subseteq accepted' /\ queue' \cap accepted \subseteq queue
  BY DEF Main, Raises, Signal, LoopContinues, LoopEnds, WaitStopped, NotStopped,
      QueueFull, PollReturns, Returned, WaitDue, Cancelled, Refused, Accepted,
      PollRaises, Finalize, FlushRaises, AccountInv, Current
<1> QED
  BY <1>1, <1>2, <1>3, LedgerStays

\* A callback counts one message more, at the offset where it is stored.
LEMMA AckCallbackLedger ==
    ASSUME TypeOK, LedgerInv, NEW m \in delivered, NEW p \in Partitions,
           NEW o \in 1 .. Len(log[p]), AckCallback(m, p, o)
    PROVE  LedgerInv'
<1> USE DEF AckCallback, RecordAck, mainVars
<1>1. PICK K \in SUBSET accepted : Ledger(K)
  BY DEF LedgerInv
<1> DEFINE L == K \cup {m}
<1>2. m \in queue /\ m \in accepted /\ m \notin K /\ Stored(m) /\ o \in Nat
  BY <1>1 DEF TypeOK, Ledger, Stored
<1>3. L \in SUBSET accepted' /\ L \cap queue' = {} /\ Cardinality(L) = acked'
  <2>1. IsFiniteSet(1 .. attempted) /\ K \subseteq 1 .. attempted
    <3>1. 1 \in Int /\ attempted \in Int
      BY DEF TypeOK
    <3> QED
      BY <1>1, <3>1, FS_Interval DEF TypeOK
  <2>2. IsFiniteSet(K)
    BY <2>1, FS_Subset
  <2>3. Cardinality(L) = Cardinality(K) + 1
    BY <1>2, <2>2, FS_AddElement
  <2> QED
    BY <1>1, <1>2, <2>3 DEF Ledger
<1>4. ASSUME NEW q \in Partitions
      PROVE  OffsetsOf(L, q)' = IF q = p THEN OffsetsOf(K, p) \cup {o} ELSE OffsetsOf(K, q)
  <2>1. OffsetsOf(L, q)' = OffsetsOf(L, q)
    BY DEF OffsetsOf
  <2>2. ASSUME NEW r \in 1 .. Len(log[q]) PROVE log[q][r] = m <=> (q = p /\ r = o)
    BY <2>2 DEF LedgerInv, StoredOnce
  <2> QED
    BY <2>1, <2>2 DEF OffsetsOf
<1>5. o \notin OffsetsOf(K, p)
  BY <1>2 DEF OffsetsOf
<1>6. ASSUME NEW q \in Partitions
      PROVE  /\ Cardinality(OffsetsOf(L, q)') = counts'[q]
             /\ OffsetsOf(L, q)' \subseteq low'[q] .. high'[q]
             /\ high'[q] <= Len(log'[q])
             /\ counts'[q] = 0 <=> low'[q] = 0
  <2>1. /\ Cardinality(OffsetsOf(K, q)) = counts[q]
        /\ OffsetsOf(K, q) \subseteq low[q] .. high[q]
        /\ high[q] <= Len(log[q])
        /\ counts[q] = 0 <=> low[q] = 0
    BY <1>1 DEF Ledger
  <2>2. counts[q] \in Nat /\ low[q] \in Nat /\ high[q] \in Nat /\ Len(log[q]) \in Nat
    BY DEF TypeOK
  <2>3. CASE q # p
    BY <1>4, <2>1, <2>3 DEF TypeOK
  <2>4. CASE q = p
    <3>1. /\ counts'[p] = counts[p] + 1
          /\ low'[p] = IF low[p] = 0 \/ o < low[p] THEN o ELSE low[p]
          /\ high'[p] = IF o > high[p] THEN o ELSE high[p]
      BY DEF TypeOK, Higher
    <3>2. Cardinality(OffsetsOf(K, p) \cup {o}) = counts[p] + 1
      BY <1>5, <2>1, <2>4, OffsetsFinite, FS_AddElement
    <3>3. low[p] = 0 => OffsetsOf(K, p) = {}
      BY <2>1, <2>4, OffsetsFinite, FS_EmptySet
    <3>4. OffsetsOf(K, p) \cup {o} \subseteq low'[p] .. high'[p]
      <4> SUFFICES ASSUME NEW r \in OffsetsOf(K, p) \cup {o}
                   PROVE  r \in low'[p] .. high'[p]
        OBVIOUS
      <4>1. CASE r = o
        BY <1>2, <2>2, <2>4, <3>1, <4>1
      <4>2. CASE r # o
        <5>1. r \in low[p] .. high[p] /\ low[p] # 0
          BY <2>1, <2>4, <3>3, <4>2
        <5> QED
          BY <1>2, <2>2, <2>4, <3>1, <5>1
      <4> QED
        BY <4>1, <4>2
    <3> QED
      <4>1. OffsetsOf(L, q)' = OffsetsOf(K, p) \cup {o}
        BY <1>4, <2>4
      <4>2. high'[p] <= Len(log'[p]) /\ (counts'[p] = 0 <=> low'[p] = 0)
        BY <1>2, <2>1, <2>2, <2>4, <3>1
      <4> HIDE DEF L
      <4> QED
        BY <2>4, <3>1, <3>2, <3>4, <4>1, <4>2
  <2> QED
    BY <2>3, <2>4
<1>7. \A n \in L : Stored(n)'
  BY <1>1, <1>2 DEF Ledger, Stored
<1>8. Ledger(L)'
  <2>1. Cardinality(OffsetsOf(L, p))' = Cardinality(OffsetsOf(L, p)')
    OBVIOUS
  <2> QED
    BY <1>3, <1>6, <1>7 DEF Ledger
<1>9. StoredOnce' /\ ExitInv'
  BY DEF LedgerInv, StoredOnce, ExitInv
<1> QED
  BY <1>3, <1>8, <1>9 DEF LedgerInv

\* The broker appends a message that is not acknowledged yet.
LEMMA BrokerAppendsLedger ==
    ASSUME TypeOK, LedgerInv, NEW m \in accepted, NEW p \in Partitions, BrokerAppends(m, p)
    PROVE  LedgerInv'
<1> USE DEF BrokerAppends, mainVars, statVars
<1>1. PICK K \in SUBSET accepted : Ledger(K)
  BY DEF LedgerInv
<1>2. m \notin K /\ m \in Nat
  BY <1>1 DEF Ledger, TypeOK
<1>3. ASSUME NEW q \in Partitions
      PROVE  /\ Len(log'[q]) = Len(log[q]) + (IF q = p THEN 1 ELSE 0)
             /\ Len(log[q]) \in Nat
             /\ \A r \in 1 .. Len(log[q]) : log'[q][r] = log[q][r]
             /\ q = p => log'[q][Len(log[q]) + 1] = m
  BY <1>2 DEF TypeOK
<1>4. ASSUME NEW q \in Partitions PROVE OffsetsOf(K, q)' = OffsetsOf(K, q)
  <2>1. CASE q = p
    BY <1>2, <1>3, <2>1 DEF OffsetsOf
  <2>2. CASE q # p
    BY <1>3, <2>2 DEF OffsetsOf
  <2> QED
    BY <2>1, <2>2
<1>5. ASSUME NEW n, Stored(n) PROVE Stored(n)'
  <2>1. PICK q \in Partitions : \E r \in 1 .. Len(log[q]) : log[q][r] = n
    BY <1>5 DEF Stored
  <2>2. \E r \in 1 .. Len(log'[q]) : log'[q][r] = n
    BY <1>3, <2>1
  <2> QED
    BY <2>2 DEF Stored
<1>6. Ledger(K)'
  <2>1. ASSUME NEW q \in Partitions
        PROVE  /\ Cardinality(OffsetsOf(K, q)') = counts[q]
               /\ OffsetsOf(K, q)' \subseteq low[q] .. high[q]
               /\ high[q] <= Len(log'[q])
               /\ counts[q] = 0 <=> low[q] = 0
    BY <1>1, <1>3, <1>4 DEF Ledger, TypeOK
  <2>2. \A n \in K : Stored(n)'
    BY <1>1, <1>5 DEF Ledger
  <2> QED
    BY <1>1, <2>1, <2>2 DEF Ledger
<1>7. StoredOnce'
  <2> SUFFICES ASSUME NEW q \in Partitions, NEW s \in Partitions,
                      NEW r \in 1 .. Len(log'[q]), NEW t \in 1 .. Len(log'[s])
               PROVE  /\ log'[q][r] \in accepted'
                      /\ log'[q][r] = log'[s][t] => q = s /\ r = t
    BY DEF StoredOnce
  <2>1. /\ r \in 1 .. Len(log[q]) \/ (q = p /\ r = Len(log[q]) + 1)
        /\ t \in 1 .. Len(log[s]) \/ (s = p /\ t = Len(log[s]) + 1)
    BY <1>3
  <2>2. r \in 1 .. Len(log[q]) => log'[q][r] = log[q][r] /\ log[q][r] # m /\ log[q][r] \in accepted
    BY <1>3 DEF Stored, LedgerInv, StoredOnce
  <2>3. t \in 1 .. Len(log[s]) => log'[s][t] = log[s][t] /\ log[s][t] # m
    BY <1>3 DEF Stored
  <2>4. r \in 1 .. Len(log[q]) /\ t \in 1 .. Len(log[s]) /\ log[q][r] = log[s][t]
            => q = s /\ r = t
    BY DEF LedgerInv, StoredOnce
  <2> QED
    BY <1>3, <2>1, <2>2, <2>3, <2>4
<1>8. ExitInv'
  BY DEF LedgerInv, ExitInv
<1> QED
  BY <1>1, <1>6, <1>7, <1>8 DEF LedgerInv

LEMMA NextLedger ==
    ASSUME TypeOK, AccountInv, LedgerInv, [Next]_vars
    PROVE  LedgerInv'
<1>1. CASE Signal \/ Main \/ Raises
  BY <1>1, MainLedger
<1>2. ASSUME NEW m \in expired, ErrorCallback(m) PROVE LedgerInv'
  BY <1>2, LedgerStays DEF ErrorCallback, Polling, LedgerInv, ExitInv, mainVars
<1>3. CASE Callback
  BY <1>2, <1>3, AckCallbackLedger DEF Callback
<1>4. CASE Report
  BY <1>4, LedgerStays
  DEF Report, ReportDelivered, ReportExpired, LedgerInv, ExitInv, mainVars, statVars
<1>5. ASSUME NEW m \in accepted, NEW p \in Partitions, BrokerAppends(m, p) PROVE LedgerInv'
  BY <1>5, BrokerAppendsLedger
<1>6. CASE UNCHANGED vars
  BY <1>6, LedgerStays DEF LedgerInv, ExitInv, vars, mainVars, statVars, brokerVars
<1> QED
  BY <1>1, <1>3, <1>4, <1>5, <1>6 DEF Next

\* The strengthening of the two properties below: some set of messages explains
\* every acknowledgement.
THEOREM LedgerInvariant == Spec => []ProducerInv
<1>1. Init => ProducerInv
  BY InitAccount, InitLedger DEF ProducerInv
<1>2. ProducerInv /\ [Next]_vars => ProducerInv'
  BY NextAccount, NextLedger DEF ProducerInv
<1> QED
  BY <1>1, <1>2, PTL DEF Spec

\* The offset range the producer reports of a partition is real, and spans at
\* least as many offsets as it counted acknowledgements, in any order.
THEOREM RangesCoverAcksHolds == Spec => []RangesCoverAcks
<1>1. ASSUME ProducerInv, NEW p \in Partitions
      PROVE  /\ high[p] <= Len(log[p])
             /\ counts[p] = 0 <=> low[p] = 0
             /\ counts[p] # 0 => counts[p] <= high[p] - low[p] + 1
  <2>1. PICK K \in SUBSET accepted : Ledger(K)
    BY <1>1 DEF ProducerInv, LedgerInv
  <2>2. TypeOK /\ low[p] \in Nat /\ high[p] \in Nat /\ counts[p] \in Nat
    BY <1>1 DEF ProducerInv, TypeOK
  <2>3. /\ IsFiniteSet(low[p] .. high[p])
        /\ Cardinality(low[p] .. high[p])
               = IF low[p] > high[p] THEN 0 ELSE high[p] - low[p] + 1
    <3>1. low[p] \in Int /\ high[p] \in Int
      BY <2>2
    <3> QED
      BY <3>1, FS_Interval
  <2>4. counts[p] <= Cardinality(low[p] .. high[p])
    BY <2>1, <2>3, FS_Subset DEF Ledger
  <2> QED
    BY <2>1, <2>2, <2>3, <2>4 DEF Ledger
<1>2. ProducerInv => RangesCoverAcks
  BY <1>1 DEF RangesCoverAcks
<1> QED
  BY <1>2, LedgerInvariant, PTL

\* Exit status 0 means the whole run is in Kafka: every attempt is stored and
\* acknowledged, and the reported counts and ranges are those of the topic.
THEOREM ExitZeroMeansStoredHolds == Spec => []ExitZeroMeansStored
<1>1. ASSUME ProducerInv, exit = 0 PROVE ExitZeroMeansStored
  <2>1. TypeOK /\ attempted \in Nat /\ acked \in Nat
    BY <1>1 DEF ProducerInv, TypeOK
  <2>2. /\ pc = "exited" /\ final /\ reason # "unhandled_exception"
        /\ failed = 0 /\ undelivered = 0
    BY <1>1 DEF ProducerInv, LedgerInv, ExitInv
  <2>3. acked = attempted
    BY <1>1, <2>1, <2>2 DEF ProducerInv, AccountInv, Unaccounted, InQueue, Current
  <2>4. PICK K \in SUBSET accepted : Ledger(K)
    BY <1>1 DEF ProducerInv, LedgerInv
  <2>5. K = 1 .. attempted /\ accepted = 1 .. attempted
    <3>1. K \subseteq accepted /\ accepted \subseteq 1 .. attempted
      BY <2>1 DEF TypeOK
    <3>2. IsFiniteSet(1 .. attempted) /\ Cardinality(1 .. attempted) = attempted
      BY <2>1, FS_Interval
    <3>3. Cardinality(K) = attempted
      BY <2>3, <2>4 DEF Ledger
    <3>4. K = 1 .. attempted
      BY <3>1, <3>2, <3>3, FS_Subset
    <3> QED
      BY <3>1, <3>4
  <2>6. ASSUME NEW p \in Partitions
        PROVE  /\ counts[p] = Len(log[p])
               /\ counts[p] # 0 => low[p] = 1 /\ high[p] = Len(log[p])
    <3>1. Len(log[p]) \in Nat /\ low[p] \in Nat /\ high[p] \in Nat
      BY <2>1 DEF TypeOK
    <3>2. OffsetsOf(K, p) = 1 .. Len(log[p])
      BY <1>1, <2>5 DEF ProducerInv, LedgerInv, StoredOnce, OffsetsOf
    <3>3. Cardinality(1 .. Len(log[p])) = Len(log[p])
      BY <3>1, IntervalSize
    <3>4. /\ Cardinality(OffsetsOf(K, p)) = counts[p]
          /\ OffsetsOf(K, p) \subseteq low[p] .. high[p]
          /\ high[p] <= Len(log[p])
          /\ counts[p] = 0 <=> low[p] = 0
      BY <2>4 DEF Ledger
    <3>5. counts[p] = Len(log[p])
      BY <3>2, <3>3, <3>4
    <3>6. counts[p] # 0 => 1 \in low[p] .. high[p] /\ Len(log[p]) \in low[p] .. high[p]
      BY <3>1, <3>2, <3>4, <3>5
    <3> QED
      BY <3>1, <3>4, <3>5, <3>6
  <2>7. \A m \in 1 .. attempted : Stored(m)
    BY <2>4, <2>5 DEF Ledger
  <2> QED
    BY <2>2, <2>3, <2>6, <2>7 DEF ExitZeroMeansStored
<1>2. ProducerInv => ExitZeroMeansStored
  BY <1>1 DEF ExitZeroMeansStored
<1> QED
  BY <1>2, LedgerInvariant, PTL
=============================================================================
