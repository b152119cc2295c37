------------------------------ MODULE Producer ------------------------------
(***************************************************************************)
(* The load producer of producer/producer.py with its delivery accounting  *)
(* of producer/delivery.py: the publishing loop, the enqueueing of each    *)
(* message into librdkafka's bounded queue, delivery callbacks that run    *)
(* only inside poll and flush, stop signals at any moment, exceptions, and *)
(* the final flush with its timeout, snapshot and exit status.             *)
(*                                                                         *)
(* Messages are numbered by their attempt.  librdkafka and the broker are  *)
(* external: an accepted message may be appended to the topic at most once *)
(* (enable.idempotence), late or never, and is reported at most once, as   *)
(* appended or, after delivery.timeout.ms, as failed.                      *)
(***************************************************************************)
EXTENDS Integers, Sequences, FiniteSets

CONSTANTS
    Partitions,  \* partitions of the raw topic
    Count,       \* --count: originals to publish, 0 for no limit
    Capacity     \* messages librdkafka's queue holds

ASSUME CountAssumption == Count \in Nat
ASSUME CapacityAssumption == Capacity \in Nat \ {0}

VARIABLES
    \* the main thread
    pc,           \* where it is
    stop,         \* stop_event
    left,         \* messages of the current batch not yet done with
    originals,    \* originals_generated
    reason,       \* shutdown_reason
    exit,         \* exit status, or -1 while the process runs
    final,        \* whether the final snapshot has been taken and logged
    \* ProducerStats
    attempted, acked, failed, undelivered,
    counts,       \* _partition_counts
    low, high,    \* _offset_ranges, 0 where there is no range yet
    \* librdkafka and the broker
    accepted,     \* messages produce() has accepted
    queue,        \* accepted messages whose callback has not run
    delivered,    \* messages of queue with a success report waiting
    expired,      \* messages of queue with an error report waiting
    log           \* the messages of each partition

mainVars == <<pc, stop, left, originals, reason, exit, final>>
statVars == <<attempted, acked, failed, undelivered, counts, low, high>>
brokerVars == <<accepted, queue, delivered, expired, log>>
vars == <<mainVars, statVars, brokerVars>>

PCs == {"loop", "wait", "try", "produce", "full", "poll", "returned", "flush",
        "exited"}
Reasons == {"count_completed", "signal", "unhandled_exception"}
Zero == [p \in Partitions |-> 0]

Init ==
    /\ pc = "loop" /\ stop = FALSE /\ left = 0 /\ originals = 0
    /\ reason = "count_completed" /\ exit = -1 /\ final = FALSE
    /\ attempted = 0 /\ acked = 0 /\ failed = 0 /\ undelivered = 0
    /\ counts = Zero /\ low = Zero /\ high = Zero
    /\ accepted = {} /\ queue = {} /\ delivered = {} /\ expired = {}
    /\ log = [p \in Partitions |-> <<>>]

-----------------------------------------------------------------------------
(* The main thread.                                                        *)

\* request_stop, the handler of SIGINT and SIGTERM.
Signal ==
    /\ pc # "exited" /\ ~stop
    /\ stop' = TRUE
    /\ UNCHANGED <<pc, left, originals, reason, exit, final, statVars, brokerVars>>

Wanted == Count = 0 \/ originals < Count

LoopContinues ==
    /\ pc = "loop" /\ ~stop /\ Wanted
    /\ pc' = "wait"
    /\ UNCHANGED <<stop, left, originals, reason, exit, final, statVars, brokerVars>>

LoopEnds ==
    /\ pc = "loop" /\ (stop \/ ~Wanted)
    /\ pc' = "returned"
    /\ UNCHANGED <<stop, left, originals, reason, exit, final, statVars, brokerVars>>

Woken == stop

WaitStopped ==
    /\ pc = "wait" /\ Woken
    /\ pc' = "returned"
    /\ UNCHANGED <<stop, left, originals, reason, exit, final, statVars, brokerVars>>

\* The original is due: next_batch makes it, with or without a duplicate, and
\* _enqueue starts on the first message by recording the attempt.
WaitDue ==
    /\ pc = "wait" /\ ~stop
    /\ pc' = "try" /\ left' \in {1, 2}
    /\ attempted' = attempted + 1
    /\ UNCHANGED <<stop, originals, reason, exit, final, acked, failed,
                   undelivered, counts, low, high, brokerVars>>

\* _enqueue returns: on to the duplicate, or to the end of the batch.
Return ==
    IF left > 1
    THEN /\ pc' = "try" /\ left' = left - 1
         /\ attempted' = attempted + 1 /\ UNCHANGED originals
    ELSE /\ pc' = "poll" /\ left' = 0
         /\ originals' = originals + 1 /\ UNCHANGED attempted

\* enqueue_cancelled: the stop came before the message was accepted.
Cancelled ==
    /\ pc = "try" /\ stop
    /\ failed' = failed + 1
    /\ Return
    /\ UNCHANGED <<stop, reason, exit, final, acked, undelivered, counts, low,
                   high, brokerVars>>

NotStopped ==
    /\ pc = "try" /\ ~stop
    /\ pc' = "produce"
    /\ UNCHANGED <<stop, left, originals, reason, exit, final, statVars, brokerVars>>

Accepted ==
    /\ pc = "produce" /\ Cardinality(queue) < Capacity
    /\ accepted' = accepted \cup {attempted}
    /\ queue' = queue \cup {attempted}
    /\ Return
    /\ UNCHANGED <<stop, reason, exit, final, acked, failed, undelivered,
                   counts, low, high, delivered, expired, log>>

\* BufferError.
QueueFull ==
    /\ pc = "produce" /\ Cardinality(queue) >= Capacity
    /\ pc' = "full"
    /\ UNCHANGED <<stop, left, originals, reason, exit, final, statVars, brokerVars>>

\* Any other exception of produce().
Refused ==
    /\ pc = "produce"
    /\ failed' = failed + 1
    /\ Return
    /\ UNCHANGED <<stop, reason, exit, final, acked, undelivered, counts, low,
                   high, brokerVars>>

Waiting == delivered \cup expired

\* mutant: after a BufferError poll serves no report
ReturnsAtOnce == TRUE
ServedAll == Waiting = {}

\* poll(0.1) after a BufferError and poll(0) after a batch return when no
\* report is left to serve.
PollReturns ==
    /\ pc \in {"full", "poll"} /\ ServedAll
    /\ pc' = IF pc = "full" THEN "try" ELSE "loop"
    /\ UNCHANGED <<stop, left, originals, reason, exit, final, statVars, brokerVars>>

\* An exception out of poll, say of a callback's logging: in the handler of the
\* BufferError it leaves the attempt without any outcome.
PollRaises ==
    /\ pc \in {"wait", "full", "poll"}
    /\ pc' = "flush" /\ reason' = "unhandled_exception"
    /\ UNCHANGED <<stop, left, originals, exit, final, statVars, brokerVars>>

Returned ==
    /\ pc = "returned"
    /\ pc' = "flush"
    /\ reason' = IF stop THEN "signal" ELSE "count_completed"
    /\ UNCHANGED <<stop, left, originals, exit, final, statVars, brokerVars>>

\* mutant: the exit status only looks at the counters
SucceededByCounters(r, f, u) == f = 0 /\ u = 0
Succeeded(r, f, u) == r # "unhandled_exception" /\ f = 0 /\ u = 0

NothingLeft == 0  \* mutant: flush's result is dropped
OneTooFew == Cardinality(queue) - 1  \* mutant: the last message is not counted
Remaining == Cardinality(queue)

\* flush returns when the queue is empty or its timeout has passed; what is
\* left is recorded as undelivered, and the exit status follows.
Finalize ==
    /\ pc = "flush"
    /\ pc' = "exited" /\ final' = TRUE
    /\ undelivered' = undelivered + Remaining
    /\ exit' = IF Succeeded(reason, failed, undelivered') THEN 0 ELSE 1
    /\ UNCHANGED <<stop, left, originals, reason, attempted, acked, failed,
                   counts, low, high, brokerVars>>

\* An exception out of flush ends the process before the final snapshot.
FlushRaises ==
    /\ pc = "flush" /\ Waiting # {}
    /\ pc' = "exited" /\ exit' = 1
    /\ UNCHANGED <<stop, left, originals, reason, final, statVars, brokerVars>>

-----------------------------------------------------------------------------
(* Delivery callbacks, which run in the main thread inside poll and flush. *)

Polling == pc \in {"wait", "full", "poll", "flush"}

\* mutant: the first offset of a partition overwrites its range
NewHigh(h, o) == o
Higher(h, o) == IF o > h THEN o ELSE h

\* record_ack, with the partition and offset of the report.
RecordAck(p, o) ==
    /\ acked' = acked + 1
    /\ counts' = [counts EXCEPT ![p] = @ + 1]
    /\ low' = [low EXCEPT ![p] = IF @ = 0 \/ o < @ THEN o ELSE @]
    /\ high' = [high EXCEPT ![p] = Higher(@, o)]

AckCallback(m, p, o) ==
    /\ Polling /\ m \in delivered
    /\ o <= Len(log[p]) /\ log[p][o] = m
    /\ RecordAck(p, o)
    /\ queue' = queue \ {m} /\ delivered' = delivered \ {m}
    /\ UNCHANGED <<mainVars, attempted, failed, undelivered, accepted, expired, log>>

ErrorCallback(m) ==
    /\ Polling /\ m \in expired
    /\ failed' = failed + 1
    /\ queue' = queue \ {m} /\ expired' = expired \ {m}
    /\ UNCHANGED <<mainVars, attempted, acked, undelivered, counts, low, high,
                   accepted, delivered, log>>

-----------------------------------------------------------------------------
(* librdkafka and the broker.                                              *)

Stored(m) == \E p \in Partitions : \E o \in 1 .. Len(log[p]) : log[p][o] = m

\* A request may still reach the log after its message was reported as failed,
\* counted as undelivered, or the process has gone.
BrokerAppends(m, p) ==
    /\ m \in accepted /\ ~Stored(m)
    /\ log' = [log EXCEPT ![p] = Append(@, m)]
    /\ UNCHANGED <<mainVars, statVars, accepted, queue, delivered, expired>>

ReportDelivered(m) ==
    /\ m \in queue \ Waiting /\ Stored(m)
    /\ delivered' = delivered \cup {m}
    /\ UNCHANGED <<mainVars, statVars, accepted, queue, expired, log>>

ReportExpired(m) ==
    /\ m \in queue \ Waiting
    /\ expired' = expired \cup {m}
    /\ UNCHANGED <<mainVars, statVars, accepted, queue, delivered, log>>

-----------------------------------------------------------------------------
Main ==
    \/ LoopContinues \/ LoopEnds \/ WaitStopped \/ WaitDue
    \/ Cancelled \/ NotStopped \/ Accepted \/ QueueFull
    \/ PollReturns \/ Returned \/ Finalize

Raises == Refused \/ PollRaises \/ FlushRaises

Callback ==
    \/ \E m \in delivered, p \in Partitions :
           \E o \in 1 .. Len(log[p]) : AckCallback(m, p, o)
    \/ \E m \in expired : ErrorCallback(m)

Report == \E m \in queue : ReportDelivered(m) \/ ReportExpired(m)

Next ==
    \/ Signal
    \/ Main
    \/ Raises
    \/ Callback
    \/ Report
    \/ \E m \in accepted, p \in Partitions : BrokerAppends(m, p)

Spec == Init /\ [][Next]_vars

\* The main thread runs, reports of poll and flush are served, and
\* delivery.timeout.ms makes every queued message be reported in the end.
\* Exceptions and signals are owed to nobody.
FairSpec == Spec /\ WF_vars(Main) /\ WF_vars(Callback) /\ WF_vars(Report)

-----------------------------------------------------------------------------
(* Properties.                                                             *)

\* The message _enqueue is working on has no outcome yet.
Current == IF pc \in {"try", "produce", "full"} THEN 1 ELSE 0
InQueue == IF pc = "exited" THEN 0 ELSE Cardinality(queue)

\* Every variable has its type, and librdkafka reports only what it queued.
TypeOK ==
    /\ pc \in PCs /\ stop \in BOOLEAN /\ final \in BOOLEAN
    /\ left \in 0 .. 2 /\ originals \in Nat
    /\ reason \in Reasons /\ exit \in {-1, 0, 1}
    /\ attempted \in Nat /\ acked \in Nat /\ failed \in Nat /\ undelivered \in Nat
    /\ counts \in [Partitions -> Nat]
    /\ low \in [Partitions -> Nat] /\ high \in [Partitions -> Nat]
    /\ accepted \subseteq 1 .. attempted
    /\ queue \subseteq accepted
    /\ delivered \subseteq queue /\ expired \subseteq queue
    /\ log \in [Partitions -> Seq(Nat)]

\* Delivery accounting balances at every step of the run: each attempt is
\* acknowledged, failed, undelivered, in librdkafka's queue or in the hands of
\* _enqueue.  Only an unhandled exception may leave attempts over, never
\* count one twice, and once the final snapshot is logged at most one attempt
\* is missing from it (StatsSnapshot.reconciled and pending).
Balanced ==
    LET known == acked + failed + undelivered + InQueue + Current IN
    /\ known <= attempted
    /\ reason # "unhandled_exception" /\ (pc = "exited" => final)
           => known = attempted
    /\ final => attempted - known <= 1

\* Exit status 0 means the whole run is in Kafka: every attempt is in the
\* topic and acknowledged, and the reported counts and offset ranges are those
\* of the topic.  scripts/smoke.sh relies on it when it compares the growth of
\* the raw topic with the number of attempts.
ExitZeroMeansStored ==
    exit = 0 =>
        /\ final /\ acked = attempted
        /\ \A m \in 1 .. attempted : Stored(m)
        /\ \A p \in Partitions :
              /\ counts[p] = Len(log[p])
              /\ counts[p] # 0 => low[p] = 1 /\ high[p] = Len(log[p])

\* The reported offset range of a partition is real, and spans at least as many
\* offsets as acknowledgements were counted, in whatever order they came.
RangesCoverAcks ==
    \A p \in Partitions :
        /\ high[p] <= Len(log[p])
        /\ counts[p] = 0 <=> low[p] = 0
        /\ counts[p] # 0 => counts[p] <= high[p] - low[p] + 1

\* A run with a count ends by itself, and a signal ends any run: a full queue
\* holds _enqueue only until its reports are served, and flush has a timeout.
Terminates == (Count # 0 \/ stop) ~> pc = "exited"
=============================================================================
