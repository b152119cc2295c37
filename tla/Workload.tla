------------------------------ MODULE Workload ------------------------------
(***************************************************************************)
(* The load of producer/workload.py: EventFactory with its sequence and    *)
(* its refreshed produced_at, and WorkloadGenerator with its independent   *)
(* anomalies.  The host's clock may stand still or be set back between two *)
(* events.  Times are whole numbers; one unit stands for the microsecond   *)
(* that keeps produced_at growing as well as for the unit of ages.         *)
(*                                                                         *)
(* Random numbers are choices.  Metrics, devices, regions and the bytes of *)
(* a payload are left out.                                                 *)
(***************************************************************************)
EXTENDS Integers, Sequences

CONSTANTS
    Tenants,      \* tenant-hot and the others
    Times,        \* what the host's clock may show
    Jitter,       \* NORMAL_EVENT_JITTER_SECONDS: ages of normal events
    LateMin,      \* LATE_MIN_SECONDS
    LateMax,      \* LATE_MAX_SECONDS
    OutOfOrder    \* OUT_OF_ORDER_SECONDS of the job that reads the load

ASSUME TimesAssumption == Times \subseteq Nat \ {0}
ASSUME AgesAssumption ==
    /\ Jitter \in Nat /\ LateMin \in Nat /\ LateMax \in Nat /\ OutOfOrder \in Nat
    /\ Jitter <= OutOfOrder /\ LateMin <= LateMax

VARIABLES
    clock,           \* the host's clock
    lastProducedAt,  \* _last_produced_at, 0 for None
    sent             \* the messages made so far

workloadVars == <<clock, lastProducedAt, sent>>

\* utc_now() of the next event: the clock runs, stands or is set.
Ticks ==
    /\ clock' \in Times \ {clock}
    /\ UNCHANGED <<lastProducedAt, sent>>

WorkloadInit ==
    /\ clock \in Times
    /\ lastProducedAt = 0 /\ sent = <<>>

\* mutant: equal ticks pass
EqualTicks(last) == IF clock < last THEN last + 1 ELSE clock
\* _next_produced_at
NextProducedAt(last) == IF clock <= last THEN last + 1 ELSE clock

\* mutant: the age counts from the clock
OfTheClock(producedAt, age) == clock - age
EventTime(producedAt, age) == producedAt - age

\* create_original: event_id and producer_sequence number the events; a number
\* in a message is its place in the order they were made.
Original(tenant, age, malformed) ==
    LET producedAt == NextProducedAt(lastProducedAt) IN
    [event |-> Len(sent) + 1, sequence |-> Len(sent) + 1,
     producedAt |-> producedAt, eventTime |-> EventTime(producedAt, age),
     tenant |-> tenant, duplicate |-> FALSE, late |-> age >= LateMin,
     malformed |-> malformed]

\* create_duplicate: a faithful copy but for sequence, time and flag, and never
\* malformed.
Duplicate(original) ==
    [original EXCEPT !.sequence = @ + 1,
                     !.producedAt = NextProducedAt(original.producedAt),
                     !.duplicate = TRUE, !.malformed = FALSE]

Ages == 0 .. Jitter \cup LateMin .. LateMax

\* next_batch: an original, and perhaps its duplicate.
Batches ==
    {<<Original(t, a, m)>> : t \in Tenants, a \in Ages, m \in BOOLEAN}
      \cup {<<Original(t, a, m), Duplicate(Original(t, a, m))>> :
               t \in Tenants, a \in Ages, m \in BOOLEAN}

NextBatch(batch) ==
    /\ batch \in Batches
    /\ sent' = sent \o batch
    /\ lastProducedAt' = batch[Len(batch)].producedAt
    /\ UNCHANGED clock

-----------------------------------------------------------------------------
(* Properties.                                                             *)

\* Replays are told apart: producer_sequence and produced_at grow together over
\* everything that is sent, duplicates included, whatever the clock does, and a
\* duplicate is a valid message that follows the message of the same event.
ReplaysAreVisible ==
    \A i, j \in DOMAIN sent :
        /\ i < j => /\ sent[i].sequence < sent[j].sequence
                    /\ sent[i].producedAt < sent[j].producedAt
        /\ sent[i].duplicate =>
              /\ i > 1 /\ ~sent[i].malformed /\ ~sent[i - 1].duplicate
              /\ \A f \in {"event", "tenant", "eventTime", "late"} :
                    sent[i][f] = sent[i - 1][f]

\* Only injected lateness is late: an event that was not made late is no further
\* behind any event sent before it than the bound of the watermark, even when
\* the clock is set back in between.
NormalIsOnTime ==
    \A i, j \in DOMAIN sent :
        i < j /\ ~sent[j].late => sent[j].eventTime >= sent[i].eventTime - OutOfOrder
=============================================================================
