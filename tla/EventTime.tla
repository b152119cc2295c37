------------------------------ MODULE EventTime ------------------------------
(***************************************************************************)
(* Event time in the job of flink/job.py: the timestamps that logic.py     *)
(* gives to raw records, bounded out-of-orderness and idleness per Kafka   *)
(* split inside the source, the watermark that each source subtask sends   *)
(* on, the alignment of watermarks at the operators behind it, and the     *)
(* lateness that ObserveLatenessFunction records with every row.           *)
(*                                                                         *)
(* Times are integers.  Watermarks and rows travel in the same channels,   *)
(* in order; in the baseline graph an operator has one channel, from its   *)
(* own source subtask, and with key_by one from each.                      *)
(***************************************************************************)
EXTENDS Integers, Sequences, FiniteSets, FiniteSetsExt

CONSTANTS
    Splits,      \* Kafka partitions
    Subtasks,    \* parallel instances
    Owner,       \* the source subtask that reads a split
    Edges,       \* channels: pairs of a source subtask and an operator
    Times,       \* event times of valid records
    OutOfOrder,  \* OUT_OF_ORDER_SECONDS
    LongMin,     \* the watermark before the first one, below every time
    MaxRecords   \* bound: records read from all splits

ASSUME LimitsAssumption ==
    IsFiniteSet(Splits) /\ IsFiniteSet(Subtasks) /\ MaxRecords \in Nat
ASSUME OwnerAssumption == Owner \in [Splits -> Subtasks]
ASSUME EdgesAssumption == Edges \subseteq Subtasks \X Subtasks
ASSUME TimesAssumption ==
    /\ Times \subseteq Int /\ OutOfOrder \in Nat /\ LongMin \in Int
    /\ \A t \in Times \cup {0} : LongMin < t - OutOfOrder - 1

VARIABLES
    read,      \* records read
    maxTime,   \* the generator's maximum timestamp of each split
    mark,      \* the last watermark of each split
    idle,      \* whether the split was declared idle
    quiet,     \* whether it has been idle without a record since
    sent,      \* the watermark and the idleness each source subtask sent last
    channel,   \* rows, watermarks and idleness on their way, by edge
    seen,      \* the watermark and idleness that arrived last, by edge
    current,   \* current_watermark() of each operator
    row,       \* the last row each operator let through, with its lateness
    best,      \* history: the latest valid event time of each split
    spoilt,    \* history: whether a rejected record was read from the split
    rested     \* history: whether the split was ever declared idle

sourceVars == <<read, maxTime, mark, idle, quiet, sent>>
operatorVars == <<seen, current, row>>
historyVars == <<best, spoilt, rested>>
vars == <<sourceVars, channel, operatorVars, historyVars>>

NoStatus == [mark |-> LongMin, idle |-> FALSE]
NoRow == [is_late |-> FALSE, lateness |-> 0, excused |-> FALSE]
Nothing == LongMin + OutOfOrder + 1  \* a generator's maximum before any record

Init ==
    /\ read = 0
    /\ maxTime = [p \in Splits |-> Nothing]
    /\ mark = [p \in Splits |-> LongMin]
    /\ idle = [p \in Splits |-> FALSE] /\ quiet = [p \in Splits |-> FALSE]
    /\ sent = [s \in Subtasks |-> NoStatus]
    /\ channel = [e \in Edges |-> <<>>]
    /\ seen = [e \in Edges |-> NoStatus]
    /\ current = [d \in Subtasks |-> LongMin]
    /\ row = [d \in Subtasks |-> NoRow]
    /\ best = [p \in Splits |-> Nothing]
    /\ spoilt = [p \in Splits |-> FALSE] /\ rested = [p \in Splits |-> FALSE]

-----------------------------------------------------------------------------
(* The source.                                                             *)

\* event_time_ms_for_watermark of a value that validation rejects
TimeOfRejected == 0

\* mutant: one generator for the whole subtask, as after a downstream operator
SameSubtask(p) == {q \in Splits : Owner[q] = Owner[p]}
\* The splits whose generator sees a record of p.
GeneratorOf(p) == {p}

\* A record of p with the timestamp of its assigner passes the generator.
Observe(p, t) ==
    /\ read < MaxRecords
    /\ read' = read + 1
    /\ maxTime' = [q \in Splits |-> IF q \in GeneratorOf(p) /\ t > maxTime[q]
                                    THEN t ELSE maxTime[q]]
    /\ quiet' = [quiet EXCEPT ![p] = FALSE]
    /\ UNCHANGED <<mark, idle, sent, operatorVars, rested>>

ReadRejected(p) ==
    /\ Observe(p, TimeOfRejected)
    /\ spoilt' = [spoilt EXCEPT ![p] = TRUE]
    /\ UNCHANGED <<channel, best>>

\* A row is excused for being late if its own split is out of order by more
\* than the bound, also against a rejected record, or was declared idle before.
Excused(p, t) ==
    \/ t <= best[p] - OutOfOrder - 1
    \/ spoilt[p] /\ t <= TimeOfRejected - OutOfOrder - 1
    \/ rested[p]

ReadValid(p, t, d) ==
    /\ <<Owner[p], d>> \in Edges
    /\ Observe(p, t)
    /\ best' = [best EXCEPT ![p] = IF t > @ THEN t ELSE @]
    /\ channel' = [channel EXCEPT ![<<Owner[p], d>>] =
                      Append(@, [kind |-> "row", time |-> t, excused |-> Excused(p, t)])]
    /\ UNCHANGED spoilt

\* mutant: the fastest split decides
Fastest(old, marks) == Max({old} \cup marks)
\* The smallest watermark of those that are active, never going back.
Combined(old, marks) == IF marks = {} THEN old ELSE Max({old, Min(marks)})

\* onPeriodicEmit: splits without a record for WATERMARK_IDLE_SECONDS become
\* idle, the others advance, and the subtask sends the smallest watermark of
\* its active splits if it has grown, or its idleness if that has changed.
PeriodicEmit(s) ==
    LET own == {p \in Splits : Owner[p] = s} IN
    \E timedOut \in SUBSET own :
        LET active == own \ timedOut
            marks == [p \in own |-> Max({mark[p], maxTime[p] - OutOfOrder - 1})]
            status == [mark |-> Combined(sent[s].mark, {marks[p] : p \in active}),
                       idle |-> active = {}]
        IN /\ {p \in own : quiet[p]} \subseteq timedOut
           /\ mark' = [p \in Splits |-> IF p \in active THEN marks[p] ELSE mark[p]]
           /\ idle' = [p \in Splits |-> IF p \in own THEN p \in timedOut ELSE idle[p]]
           /\ quiet' = [p \in Splits |-> IF p \in own THEN p \in timedOut ELSE quiet[p]]
           /\ rested' = [p \in Splits |-> rested[p] \/ p \in timedOut]
           /\ sent' = [sent EXCEPT ![s] = status]
           /\ channel' = [e \in Edges |->
                 IF e[1] = s /\ status # sent[s]
                 THEN Append(channel[e], [kind |-> "status", status |-> status])
                 ELSE channel[e]]
           /\ UNCHANGED <<read, maxTime, operatorVars, best, spoilt>>

-----------------------------------------------------------------------------
(* The operators.                                                          *)

Inputs(d) == {e \in Edges : e[2] = d}

\* The watermark of an operator: the smallest of its active inputs that have
\* caught up with it, or, when every input has become idle, the largest.
Aligned(d, inputs) == {e \in inputs : seen'[e].mark >= current[d]}
Advance(d) ==
    LET active == {e \in Inputs(d) : ~seen'[e].idle} IN
    IF active = {}
    THEN Max({current[d], Max({seen'[e].mark : e \in Inputs(d)})})
    ELSE Combined(current[d], {seen'[e].mark : e \in Aligned(d, active)})

ReceiveStatus(e) ==
    /\ channel[e] # <<>> /\ Head(channel[e]).kind = "status"
    /\ channel' = [channel EXCEPT ![e] = Tail(@)]
    /\ seen' = [seen EXCEPT ![e] = Head(channel[e]).status]
    /\ current' = [current EXCEPT ![e[2]] = Advance(e[2])]
    /\ UNCHANGED <<sourceVars, row, historyVars>>

Signed(t, w) == w - t  \* mutant: rows ahead of the watermark get a lateness too
\* calculate_lateness, in which the sentinel LongMin is no watermark at all
is_late(t, w) == w # LongMin /\ t <= w
lateness(t, w) == IF is_late(t, w) THEN w - t ELSE 0

\* ObserveLatenessFunction; watermark_at_arrival, the same watermark as a
\* timestamp, is left out of the row.
ReceiveRow(e) ==
    LET r == Head(channel[e])
        w == current[e[2]]
    IN /\ channel[e] # <<>> /\ r.kind = "row"
       /\ channel' = [channel EXCEPT ![e] = Tail(@)]
       /\ row' = [row EXCEPT ![e[2]] =
                     [is_late |-> is_late(r.time, w), lateness |-> lateness(r.time, w),
                      excused |-> r.excused]]
       /\ UNCHANGED <<sourceVars, seen, current, historyVars>>

-----------------------------------------------------------------------------
Next ==
    \/ \E p \in Splits : ReadRejected(p)
    \/ \E p \in Splits, t \in Times, d \in Subtasks : ReadValid(p, t, d)
    \/ \E s \in Subtasks : PeriodicEmit(s)
    \/ \E e \in Edges : ReceiveStatus(e) \/ ReceiveRow(e)

Spec == Init /\ [][Next]_vars

-----------------------------------------------------------------------------
(* Properties.                                                             *)

Marks == {LongMin} \cup {t - OutOfOrder - 1 : t \in Times \cup {0}}
Statuses == [mark : Marks, idle : BOOLEAN]

\* Every variable has its type; the lateness of a row fits its UInt64 column.
TypeOK ==
    /\ read \in 0 .. MaxRecords
    /\ maxTime \in [Splits -> Times \cup {0, Nothing}]
    /\ best \in [Splits -> Times \cup {Nothing}]
    /\ mark \in [Splits -> Marks] /\ current \in [Subtasks -> Marks]
    /\ idle \in [Splits -> BOOLEAN] /\ quiet \in [Splits -> BOOLEAN]
    /\ spoilt \in [Splits -> BOOLEAN] /\ rested \in [Splits -> BOOLEAN]
    /\ sent \in [Subtasks -> Statuses] /\ seen \in [Edges -> Statuses]
    /\ row \in [Subtasks -> [is_late : BOOLEAN, lateness : Nat, excused : BOOLEAN]]

\* No operator's watermark passes a split that it depends on, through however
\* many subtasks, unless that split was once declared idle: this is why the
\* watermarks of splits are tracked in the source (job.py, main).
WaitsForEverySplit ==
    \A p \in Splits, d \in Subtasks :
        <<Owner[p], d>> \in Edges /\ ~rested[p] => current[d] <= mark[p]

\* A row is marked late only with a cause: its own split was out of order by
\* more than OUT_OF_ORDER_SECONDS, or was idle before.  Faster splits and other
\* subtasks never make a row late, and a rejected record none but those of its
\* own split that are older than TimeOfRejected by more than the bound.
LateHasACause == \A d \in Subtasks : row[d].is_late => row[d].excused
=============================================================================
