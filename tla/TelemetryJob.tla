---------------------------- MODULE TelemetryJob ----------------------------
(***************************************************************************)
(* The streaming job of flink/job.py as Flink runs it under the settings   *)
(* of docker-compose.yml: a Kafka source over partitions, parsing and      *)
(* validation, a dead-letter sink for rejected records, the optional       *)
(* keyBy operator that counts records per tenant, a buffered JDBC sink,    *)
(* aligned checkpoints, restarts from the latest checkpoint, stop with a   *)
(* savepoint, and submission from the earliest offset.                     *)
(*                                                                         *)
(* A record is named by its coordinate <<partition, offset>>, offsets      *)
(* counted from 1, so that pos[p] is both the number of records read from  *)
(* p and the last coordinate read.  One checkpoint is pending at a time    *)
(* (set_max_concurrent_checkpoints(1)), so each row in flight is either    *)
(* ahead of the barrier of that checkpoint or behind it, and these two     *)
(* sets stand for the channels between the source and the keyed subtasks.  *)
(***************************************************************************)
EXTENDS Integers, Sequences, FiniteSets

CONSTANTS
    Partitions,       \* Kafka partitions of the raw topic
    Subtasks,         \* parallel instances of every operator
    Tenants,          \* tenant ids a valid record can carry
    HotTenant,        \* HOT_TENANT_ID, whose count is published as a gauge
    Malformed,        \* the kind of a record validate_event rejects
    Raising,          \* the kind of a record on which validate_event raises
    SplitOwner,       \* the subtask that reads a partition
    KeyOwner,         \* the subtask that owns a tenant's keyed state
    RestartAttempts,  \* restart-strategy.fixed-delay.attempts
    MaxRetries,       \* JDBC_MAX_RETRIES
    Modes,            \* values ENABLE_KEYBY_LAB may take at a submission
    MaxRecords        \* bound: records appended to one partition

ASSUME PartitionsAssumption == IsFiniteSet(Partitions)
ASSUME ModesAssumption == Modes \subseteq BOOLEAN
ASSUME HotTenantAssumption == HotTenant \in Tenants
ASSUME KindsAssumption == /\ Malformed \notin Tenants
                          /\ Raising \notin Tenants
                          /\ Malformed # Raising
ASSUME OwnersAssumption == /\ SplitOwner \in [Partitions -> Subtasks]
                           /\ KeyOwner \in [Tenants -> Subtasks]
ASSUME LimitsAssumption == /\ RestartAttempts \in Nat
                           /\ MaxRetries \in Nat
                           /\ MaxRecords \in Nat

Kinds == Tenants \cup {Malformed, Raising}
Coords == Partitions \X (1 .. MaxRecords)
Offsets == [Partitions -> Nat]
Counts == [Tenants -> Nat]

AtStart == [p \in Partitions |-> 0]      \* KafkaOffsetsInitializer.earliest()
NoCounts == [t \in Tenants |-> 0]

\* What a checkpoint or a savepoint holds.  base is not in the code: it is the
\* position from which the counts of this snapshot were started.
Snapshots == [pos : Offsets, count : Counts, base : Offsets]
EmptySnapshot == [pos |-> AtStart, count |-> NoCounts, base |-> AtStart]

VARIABLES
    log,        \* Kafka: the kinds of the records of each partition
    \* the job, its source positions and the rows inside it
    status,     \* "absent", "running", "failed" or "stopped"
    keyBy,      \* whether the running graph has the keyed operator
    restarts,   \* restarts since the submission
    pos,        \* source position of each split
    ahead,      \* rows on the way to a keyed subtask, ahead of the barrier
    behind,     \* rows on the way to a keyed subtask, behind the barrier
    rows,       \* rows buffered in the JDBC sinks
    retries,    \* failed attempts of the JDBC flush in progress, by subtask
    invalid,    \* DLQ envelopes buffered in the Kafka producers of the DLQ sink
    count,      \* tenant-record-count, the keyed state
    gauge,      \* lab_hot_tenant_state_count, by subtask
    \* checkpoints
    pending,    \* the checkpoint or savepoint in progress
    ckpt,       \* the snapshot a restart resumes from
    savepoint,  \* the latest savepoint, and whether it holds keyed state
    committed,  \* offsets committed to the consumer group
    \* external stores
    table,      \* coordinates with at least one row in ClickHouse
    copies,     \* coordinates with more than one row in ClickHouse
    dlq,        \* coordinates with an envelope in the DLQ topic
    dlqCopies,  \* coordinates with more than one envelope in the DLQ topic
    \* history
    base,       \* position at which the running job's counts started
    disturbed   \* whether anything happened after which a replay is legal

jobVars == <<status, keyBy, restarts, base>>
flowVars == <<pos, ahead, behind, rows, retries, invalid, count, gauge>>
ckptVars == <<pending, ckpt, savepoint, committed>>
storeVars == <<table, copies, dlq, dlqCopies>>
vars == <<log, jobVars, flowVars, ckptVars, storeVars, disturbed>>

\* A checkpoint in progress: the subtasks whose sources and whose last operator
\* have taken their part, and the parts.
Attempts == [kind : {"none", "checkpoint", "savepoint"},
             taken : SUBSET Subtasks, acked : SUBSET Subtasks,
             pos : Offsets, count : Counts]
NoPending == [kind |-> "none", taken |-> {}, acked |-> {},
              pos |-> AtStart, count |-> NoCounts]
Savepoints == [made : BOOLEAN, keyed : BOOLEAN, snap : Snapshots]
NoSavepoint == [made |-> FALSE, keyed |-> FALSE, snap |-> EmptySnapshot]

Kind(c) == log[c[1]][c[2]]
Running == status = "running"

\* The subtask whose JDBC sink stores the row of c: the source's own in the
\* chained baseline graph, the owner of the tenant key after key_by.
SinkOf(c) == IF keyBy THEN KeyOwner[Kind(c)] ELSE SplitOwner[c[1]]
Buffer(s) == {c \in rows : SinkOf(c) = s}
NoEnvelopes(s) == {}  \* mutant: a checkpoint ignores the DLQ producer
Envelopes(s) == {c \in invalid : SplitOwner[c[1]] = s}


Init ==
    /\ log = [p \in Partitions |-> <<>>]
    /\ status = "absent" /\ keyBy = FALSE /\ restarts = 0 /\ base = AtStart
    /\ pos = AtStart /\ count = NoCounts
    /\ ahead = {} /\ behind = {} /\ rows = {} /\ invalid = {}
    /\ retries = [s \in Subtasks |-> 0] /\ gauge = [s \in Subtasks |-> 0]
    /\ pending = NoPending /\ ckpt = EmptySnapshot
    /\ savepoint = NoSavepoint /\ committed = AtStart
    /\ table = {} /\ copies = {} /\ dlq = {} /\ dlqCopies = {}
    /\ disturbed = FALSE

-----------------------------------------------------------------------------
(* The raw topic.                                                          *)

\* The producer's delivery: any kind of record at the end of a partition.
Produce(p, k) ==
    /\ Len(log[p]) < MaxRecords
    /\ log' = [log EXCEPT ![p] = Append(@, k)]
    /\ UNCHANGED <<jobVars, flowVars, ckptVars, storeVars, disturbed>>

-----------------------------------------------------------------------------
(* Starting and ending the job.                                            *)

\* What a starting job does to its operators: open() on every instance, state
\* from snapshot, and nothing buffered.
StartFrom(snapshot, mode) ==
    /\ status' = "running" /\ keyBy' = mode /\ restarts' = 0
    /\ pos' = snapshot.pos /\ count' = snapshot.count /\ base' = snapshot.base
    /\ ahead' = {} /\ behind' = {} /\ rows' = {} /\ invalid' = {}
    /\ retries' = [s \in Subtasks |-> 0] /\ gauge' = [s \in Subtasks |-> 0]
    /\ pending' = NoPending /\ ckpt' = snapshot

\* flink run without -s: every split starts at its earliest offset, whatever
\* the consumer group has committed.
Submit(mode) ==
    /\ ~Running
    /\ StartFrom(EmptySnapshot, mode)
    /\ disturbed' = (disturbed \/ table \cup dlq # {})
    /\ UNCHANGED <<log, savepoint, committed, storeVars>>

\* flink run -s: the keyed state is kept when both graphs have the operator,
\* starts empty when only the new graph has it, and is dropped with
\* --allowNonRestoredState when only the old graph had it.
Restore(mode) ==
    /\ ~Running /\ savepoint.made
    /\ StartFrom(IF mode /\ savepoint.keyed
                 THEN savepoint.snap
                 ELSE [savepoint.snap EXCEPT !.count = NoCounts,
                                             !.base = savepoint.snap.pos],
                 mode)
    /\ disturbed' = (disturbed \/ status # "stopped")
    /\ UNCHANGED <<log, savepoint, committed, storeVars>>

\* A job that ends keeps nothing in its operators.
EndJob(how) ==
    /\ status' = how
    /\ ahead' = {} /\ behind' = {} /\ rows' = {} /\ invalid' = {}
    /\ retries' = [s \in Subtasks |-> 0]
    /\ pending' = NoPending
    /\ UNCHANGED <<keyBy, restarts, base, pos, count, gauge>>

\* flink cancel, or a jobmanager container that is recreated: there is no
\* high-availability store, so the job is simply gone.
Cancel ==
    /\ Running
    /\ EndJob("absent")
    /\ disturbed' = TRUE
    /\ UNCHANGED <<log, ckpt, savepoint, committed, storeVars>>

\* The tasks in S are restarted from ckpt and the pending checkpoint is aborted.
RestartTasks(S) ==
    /\ restarts < RestartAttempts
    /\ restarts' = restarts + 1
    /\ pos' = [p \in Partitions |->
                  IF SplitOwner[p] \in S THEN ckpt.pos[p] ELSE pos[p]]
    /\ count' = IF keyBy THEN ckpt.count ELSE count
    /\ ahead' = {} /\ behind' = {}
    /\ rows' = {c \in rows : SinkOf(c) \notin S}
    /\ invalid' = {c \in invalid : SplitOwner[c[1]] \notin S}
    /\ retries' = [s \in Subtasks |-> IF s \in S THEN 0 ELSE retries[s]]
    /\ gauge' = [s \in Subtasks |-> IF s \in S THEN 0 ELSE gauge[s]]
    /\ pending' = NoPending
    /\ UNCHANGED <<status, keyBy, base>>

\* The tasks in S fail, and are restarted unless the fixed number of attempts
\* is used up.  A checkpoint that fails or times out fails the job in the same
\* way (no tolerable-failed-checkpoints is configured).
FailTasks(S) ==
    /\ disturbed' = TRUE
    /\ \/ RestartTasks(S)
       \/ restarts >= RestartAttempts /\ EndJob("failed")
    /\ UNCHANGED <<log, ckpt, savepoint, committed, dlq, dlqCopies>>

\* The keyed graph is one failover region; in the baseline graph every chain is
\* a region of its own, unless a stop is under way.
Regions(s) ==
    IF keyBy \/ pending.kind = "savepoint"
    THEN {Subtasks} ELSE {S \in SUBSET Subtasks : s \in S}

\* A TaskManager is lost or a task throws.
Crash ==
    /\ Running
    /\ \E s \in Subtasks : \E S \in Regions(s) : FailTasks(S)
    /\ UNCHANGED <<table, copies>>

-----------------------------------------------------------------------------
(* Records through the operators.                                          *)

NeverStopping(p) == FALSE  \* mutant: sources keep reading after a stop's barrier
Stopping(p) == pending.kind = "savepoint" /\ SplitOwner[p] \in pending.taken

\* The source of p may emit its next record, of kind k: it has one, and the
\* barrier of a stop with savepoint has not passed it.
Emits(p, k) ==
    /\ Running
    /\ pos[p] < Len(log[p])
    /\ log[p][pos[p] + 1] = k
    /\ ~Stopping(p)

Next1(p) == <<p, pos[p] + 1>>

\* ParseValidateFunction on a rejected record: the envelope goes to the side
\* output, whose sink sends it asynchronously.
ReadInvalid(p) ==
    /\ Emits(p, Malformed)
    /\ pos' = [pos EXCEPT ![p] = @ + 1]
    /\ invalid' = invalid \cup {Next1(p)}
    /\ UNCHANGED <<log, jobVars, ahead, behind, rows, retries, count, gauge,
                   ckptVars, storeVars, disturbed>>

\* ParseValidateFunction on a valid record of the baseline graph: the row goes
\* through the chain into the JDBC buffer, unless a flush holds that buffer.
ReadToSink(p) ==
    /\ ~keyBy
    /\ \E t \in Tenants : Emits(p, t)
    /\ retries[SplitOwner[p]] = 0
    /\ pos' = [pos EXCEPT ![p] = @ + 1]
    /\ rows' = rows \cup {Next1(p)}
    /\ UNCHANGED <<log, jobVars, ahead, behind, retries, invalid, count, gauge,
                   ckptVars, storeVars, disturbed>>

NeverBehind(p, t) == FALSE  \* mutant: CheckpointingMode.AT_LEAST_ONCE
\* The barrier of p's source is in the channel to the owner of t.
Behind(p, t) == /\ SplitOwner[p] \in pending.taken
                /\ KeyOwner[t] \notin pending.acked

\* The same with the keyed operator: the row enters the channel to the owner
\* of its tenant, behind the barrier if this source has already emitted it.
ReadToKeyed(p) ==
    /\ keyBy
    /\ \E t \in Tenants :
          /\ Emits(p, t)
          /\ IF Behind(p, t)
             THEN behind' = behind \cup {Next1(p)} /\ UNCHANGED ahead
             ELSE ahead' = ahead \cup {Next1(p)} /\ UNCHANGED behind
    /\ pos' = [pos EXCEPT ![p] = @ + 1]
    /\ UNCHANGED <<log, jobVars, rows, retries, invalid, count, gauge,
                   ckptVars, storeVars, disturbed>>

\* A record on which validation raises fails its task, every time it is read.
ReadRaises(p) ==
    /\ Emits(p, Raising)
    /\ \E S \in Regions(SplitOwner[p]) : FailTasks(S)
    /\ UNCHANGED <<table, copies>>

\* mutant: the gauge follows every tenant
PublishedForAll(t, s, n) == [gauge EXCEPT ![s] = n]
Published(t, s, n) ==
    IF t = HotTenant THEN [gauge EXCEPT ![s] = n] ELSE gauge

\* TenantKeyedStateFunction, and the chain behind it into the JDBC buffer.  A
\* row behind a barrier waits until the barrier is aligned.
CountByTenant(c) ==
    LET t == Kind(c) IN
    /\ Running
    /\ c \in ahead
    /\ retries[SinkOf(c)] = 0
    /\ count' = [count EXCEPT ![t] = @ + 1]
    /\ gauge' = Published(t, SinkOf(c), count[t] + 1)
    /\ ahead' = ahead \ {c}
    /\ rows' = rows \cup {c}
    /\ UNCHANGED <<log, jobVars, pos, behind, retries, invalid,
                   ckptVars, storeVars, disturbed>>

-----------------------------------------------------------------------------
(* The sinks.                                                              *)

RetriesOnce(s) == retries[s] <= MaxRetries  \* mutant: one attempt too many
CanRetry(s) == retries[s] < MaxRetries

Insert(batch) ==
    /\ table' = table \cup batch
    /\ copies' = copies \cup (table \cap batch)

\* A JDBC batch goes out when it is full, when its interval has elapsed or
\* when a checkpoint asks for it: at any time, in the model.
Flush(s) ==
    /\ Running /\ Buffer(s) # {}
    /\ Insert(Buffer(s))
    /\ rows' = rows \ Buffer(s)
    /\ retries' = [retries EXCEPT ![s] = 0]
    /\ UNCHANGED <<log, jobVars, pos, ahead, behind, invalid, count, gauge,
                   ckptVars, dlq, dlqCopies, disturbed>>

\* The batch raises an SQLException, after part of it may have been inserted.
FlushFails(s) ==
    /\ Running /\ Buffer(s) # {}
    /\ CanRetry(s)
    /\ retries' = [retries EXCEPT ![s] = @ + 1]
    /\ \E inserted \in SUBSET Buffer(s) :
          /\ Insert(inserted)
          /\ disturbed' = (disturbed \/ inserted # {})
    /\ UNCHANGED <<log, jobVars, pos, ahead, behind, rows, invalid, count,
                   gauge, ckptVars, dlq, dlqCopies>>

\* The last attempt fails too and the exception fails the task.
FlushGivesUp(s) ==
    /\ Running /\ Buffer(s) # {}
    /\ ~CanRetry(s)
    /\ \E inserted \in SUBSET Buffer(s) : Insert(inserted)
    /\ \E S \in Regions(s) : FailTasks(S)

\* The DLQ sink's Kafka producer delivers one of its envelopes.
DeliverEnvelope(c) ==
    /\ Running /\ c \in invalid
    /\ invalid' = invalid \ {c}
    /\ dlq' = dlq \cup {c}
    /\ dlqCopies' = dlqCopies \cup (dlq \cap {c})
    /\ UNCHANGED <<log, jobVars, pos, ahead, behind, rows, retries, count,
                   gauge, ckptVars, table, copies, disturbed>>

-----------------------------------------------------------------------------
(* Checkpoints and savepoints.                                             *)

NotFlushed(s) == TRUE  \* mutant: a checkpoint does not wait for the flush
\* The JDBC writer flushes before its subtask lets a barrier pass.
Flushed(s) == Buffer(s) = {}

Trigger(kind) ==
    /\ Running /\ pending.kind = "none"
    /\ pending' = [NoPending EXCEPT !.kind = kind]
    /\ UNCHANGED <<log, jobVars, flowVars, ckpt, savepoint, committed,
                   storeVars, disturbed>>

\* The barrier passes the source chain of s: its sinks have flushed, and the
\* positions of its splits are taken.  In the baseline graph the JDBC sink is
\* in that chain and the subtask is done.
SnapshotSource(s) ==
    /\ Running /\ pending.kind # "none" /\ s \notin pending.taken
    /\ Envelopes(s) = {}
    /\ ~keyBy => Flushed(s)
    /\ pending' = [pending EXCEPT
                     !.taken = @ \cup {s},
                     !.acked = IF keyBy THEN @ ELSE @ \cup {s},
                     !.pos = [p \in Partitions |->
                                 IF SplitOwner[p] = s THEN pos[p] ELSE @[p]]]
    /\ UNCHANGED <<log, jobVars, flowVars, ckpt, savepoint, committed,
                   storeVars, disturbed>>

NoneReleased(j) == {}  \* mutant: rows behind the barrier stay blocked
Released(j) == {c \in behind : SinkOf(c) = j}

\* EXACTLY_ONCE alignment at keyed subtask j: the barriers of all sources have
\* arrived, so no row is left ahead of them; the sink has flushed and the
\* counts of j's tenants are taken.  The rows behind the barriers may go on.
SnapshotKeyed(j) ==
    /\ Running /\ keyBy /\ pending.kind # "none"
    /\ pending.taken = Subtasks /\ j \notin pending.acked
    /\ \A c \in ahead : SinkOf(c) # j
    /\ Flushed(j)
    /\ pending' = [pending EXCEPT
                     !.acked = @ \cup {j},
                     !.count = [t \in Tenants |->
                                   IF KeyOwner[t] = j THEN count[t] ELSE @[t]]]
    /\ ahead' = ahead \cup Released(j)
    /\ behind' = behind \ Released(j)
    /\ UNCHANGED <<log, jobVars, pos, rows, retries, invalid, count, gauge,
                   ckpt, savepoint, committed, storeVars, disturbed>>

Taken == [pos |-> pending.pos, count |-> pending.count, base |-> base]

CommitReadPosition(p) == pos[p]  \* mutant: offsets committed as read
CommitPosition(p) == pending.pos[p]

\* On completion the sources commit the snapshot's positions to the consumer
\* group; a commit that fails is only logged.
CommitOffsets ==
    \E S \in SUBSET Subtasks :
        committed' = [p \in Partitions |->
                         IF SplitOwner[p] \in S THEN CommitPosition(p)
                                                ELSE committed[p]]

CompleteCheckpoint ==
    /\ Running /\ pending.kind = "checkpoint" /\ pending.acked = Subtasks
    /\ ckpt' = Taken
    /\ pending' = NoPending
    /\ CommitOffsets
    /\ UNCHANGED <<log, jobVars, flowVars, savepoint, storeVars, disturbed>>

\* flink stop --savepointPath: the job ends with the savepoint.
CompleteSavepoint ==
    /\ Running /\ pending.kind = "savepoint" /\ pending.acked = Subtasks
    /\ savepoint' = [made |-> TRUE, keyed |-> keyBy, snap |-> Taken]
    /\ EndJob("stopped")
    /\ CommitOffsets
    /\ UNCHANGED <<log, ckpt, storeVars, disturbed>>

-----------------------------------------------------------------------------
Read(p) == ReadInvalid(p) \/ ReadToSink(p) \/ ReadToKeyed(p) \/ ReadRaises(p)
FlushAttempt(s) == Flush(s) \/ FlushFails(s) \/ FlushGivesUp(s)
Snapshot(s) == SnapshotSource(s) \/ SnapshotKeyed(s)
Complete == CompleteCheckpoint \/ CompleteSavepoint

Next ==
    \/ \E p \in Partitions, k \in Kinds : Produce(p, k)
    \/ \E mode \in Modes : Submit(mode) \/ Restore(mode)
    \/ Cancel
    \/ Crash
    \/ \E p \in Partitions : Read(p)
    \/ \E c \in Coords : CountByTenant(c) \/ DeliverEnvelope(c)
    \/ \E s \in Subtasks : FlushAttempt(s) \/ Snapshot(s)
    \/ \E kind \in {"checkpoint", "savepoint"} : Trigger(kind)
    \/ Complete

Spec == Init /\ [][Next]_vars

\* Every task thread, sink flush timer and checkpoint barrier keeps moving.
\* Nothing obliges the producer, the operator or a failure to act, and no
\* fairness says that a flush succeeds: only RestartAttempts bounds its errors.
Fairness ==
    /\ \A p \in Partitions : WF_vars(Read(p))
    /\ \A c \in Coords : WF_vars(CountByTenant(c)) /\ WF_vars(DeliverEnvelope(c))
    /\ \A s \in Subtasks : WF_vars(FlushAttempt(s)) /\ WF_vars(Snapshot(s))
    /\ WF_vars(Complete)

FairSpec == Spec /\ Fairness

-----------------------------------------------------------------------------
(* Properties.                                                             *)

Durable(p, n) == \A o \in 1 .. n : <<p, o>> \in table \cup dlq
Appended(c) == c[2] <= Len(log[c[1]])

\* Every variable has its type; at most MaxRetries attempts of a flush fail
\* without failing the task, and at most RestartAttempts restarts happen.
TypeOK ==
    /\ log \in [Partitions -> Seq(Kinds)]
    /\ \A p \in Partitions : Len(log[p]) <= MaxRecords
    /\ status \in {"absent", "running", "failed", "stopped"}
    /\ keyBy \in BOOLEAN /\ disturbed \in BOOLEAN
    /\ restarts \in 0 .. RestartAttempts
    /\ pos \in Offsets /\ base \in Offsets /\ committed \in Offsets
    /\ ahead \subseteq Coords /\ behind \subseteq Coords
    /\ rows \subseteq Coords /\ invalid \subseteq Coords
    /\ retries \in [Subtasks -> 0 .. MaxRetries]
    /\ count \in Counts /\ gauge \in [Subtasks -> Nat]
    /\ pending \in Attempts
    /\ ckpt \in Snapshots
    /\ savepoint \in Savepoints
    /\ table \subseteq Coords /\ copies \subseteq Coords
    /\ dlq \subseteq Coords /\ dlqCopies \subseteq Coords

\* At-least-once delivery of both sinks: a restart never resumes past a record
\* that is in neither ClickHouse nor the DLQ topic.  This is what
\* the flush before the barrier, in whichever subtask the row has reached,
\* must guarantee (docs/ARCHITECTURE.md, "Main JDBC and DLQ Kafka sinks").
AtLeastOnce ==
    \A p \in Partitions : /\ Durable(p, ckpt.pos[p])
                          /\ Durable(p, savepoint.snap.pos[p])

\* Zero consumer lag means everything is stored: no offset committed to the
\* consumer group covers a record that is still in flight or lost, also after
\* restarts and resubmissions (commit.offsets.on.checkpoint in build_source).
CommittedIsDurable == \A p \in Partitions : Durable(p, committed[p])

\* A coordinate is wherever the operators have taken the record: rows carry
\* valid records and envelopes rejected ones, and positions stay in the log.
WellPlaced ==
    /\ \A c \in ahead \cup behind \cup rows : Appended(c) /\ Kind(c) \in Tenants
    /\ \A c \in invalid : Appended(c) /\ Kind(c) = Malformed
    /\ \A p \in Partitions : /\ pos[p] <= Len(log[p])
                             /\ ckpt.pos[p] <= Len(log[p])
                             /\ savepoint.snap.pos[p] <= Len(log[p])
                             /\ pending.pos[p] <= Len(log[p])

\* Only a running job holds anything, only the keyed graph has channels, a
\* keyed subtask takes its part after all sources have, and rows are behind a
\* barrier exactly between its source's part and its owner's.
BarriersInOrder ==
    /\ ~Running => /\ ahead = {} /\ behind = {} /\ rows = {} /\ invalid = {}
                   /\ pending = NoPending
    /\ pending.kind = "none" => pending = NoPending
    /\ ~keyBy => ahead = {} /\ behind = {} /\ pending.acked = pending.taken
    /\ keyBy /\ pending.acked # {} => pending.taken = Subtasks
    /\ \A c \in behind : /\ SplitOwner[c[1]] \in pending.taken
                          /\ KeyOwner[Kind(c)] \notin pending.acked

\* No record that was read gets lost between the source and the sinks.
ReadIsCarried ==
    Running => \A p \in Partitions : \A o \in 1 .. pos[p] :
        <<p, o>> \in table \cup dlq \cup rows \cup invalid \cup ahead \cup behind

\* Every record below a position the pending checkpoint has taken is stored or
\* on its way, ahead of the barrier, to a sink that has not taken its part yet.
SnapshotIsCarried ==
    \A p \in Partitions : SplitOwner[p] \in pending.taken =>
        \A o \in 1 .. pending.pos[p] :
            \/ <<p, o>> \in table \cup dlq
            \/ /\ keyBy /\ <<p, o>> \in rows \cup ahead
               /\ KeyOwner[Kind(<<p, o>>)] \notin pending.acked

\* The inductive invariant behind the at-least-once guarantee: what is read is
\* carried, and what a pending checkpoint has taken is ahead of its barriers.
DeliveryInv == /\ WellPlaced /\ BarriersInOrder
               /\ ReadIsCarried /\ SnapshotIsCarried
               /\ AtLeastOnce /\ CommittedIsDurable

CountsMatch(snap) ==
    \A t \in Tenants :
        snap.count[t] = Cardinality({c \in Coords :
                            /\ snap.base[c[1]] < c[2] /\ c[2] <= snap.pos[c[1]]
                            /\ Kind(c) = t})

\* Exactly-once state: the tenant counts of a snapshot are the numbers of
\* valid records between the position where counting began and the positions
\* of the same snapshot, although source and keyed subtasks take their parts
\* at different moments and a record may be processed several times.
CountsMatchOffsets ==
    /\ keyBy => CountsMatch(ckpt)
    /\ savepoint.keyed => CountsMatch(savepoint.snap)

\* The hot-tenant gauge never contradicts the keyed state it reports: a
\* subtask shows either nothing (it opened since the last hot record) or, on
\* the owner of the hot tenant only, the current count.
HotGaugeIsCurrent ==
    \A s \in Subtasks : Running /\ gauge[s] # 0 =>
        s = KeyOwner[HotTenant] /\ gauge[s] = count[HotTenant]

\* Duplicates have a cause: as long as no task failed, no batch failed half
\* way, no job was cancelled or submitted from the start over stored rows, and
\* no stale savepoint was restored, each record is stored once.  Checkpoints
\* and switching the graph through stop and restore never duplicate.
ReplaysHaveACause == ~disturbed => copies = {} /\ dlqCopies = {}

\* If the job, from some time on, stays up, every record of the topic is in the
\* end in ClickHouse or in the DLQ topic.  Flush errors and crashes do not
\* prevent it, because each of them either stops or uses up the restarts, and
\* neither do barriers, which must not hold a row back forever.
EventuallyDurable ==
    <>[]Running =>
        \A c \in Coords : Appended(c) ~> c \in table \cup dlq

\* The job, whatever its graph and its failures, implements the delivery
\* promise: rows and envelopes are only added, to the right store, and offsets
\* are only committed over records already stored.
Delivery == INSTANCE AtLeastOnceDelivery
                WITH Valid <- Tenants, Rejected <- {Malformed},
                     Unreadable <- {Raising}
DeliverySpec == Delivery!Spec
=============================================================================
