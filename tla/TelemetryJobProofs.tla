------------------------- MODULE TelemetryJobProofs -------------------------
(* Proofs of the safety properties of TelemetryJob. *)
EXTENDS TelemetryJob, FiniteSetTheorems, TLAPS

-----------------------------------------------------------------------------
(* Types.                                                                  *)

LEMMA EmptyTypes ==
    /\ AtStart \in Offsets /\ NoCounts \in Counts
    /\ EmptySnapshot \in Snapshots
    /\ NoPending \in Attempts
    /\ NoSavepoint \in Savepoints
<1>1. AtStart \in Offsets /\ NoCounts \in Counts
  BY DEF AtStart, NoCounts, Offsets, Counts
<1>2. EmptySnapshot \in Snapshots
  BY <1>1 DEF EmptySnapshot, Snapshots
<1> QED
  BY <1>1, <1>2 DEF NoPending, NoSavepoint, Attempts, Savepoints

LEMMA InitTypeOK == Init => TypeOK
<1> SUFFICES ASSUME Init PROVE TypeOK
  OBVIOUS
<1>1. /\ log \in [Partitions -> Seq(Kinds)]
      /\ \A p \in Partitions : Len(log[p]) <= MaxRecords
  BY LimitsAssumption DEF Init
<1>2. restarts \in 0 .. RestartAttempts /\ retries \in [Subtasks -> 0 .. MaxRetries]
  BY LimitsAssumption DEF Init
<1>3. gauge \in [Subtasks -> Nat]
  BY DEF Init
<1> QED
  BY <1>1, <1>2, <1>3, EmptyTypes DEF Init, TypeOK

LEMMA FailTasksTypeOK ==
    ASSUME TypeOK, NEW S \in SUBSET Subtasks, FailTasks(S),
           table' \subseteq Coords, copies' \subseteq Coords
    PROVE  TypeOK'
<1>1. CASE RestartTasks(S)
  <2>1. ckpt.pos \in Offsets /\ ckpt.count \in Counts
    BY DEF TypeOK, Snapshots
  <2>2. pos' \in Offsets
    BY <1>1, <2>1 DEF TypeOK, Offsets, RestartTasks
  <2>3. count' \in Counts
    BY <1>1, <2>1 DEF TypeOK, RestartTasks
  <2>4. retries' \in [Subtasks -> 0 .. MaxRetries] /\ gauge' \in [Subtasks -> Nat]
    BY <1>1, LimitsAssumption DEF TypeOK, RestartTasks
  <2>5. restarts' \in 0 .. RestartAttempts
    BY <1>1, LimitsAssumption DEF TypeOK, RestartTasks
  <2> QED
    BY <1>1, <2>2, <2>3, <2>4, <2>5, EmptyTypes DEF TypeOK, FailTasks, RestartTasks
<1>2. CASE EndJob("failed")
  <2>1. retries' \in [Subtasks -> 0 .. MaxRetries]
    BY <1>2, LimitsAssumption DEF EndJob
  <2> QED
    BY <1>2, <2>1, EmptyTypes DEF TypeOK, FailTasks, EndJob
<1> QED
  BY <1>1, <1>2 DEF FailTasks

LEMMA StartFromTypeOK ==
    ASSUME TypeOK, NEW snap \in Snapshots, NEW mode \in BOOLEAN,
           StartFrom(snap, mode), disturbed' \in BOOLEAN,
           UNCHANGED <<log, savepoint, committed, storeVars>>
    PROVE  TypeOK'
<1>1. snap.pos \in Offsets /\ snap.count \in Counts /\ snap.base \in Offsets
  BY DEF Snapshots
<1>2. /\ retries' \in [Subtasks -> 0 .. MaxRetries]
      /\ gauge' \in [Subtasks -> Nat]
      /\ restarts' \in 0 .. RestartAttempts
  BY LimitsAssumption DEF StartFrom
<1> QED
  BY <1>1, <1>2, EmptyTypes DEF TypeOK, StartFrom, storeVars

LEMMA Next1InCoords ==
    ASSUME TypeOK, NEW p \in Partitions, pos[p] < Len(log[p])
    PROVE  /\ Next1(p) \in Coords
           /\ pos[p] + 1 \in 1 .. Len(log[p])
           /\ [pos EXCEPT ![p] = @ + 1] \in Offsets
<1>1. pos[p] \in Nat /\ Len(log[p]) \in Nat /\ Len(log[p]) <= MaxRecords
  BY DEF TypeOK, Offsets
<1>2. pos[p] + 1 \in 1 .. MaxRecords
  BY <1>1, LimitsAssumption
<1> QED
  BY <1>1, <1>2 DEF Next1, Coords, TypeOK, Offsets

LEMMA RegionsAreSubtasks ==
    ASSUME NEW s, NEW S \in Regions(s) PROVE S \in SUBSET Subtasks
BY DEF Regions

LEMMA NextTypeOK == TypeOK /\ [Next]_vars => TypeOK'
<1> SUFFICES ASSUME TypeOK, [Next]_vars PROVE TypeOK'
  OBVIOUS
<1> USE DEF jobVars, flowVars, ckptVars, storeVars
<1>1. ASSUME NEW p \in Partitions, NEW k \in Kinds, Produce(p, k) PROVE TypeOK'
  <2>1. log' \in [Partitions -> Seq(Kinds)]
    BY <1>1 DEF Produce, TypeOK
  <2>2. \A q \in Partitions : Len(log'[q]) <= MaxRecords
    BY <1>1, LimitsAssumption DEF Produce, TypeOK
  <2> QED
    BY <1>1, <2>1, <2>2 DEF Produce, TypeOK
<1>2. ASSUME NEW mode \in Modes, Submit(mode) PROVE TypeOK'
  BY <1>2, StartFromTypeOK, EmptyTypes, ModesAssumption DEF Submit, TypeOK
<1>3. ASSUME NEW mode \in Modes, Restore(mode) PROVE TypeOK'
  <2>1. savepoint.snap \in Snapshots
    BY DEF TypeOK, Savepoints
  <2>2. [savepoint.snap EXCEPT !.count = NoCounts,
                               !.base = savepoint.snap.pos] \in Snapshots
    BY <2>1, EmptyTypes DEF Snapshots
  <2> QED
    BY <1>3, <2>1, <2>2, StartFromTypeOK, ModesAssumption DEF Restore, TypeOK
<1>4. CASE Cancel
  <2>1. retries' \in [Subtasks -> 0 .. MaxRetries]
    BY <1>4, LimitsAssumption DEF Cancel, EndJob
  <2> QED
    BY <1>4, <2>1, EmptyTypes DEF Cancel, EndJob, TypeOK
<1>5. CASE Crash
  <2>1. PICK s \in Subtasks : \E S \in Regions(s) : FailTasks(S)
    BY <1>5 DEF Crash
  <2>2. PICK S \in Regions(s) : FailTasks(S)
    BY <2>1
  <2>3. table' \subseteq Coords /\ copies' \subseteq Coords
    BY <1>5 DEF Crash, TypeOK
  <2> QED
    BY <2>2, <2>3, FailTasksTypeOK, RegionsAreSubtasks
<1>6. ASSUME NEW p \in Partitions, ReadInvalid(p) PROVE TypeOK'
  BY <1>6, Next1InCoords DEF ReadInvalid, Emits, TypeOK
<1>7. ASSUME NEW p \in Partitions, ReadToSink(p) PROVE TypeOK'
  BY <1>7, Next1InCoords DEF ReadToSink, Emits, TypeOK
<1>8. ASSUME NEW p \in Partitions, ReadToKeyed(p) PROVE TypeOK'
  <2>1. pos[p] < Len(log[p])
    BY <1>8 DEF ReadToKeyed, Emits
  <2>2. ahead' \subseteq Coords /\ behind' \subseteq Coords
    <3>1. PICK t \in Tenants :
             IF Behind(p, t)
             THEN behind' = behind \cup {Next1(p)} /\ UNCHANGED ahead
             ELSE ahead' = ahead \cup {Next1(p)} /\ UNCHANGED behind
      BY <1>8 DEF ReadToKeyed
    <3> QED
      <4>1. Next1(p) \in Coords
        BY <2>1, Next1InCoords
      <4>2. CASE Behind(p, t)
        BY <3>1, <4>1, <4>2 DEF TypeOK
      <4>3. CASE ~Behind(p, t)
        BY <3>1, <4>1, <4>3 DEF TypeOK
      <4> QED
        BY <4>2, <4>3
  <2> QED
    BY <1>8, <2>1, <2>2, Next1InCoords DEF ReadToKeyed, TypeOK
<1>9. ASSUME NEW p \in Partitions, ReadRaises(p) PROVE TypeOK'
  <2>1. PICK S \in Regions(SplitOwner[p]) : FailTasks(S)
    BY <1>9 DEF ReadRaises
  <2>2. table' \subseteq Coords /\ copies' \subseteq Coords
    BY <1>9 DEF ReadRaises, TypeOK
  <2> QED
    BY <2>1, <2>2, FailTasksTypeOK, RegionsAreSubtasks
<1>10. ASSUME NEW c \in Coords, CountByTenant(c) PROVE TypeOK'
  <2>1. count \in [Tenants -> Nat] /\ gauge \in [Subtasks -> Nat]
    BY DEF TypeOK, Counts
  <2>2. count' = [count EXCEPT ![Kind(c)] = @ + 1]
    BY <1>10 DEF CountByTenant
  <2>3. count' \in Counts
    <3>1. \A t \in Tenants : count'[t] \in Nat
      BY <2>1, <2>2
    <3> QED
      BY <2>1, <2>2, <3>1 DEF Counts
  <2>4. gauge' = Published(Kind(c), SinkOf(c), count[Kind(c)] + 1)
    BY <1>10 DEF CountByTenant
  <2>5. gauge' \in [Subtasks -> Nat]
    <3>1. CASE Kind(c) = HotTenant
      <4>1. count[Kind(c)] + 1 \in Nat
        BY <2>1, <3>1, HotTenantAssumption
      <4> QED
        BY <2>1, <2>4, <3>1, <4>1 DEF Published
    <3>2. CASE Kind(c) # HotTenant
      BY <2>1, <2>4, <3>2 DEF Published
    <3> QED
      BY <3>1, <3>2
  <2> QED
    BY <1>10, <2>3, <2>5 DEF CountByTenant, TypeOK
<1>11. ASSUME NEW c \in Coords, DeliverEnvelope(c) PROVE TypeOK'
  BY <1>11 DEF DeliverEnvelope, TypeOK
<1>12. ASSUME NEW s \in Subtasks, Flush(s) PROVE TypeOK'
  <2>1. Buffer(s) \subseteq Coords
    BY DEF Buffer, TypeOK
  <2>2. retries' \in [Subtasks -> 0 .. MaxRetries]
    BY <1>12, LimitsAssumption DEF Flush, TypeOK
  <2> QED
    BY <1>12, <2>1, <2>2 DEF Flush, Insert, TypeOK
<1>13. ASSUME NEW s \in Subtasks, FlushFails(s) PROVE TypeOK'
  <2>1. PICK inserted \in SUBSET Buffer(s) :
           Insert(inserted) /\ disturbed' = (disturbed \/ inserted # {})
    BY <1>13 DEF FlushFails
  <2>2. inserted \subseteq Coords
    BY DEF Buffer, TypeOK
  <2>3. retries' \in [Subtasks -> 0 .. MaxRetries]
    BY <1>13, LimitsAssumption DEF FlushFails, CanRetry, TypeOK
  <2> QED
    BY <1>13, <2>1, <2>2, <2>3 DEF FlushFails, Insert, TypeOK
<1>14. ASSUME NEW s \in Subtasks, FlushGivesUp(s) PROVE TypeOK'
  <2>1. PICK inserted \in SUBSET Buffer(s) : Insert(inserted)
    BY <1>14 DEF FlushGivesUp
  <2>2. table' \subseteq Coords /\ copies' \subseteq Coords
    BY <2>1 DEF Buffer, Insert, TypeOK
  <2>3. PICK S \in Regions(s) : FailTasks(S)
    BY <1>14 DEF FlushGivesUp
  <2> QED
    BY <2>2, <2>3, FailTasksTypeOK, RegionsAreSubtasks
<1>15. ASSUME NEW s \in Subtasks, SnapshotSource(s) PROVE TypeOK'
  <2>1. pending' \in Attempts
    BY <1>15 DEF SnapshotSource, TypeOK, Attempts, Offsets
  <2> QED
    BY <1>15, <2>1 DEF SnapshotSource, TypeOK
<1>16. ASSUME NEW s \in Subtasks, SnapshotKeyed(s) PROVE TypeOK'
  <2>1. pending' \in Attempts
    BY <1>16 DEF SnapshotKeyed, TypeOK, Attempts, Counts
  <2>2. ahead' \subseteq Coords /\ behind' \subseteq Coords
    BY <1>16 DEF SnapshotKeyed, Released, TypeOK
  <2> QED
    BY <1>16, <2>1, <2>2 DEF SnapshotKeyed, TypeOK
<1>17. ASSUME NEW kind \in {"checkpoint", "savepoint"}, Trigger(kind) PROVE TypeOK'
  <2>1. pending' \in Attempts
    BY <1>17, EmptyTypes DEF Trigger, Attempts
  <2> QED
    BY <1>17, <2>1 DEF Trigger, TypeOK
<1>18. ASSUME CommitOffsets PROVE committed' \in Offsets
  BY <1>18 DEF CommitOffsets, CommitPosition, TypeOK, Attempts, Offsets
<1>19. Taken \in Snapshots
  BY DEF Taken, TypeOK, Attempts, Snapshots
<1>20. CASE CompleteCheckpoint
  BY <1>18, <1>19, <1>20, EmptyTypes DEF CompleteCheckpoint, TypeOK
<1>21. CASE CompleteSavepoint
  <2>1. savepoint' \in Savepoints
    BY <1>19, <1>21 DEF CompleteSavepoint, TypeOK, Savepoints
  <2>2. retries' \in [Subtasks -> 0 .. MaxRetries]
    BY <1>21, LimitsAssumption DEF CompleteSavepoint, EndJob
  <2> QED
    BY <1>18, <1>21, <2>1, <2>2, EmptyTypes DEF CompleteSavepoint, EndJob, TypeOK
<1>22. CASE UNCHANGED vars
  BY <1>22 DEF vars, TypeOK
<1> QED
  BY <1>1, <1>2, <1>3, <1>4, <1>5, <1>6, <1>7, <1>8, <1>9, <1>10, <1>11, <1>12,
     <1>13, <1>14, <1>15, <1>16, <1>17, <1>20, <1>21, <1>22
  DEF Next, Read, FlushAttempt, Snapshot, Complete

\* Type correctness of the streaming job, its retry counters and its restart
\* counter within their limits (docker-compose.yml and build_clickhouse_sink),
\* for every number of partitions, subtasks, tenants and records.
THEOREM TypeCorrect == Spec => []TypeOK
BY InitTypeOK, NextTypeOK, PTL DEF Spec
-----------------------------------------------------------------------------
(* At-least-once delivery.                                                 *)

LEMMA InitDeliveryInv == Init => DeliveryInv
<1> SUFFICES ASSUME Init PROVE DeliveryInv
  OBVIOUS
<1>1. WellPlaced
  BY DEF Init, WellPlaced, AtStart, NoSavepoint, EmptySnapshot, NoPending
<1>2. BarriersInOrder
  BY DEF Init, BarriersInOrder, NoPending
<1>3. ReadIsCarried /\ SnapshotIsCarried
  BY DEF Init, ReadIsCarried, SnapshotIsCarried, Running, NoPending
<1>4. AtLeastOnce /\ CommittedIsDurable
  BY DEF Init, AtLeastOnce, CommittedIsDurable, Durable, AtStart,
         NoSavepoint, EmptySnapshot
<1> QED
  BY <1>1, <1>2, <1>3, <1>4 DEF DeliveryInv

\* The stores only grow: what was durable remains so.
LEMMA StoresGrow ==
    ASSUME AtLeastOnce, CommittedIsDurable,
           table \subseteq table', dlq \subseteq dlq',
           UNCHANGED <<ckpt, savepoint, committed>>
    PROVE  AtLeastOnce' /\ CommittedIsDurable'
BY DEF AtLeastOnce, CommittedIsDurable, Durable

\* An ended job holds nothing, so nothing can be lost with it.
LEMMA EndJobInv ==
    ASSUME TypeOK, DeliveryInv, NEW how \in {"absent", "failed", "stopped"},
           EndJob(how), UNCHANGED log,
           \A p \in Partitions : ckpt'.pos[p] <= Len(log[p]),
           \A p \in Partitions : savepoint'.snap.pos[p] <= Len(log[p]),
           AtLeastOnce', CommittedIsDurable'
    PROVE  DeliveryInv'
<1>1. WellPlaced'
  BY DEF DeliveryInv, WellPlaced, EndJob, NoPending, AtStart, TypeOK
<1>2. BarriersInOrder'
  BY DEF BarriersInOrder, EndJob, NoPending
<1>3. ReadIsCarried' /\ SnapshotIsCarried'
  BY DEF ReadIsCarried, SnapshotIsCarried, EndJob, NoPending, Running
<1> QED
  BY <1>1, <1>2, <1>3 DEF DeliveryInv

\* A job that starts from positions below which all is durable.
LEMMA StartFromInv ==
    ASSUME TypeOK, DeliveryInv, NEW snap \in Snapshots, NEW mode,
           \A p \in Partitions : Durable(p, snap.pos[p]),
           \A p \in Partitions : snap.pos[p] <= Len(log[p]),
           StartFrom(snap, mode),
           UNCHANGED <<log, savepoint, committed, storeVars>>
    PROVE  DeliveryInv'
<1>1. WellPlaced'
  BY DEF DeliveryInv, WellPlaced, StartFrom, NoPending, AtStart, TypeOK
<1>2. BarriersInOrder'
  BY DEF BarriersInOrder, StartFrom, NoPending
<1>3. ReadIsCarried' /\ SnapshotIsCarried'
  BY DEF ReadIsCarried, SnapshotIsCarried, StartFrom, NoPending, Durable, storeVars
<1>4. AtLeastOnce' /\ CommittedIsDurable'
  BY DEF DeliveryInv, AtLeastOnce, CommittedIsDurable, Durable, StartFrom, storeVars
<1> QED
  BY <1>1, <1>2, <1>3, <1>4 DEF DeliveryInv

\* Failing tasks go back to the checkpoint, below which all is durable; the
\* records of the other chains stay where they are.
LEMMA FailTasksInv ==
    ASSUME TypeOK, DeliveryInv, Running,
           NEW S \in SUBSET Subtasks, keyBy => S = Subtasks, FailTasks(S),
           table \subseteq table'
    PROVE  DeliveryInv'
<1>1. AtLeastOnce' /\ CommittedIsDurable'
  BY StoresGrow DEF DeliveryInv, FailTasks
<1>2. CASE EndJob("failed")
  BY <1>1, <1>2, EndJobInv DEF DeliveryInv, WellPlaced, FailTasks
<1>3. CASE RestartTasks(S)
  <2>1. WellPlaced'
    BY <1>3 DEF DeliveryInv, WellPlaced, RestartTasks, FailTasks, NoPending,
                AtStart, Appended, Kind, TypeOK
  <2>2. BarriersInOrder'
    BY <1>3 DEF BarriersInOrder, RestartTasks, NoPending, Running
  <2>3. SnapshotIsCarried'
    BY <1>3 DEF SnapshotIsCarried, RestartTasks, NoPending
  <2>4. ReadIsCarried'
    <3> SUFFICES ASSUME NEW p \in Partitions, NEW o \in 1 .. pos'[p]
                 PROVE  <<p, o>> \in table' \cup dlq' \cup rows' \cup invalid'
      BY DEF ReadIsCarried
    <3>1. CASE SplitOwner[p] \in S
      <4>1. o \in 1 .. ckpt.pos[p]
        BY <1>3, <3>1 DEF RestartTasks
      <4> QED
        BY <1>1, <4>1 DEF AtLeastOnce, Durable, FailTasks
    <3>2. CASE SplitOwner[p] \notin S
      <4>1. ~keyBy
        BY <3>2, OwnersAssumption
      <4>2. o \in 1 .. pos[p]
        BY <1>3, <3>2 DEF RestartTasks
      <4>3. <<p, o>> \in table \cup dlq \cup rows \cup invalid
        BY <4>1, <4>2 DEF DeliveryInv, ReadIsCarried, BarriersInOrder
      <4> QED
        BY <1>3, <3>2, <4>1, <4>3 DEF RestartTasks, FailTasks, SinkOf
    <3> QED
      BY <3>1, <3>2
  <2> QED
    BY <1>1, <2>1, <2>2, <2>3, <2>4 DEF DeliveryInv
<1> QED
  BY <1>2, <1>3 DEF FailTasks

\* A step that leaves log, keyBy, status and the snapshots alone preserves the
\* durable part; what remains is to place and carry the records it moves.
LEMMA NextDeliveryInv == TypeOK /\ DeliveryInv /\ [Next]_vars => DeliveryInv'
<1> SUFFICES ASSUME TypeOK, DeliveryInv, [Next]_vars PROVE DeliveryInv'
  OBVIOUS
<1> USE DEF jobVars, flowVars, ckptVars, storeVars
<1>a. /\ WellPlaced /\ BarriersInOrder /\ ReadIsCarried
      /\ SnapshotIsCarried /\ AtLeastOnce /\ CommittedIsDurable
  BY DEF DeliveryInv
<1>b. /\ \A c \in ahead \cup behind \cup rows \cup invalid : c \in Coords
      /\ keyBy \in BOOLEAN
  BY DEF TypeOK
<1>1. ASSUME NEW p \in Partitions, NEW k \in Kinds, Produce(p, k) PROVE DeliveryInv'
  <2>1. \A q \in Partitions : /\ Len(log'[q]) >= Len(log[q])
                              /\ \A i \in 1 .. Len(log[q]) : log'[q][i] = log[q][i]
    BY <1>1 DEF Produce, TypeOK
  <2>2. \A c \in Coords : Appended(c) => Appended(c)' /\ Kind(c)' = Kind(c)
    <3> SUFFICES ASSUME NEW c \in Coords, Appended(c)
                 PROVE  Appended(c)' /\ Kind(c)' = Kind(c)
      OBVIOUS
    <3>1. c[1] \in Partitions /\ c[2] \in 1 .. Len(log[c[1]])
      BY DEF Coords, Appended, TypeOK
    <3> QED
      BY <2>1, <3>1 DEF Appended, Kind, TypeOK
  <2>3. WellPlaced'
    <3>1. \A q \in Partitions :
             /\ Len(log[q]) \in Nat /\ Len(log'[q]) \in Nat
             /\ pos[q] \in Nat /\ ckpt.pos[q] \in Nat
             /\ savepoint.snap.pos[q] \in Nat /\ pending.pos[q] \in Nat
      <4>1. /\ pos \in [Partitions -> Nat] /\ ckpt.pos \in [Partitions -> Nat]
            /\ savepoint.snap.pos \in [Partitions -> Nat]
            /\ pending.pos \in [Partitions -> Nat]
        BY DEF TypeOK, Offsets, Snapshots, Savepoints, Attempts
      <4>2. log \in [Partitions -> Seq(Kinds)] /\ log' \in [Partitions -> Seq(Kinds)]
        BY <1>1 DEF Produce, TypeOK
      <4> QED
        BY <4>1, <4>2
    <3>2. \A q \in Partitions : /\ pos[q] <= Len(log'[q])
                                /\ ckpt.pos[q] <= Len(log'[q])
                                /\ savepoint.snap.pos[q] <= Len(log'[q])
                                /\ pending.pos[q] <= Len(log'[q])
      BY <1>a, <2>1, <3>1 DEF WellPlaced
    <3> QED
      BY <1>1, <1>a, <1>b, <2>2, <3>2 DEF WellPlaced, Produce
  <2>4. BarriersInOrder'
    BY <1>1, <1>a, <1>b, <2>2 DEF BarriersInOrder, WellPlaced, Produce, Running
  <2>5. ReadIsCarried'
    BY <1>1, <1>a DEF ReadIsCarried, Produce, Running
  <2>6. SnapshotIsCarried'
    BY <1>1, <1>a, <1>b, <2>2 DEF SnapshotIsCarried, WellPlaced, Produce
  <2> QED
    BY <1>1, <1>a, <2>3, <2>4, <2>5, <2>6, StoresGrow DEF DeliveryInv, Produce
<1>2. ASSUME NEW mode \in Modes, Submit(mode) PROVE DeliveryInv'
  <2>1. \A p \in Partitions : /\ Durable(p, EmptySnapshot.pos[p])
                              /\ EmptySnapshot.pos[p] <= Len(log[p])
    BY DEF EmptySnapshot, AtStart, Durable, TypeOK
  <2> QED
    BY <1>2, <2>1, StartFromInv, EmptyTypes DEF Submit
<1>3. ASSUME NEW mode \in Modes, Restore(mode) PROVE DeliveryInv'
  <2> DEFINE snap == IF mode /\ savepoint.keyed THEN savepoint.snap
                     ELSE [savepoint.snap EXCEPT !.count = NoCounts,
                                                 !.base = savepoint.snap.pos]
  <2>1. savepoint.snap \in Snapshots
    BY DEF TypeOK, Savepoints
  <2>2. snap \in Snapshots /\ snap.pos = savepoint.snap.pos
    BY <2>1, EmptyTypes DEF Snapshots
  <2>3. \A p \in Partitions : /\ Durable(p, snap.pos[p])
                              /\ snap.pos[p] <= Len(log[p])
    BY <1>a, <2>2 DEF AtLeastOnce, WellPlaced
  <2>4. StartFrom(snap, mode)
    BY <1>3 DEF Restore
  <2> HIDE DEF snap
  <2> QED
    BY <1>3, <2>2, <2>3, <2>4, StartFromInv DEF Restore
<1>4. CASE Cancel
  BY <1>4, <1>a, EndJobInv, StoresGrow DEF Cancel, WellPlaced
<1>c. ASSUME NEW s, NEW S \in Regions(s) PROVE keyBy => S = Subtasks
  BY <1>c DEF Regions
<1>5. CASE Crash
  <2>1. PICK s \in Subtasks : \E S \in Regions(s) : FailTasks(S)
    BY <1>5 DEF Crash
  <2>2. PICK S \in Regions(s) : FailTasks(S)
    BY <2>1
  <2> QED
    BY <1>5, <1>c, <2>2, FailTasksInv, RegionsAreSubtasks DEF Crash
<1>9. ASSUME NEW p \in Partitions, ReadRaises(p) PROVE DeliveryInv'
  <2>1. PICK S \in Regions(SplitOwner[p]) : FailTasks(S)
    BY <1>9 DEF ReadRaises
  <2> QED
    BY <1>9, <1>c, <2>1, FailTasksInv, RegionsAreSubtasks DEF ReadRaises, Emits
<1>14. ASSUME NEW s \in Subtasks, FlushGivesUp(s) PROVE DeliveryInv'
  <2>1. table \subseteq table'
    BY <1>14 DEF FlushGivesUp, Insert
  <2>2. PICK S \in Regions(s) : FailTasks(S)
    BY <1>14 DEF FlushGivesUp
  <2> QED
    BY <1>14, <1>c, <2>1, <2>2, FailTasksInv, RegionsAreSubtasks DEF FlushGivesUp
\* Reading.
<1>d. ASSUME NEW p \in Partitions, NEW k \in Kinds, Emits(p, k)
      PROVE  /\ Next1(p) \in Coords
             /\ Appended(Next1(p)) /\ Kind(Next1(p)) = k
             /\ pos[p] + 1 <= Len(log[p])
             /\ \A o \in 1 .. pos[p] + 1 : o \in 1 .. pos[p] \/ <<p, o>> = Next1(p)
  <2>1. pos[p] \in Nat /\ pos[p] < Len(log[p])
    BY <1>d DEF Emits, TypeOK, Offsets
  <2>2. Next1(p)[1] = p /\ Next1(p)[2] = pos[p] + 1
    BY DEF Next1
  <2>3. /\ Next1(p) \in Coords /\ pos[p] + 1 \in 1 .. Len(log[p])
    BY <2>1, Next1InCoords
  <2>4. Appended(Next1(p)) /\ Kind(Next1(p)) = k
    BY <1>d, <2>2, <2>3 DEF Emits, Appended, Kind
  <2>5. \A o \in 1 .. pos[p] + 1 : o \in 1 .. pos[p] \/ o = pos[p] + 1
    BY <2>1
  <2> QED
    BY <2>3, <2>4, <2>5 DEF Next1
<1>e. ASSUME NEW p \in Partitions, pos' = [pos EXCEPT ![p] = @ + 1]
      PROVE  \A q \in Partitions : pos'[q] = IF q = p THEN pos[p] + 1 ELSE pos[q]
  BY <1>e DEF TypeOK, Offsets
<1>6. ASSUME NEW p \in Partitions, ReadInvalid(p) PROVE DeliveryInv'
  <2>1. Emits(p, Malformed) /\ Malformed \in Kinds
    BY <1>6 DEF ReadInvalid, Kinds
  <2>2. WellPlaced'
    BY <1>6, <1>a, <1>d, <1>e, <2>1 DEF WellPlaced, ReadInvalid, Appended, Kind
  <2>3. BarriersInOrder'
    BY <1>6, <1>a, <2>1 DEF BarriersInOrder, ReadInvalid, Emits, Running, Kind
  <2>4. ReadIsCarried'
    BY <1>6, <1>a, <1>d, <1>e, <2>1 DEF ReadIsCarried, ReadInvalid, Running
  <2>5. SnapshotIsCarried'
    BY <1>6, <1>a DEF SnapshotIsCarried, ReadInvalid, Kind
  <2> QED
    BY <1>6, <1>a, <2>2, <2>3, <2>4, <2>5, StoresGrow DEF DeliveryInv, ReadInvalid
<1>7. ASSUME NEW p \in Partitions, ReadToSink(p) PROVE DeliveryInv'
  <2>1. PICK t \in Tenants : Emits(p, t)
    BY <1>7 DEF ReadToSink
  <2>2. t \in Kinds
    BY DEF Kinds
  <2>3. WellPlaced'
    BY <1>7, <1>a, <1>d, <1>e, <2>1, <2>2 DEF WellPlaced, ReadToSink, Appended, Kind
  <2>4. BarriersInOrder'
    BY <1>7, <1>a, <2>1 DEF BarriersInOrder, ReadToSink, Emits, Running, Kind
  <2>5. ReadIsCarried'
    BY <1>7, <1>a, <1>d, <1>e, <2>1, <2>2 DEF ReadIsCarried, ReadToSink, Running
  <2>6. SnapshotIsCarried'
    BY <1>7, <1>a DEF SnapshotIsCarried, ReadToSink, Kind
  <2> QED
    BY <1>7, <1>a, <2>3, <2>4, <2>5, <2>6, StoresGrow DEF DeliveryInv, ReadToSink
<1>8. ASSUME NEW p \in Partitions, ReadToKeyed(p) PROVE DeliveryInv'
  <2>1. PICK t \in Tenants :
           /\ Emits(p, t)
           /\ IF Behind(p, t)
              THEN behind' = behind \cup {Next1(p)} /\ UNCHANGED ahead
              ELSE ahead' = ahead \cup {Next1(p)} /\ UNCHANGED behind
    BY <1>8 DEF ReadToKeyed
  <2>2. t \in Kinds
    BY DEF Kinds
  <2>3. /\ Next1(p) \in Coords /\ Appended(Next1(p)) /\ Kind(Next1(p)) = t
        /\ ahead \subseteq ahead' /\ behind \subseteq behind'
        /\ Next1(p) \in ahead' \cup behind'
        /\ \A c \in ahead' \cup behind' : c \in ahead \cup behind \/ c = Next1(p)
        /\ \A c \in behind' : c \in behind \/ (c = Next1(p) /\ Behind(p, t))
    <3>1. Next1(p) \in Coords /\ Appended(Next1(p)) /\ Kind(Next1(p)) = t
      BY <1>d, <2>1, <2>2
    <3>2. CASE Behind(p, t)
      BY <2>1, <3>1, <3>2
    <3>3. CASE ~Behind(p, t)
      <4>1. ahead' = ahead \cup {Next1(p)} /\ behind' = behind
        BY <2>1, <3>3
      <4> QED
        BY <3>1, <4>1
    <3> QED
      BY <3>2, <3>3
  <2>4. WellPlaced'
    BY <1>8, <1>a, <1>d, <1>e, <2>1, <2>2, <2>3
    DEF WellPlaced, ReadToKeyed, Appended, Kind
  <2>5. BarriersInOrder'
    BY <1>8, <1>a, <2>1, <2>3
    DEF BarriersInOrder, ReadToKeyed, Emits, Running, Kind, Behind, Next1
  <2>6. ReadIsCarried'
    <3>1. \A o \in 1 .. pos[p] + 1 : o \in 1 .. pos[p] \/ <<p, o>> = Next1(p)
      BY <1>d, <2>1, <2>2
    <3>2. \A q \in Partitions : pos'[q] = IF q = p THEN pos[p] + 1 ELSE pos[q]
      BY <1>8, <1>e DEF ReadToKeyed
    <3>3. Running /\ UNCHANGED <<table, dlq, rows, invalid, status>>
      BY <1>8, <2>1 DEF ReadToKeyed, Emits
    <3> QED
      BY <1>a, <2>3, <3>1, <3>2, <3>3 DEF ReadIsCarried
  <2>7. SnapshotIsCarried'
    BY <1>8, <1>a, <2>3 DEF SnapshotIsCarried, ReadToKeyed, Kind
  <2> QED
    BY <1>8, <1>a, <2>4, <2>5, <2>6, <2>7, StoresGrow DEF DeliveryInv, ReadToKeyed
<1>10. ASSUME NEW c \in Coords, CountByTenant(c) PROVE DeliveryInv'
  <2>1. WellPlaced'
    BY <1>10, <1>a DEF WellPlaced, CountByTenant, Appended, Kind
  <2>2. BarriersInOrder'
    BY <1>10, <1>a DEF BarriersInOrder, CountByTenant, Running, Kind
  <2>3. ReadIsCarried'
    BY <1>10, <1>a DEF ReadIsCarried, CountByTenant, Running
  <2>4. SnapshotIsCarried'
    BY <1>10, <1>a DEF SnapshotIsCarried, CountByTenant, Kind
  <2> QED
    BY <1>10, <1>a, <2>1, <2>2, <2>3, <2>4, StoresGrow DEF DeliveryInv, CountByTenant
\* Storing.
<1>11. ASSUME NEW c \in Coords, DeliverEnvelope(c) PROVE DeliveryInv'
  <2>1. WellPlaced'
    BY <1>11, <1>a DEF WellPlaced, DeliverEnvelope, Appended, Kind
  <2>2. BarriersInOrder'
    BY <1>11, <1>a DEF BarriersInOrder, DeliverEnvelope, Running, Kind
  <2>3. ReadIsCarried'
    BY <1>11, <1>a DEF ReadIsCarried, DeliverEnvelope, Running
  <2>4. SnapshotIsCarried'
    BY <1>11, <1>a DEF SnapshotIsCarried, DeliverEnvelope, Kind
  <2> QED
    BY <1>11, <1>a, <2>1, <2>2, <2>3, <2>4, StoresGrow DEF DeliveryInv, DeliverEnvelope
<1>12. ASSUME NEW s \in Subtasks, Flush(s) PROVE DeliveryInv'
  <2>1. table' = table \cup Buffer(s) /\ rows' = rows \ Buffer(s)
    BY <1>12 DEF Flush, Insert
  <2>2. WellPlaced'
    BY <1>12, <1>a, <2>1 DEF WellPlaced, Flush, Appended, Kind
  <2>3. BarriersInOrder'
    BY <1>12, <1>a, <2>1 DEF BarriersInOrder, Flush, Running, Kind
  <2>4. ReadIsCarried'
    BY <1>12, <1>a, <2>1 DEF ReadIsCarried, Flush, Running
  <2>5. SnapshotIsCarried'
    BY <1>12, <1>a, <2>1 DEF SnapshotIsCarried, Flush, Kind
  <2> QED
    BY <1>12, <1>a, <2>1, <2>2, <2>3, <2>4, <2>5, StoresGrow DEF DeliveryInv, Flush
<1>13. ASSUME NEW s \in Subtasks, FlushFails(s) PROVE DeliveryInv'
  <2>1. table \subseteq table'
    BY <1>13 DEF FlushFails, Insert
  <2>2. WellPlaced'
    BY <1>13, <1>a DEF WellPlaced, FlushFails, Appended, Kind
  <2>3. BarriersInOrder'
    BY <1>13, <1>a DEF BarriersInOrder, FlushFails, Running, Kind
  <2>4. ReadIsCarried'
    BY <1>13, <1>a, <2>1 DEF ReadIsCarried, FlushFails, Running
  <2>5. SnapshotIsCarried'
    BY <1>13, <1>a, <2>1 DEF SnapshotIsCarried, FlushFails, Kind
  <2> QED
    BY <1>13, <1>a, <2>1, <2>2, <2>3, <2>4, <2>5, StoresGrow DEF DeliveryInv, FlushFails
\* Checkpoints.
<1>15. ASSUME NEW s \in Subtasks, SnapshotSource(s) PROVE DeliveryInv'
  <2>1. /\ pending'.taken = pending.taken \cup {s}
        /\ pending'.acked = IF keyBy THEN pending.acked ELSE pending.acked \cup {s}
        /\ pending'.kind = pending.kind
        /\ \A p \in Partitions :
              pending'.pos[p] = IF SplitOwner[p] = s THEN pos[p] ELSE pending.pos[p]
    BY <1>15 DEF SnapshotSource, TypeOK, Attempts
  <2>2. WellPlaced'
    BY <1>15, <1>a, <2>1 DEF WellPlaced, SnapshotSource, Appended, Kind
  <2>3. BarriersInOrder'
    BY <1>15, <1>a, <2>1, EmptyTypes
    DEF BarriersInOrder, SnapshotSource, Running, Kind, TypeOK, Attempts
  <2>4. ReadIsCarried'
    BY <1>15, <1>a DEF ReadIsCarried, SnapshotSource, Running
  <2>5. SnapshotIsCarried'
    <3> SUFFICES ASSUME NEW p \in Partitions, SplitOwner[p] \in pending'.taken,
                        NEW o \in 1 .. pending'.pos[p]
                 PROVE  \/ <<p, o>> \in table \cup dlq
                        \/ /\ keyBy /\ <<p, o>> \in rows \cup ahead
                           /\ KeyOwner[Kind(<<p, o>>)] \notin pending'.acked
      BY <1>15 DEF SnapshotIsCarried, SnapshotSource, Kind
    <3>1. CASE SplitOwner[p] # s
      BY <1>a, <2>1, <3>1 DEF SnapshotIsCarried, BarriersInOrder
    <3>2. CASE SplitOwner[p] = s
      <4>1. <<p, o>> \in table \cup dlq \cup rows \cup invalid \cup ahead \cup behind
        BY <1>15, <1>a, <2>1, <3>2 DEF ReadIsCarried, SnapshotSource
      <4>2. <<p, o>> \notin behind /\ <<p, o>> \notin invalid
        BY <1>15, <1>a, <3>2 DEF BarriersInOrder, SnapshotSource, Envelopes
      <4>3. CASE keyBy
        <5>1. pending'.acked = {}
          BY <1>15, <1>a, <2>1, <4>3 DEF BarriersInOrder, SnapshotSource
        <5> QED
          BY <4>1, <4>2, <4>3, <5>1
      <4>4. CASE ~keyBy
        BY <1>15, <1>a, <3>2, <4>1, <4>2, <4>4
        DEF BarriersInOrder, SnapshotSource, Flushed, Buffer, SinkOf
      <4> QED
        BY <4>3, <4>4
    <3> QED
      BY <3>1, <3>2
  <2> QED
    BY <1>15, <1>a, <2>2, <2>3, <2>4, <2>5, StoresGrow DEF DeliveryInv, SnapshotSource
<1>16. ASSUME NEW j \in Subtasks, SnapshotKeyed(j) PROVE DeliveryInv'
  <2>1. /\ pending'.taken = pending.taken /\ pending'.kind = pending.kind
        /\ pending'.acked = pending.acked \cup {j}
        /\ pending'.pos = pending.pos
    BY <1>16 DEF SnapshotKeyed, TypeOK, Attempts
  <2>2. \A c \in rows \cup ahead : KeyOwner[Kind(c)] # j
    BY <1>16 DEF SnapshotKeyed, Flushed, Buffer, SinkOf
  <2>3. /\ ahead' \cup behind' = ahead \cup behind
        /\ \A c \in behind' : c \in behind /\ KeyOwner[Kind(c)] # j
        /\ ahead \subseteq ahead'
    BY <1>16 DEF SnapshotKeyed, Released, SinkOf
  <2>4. WellPlaced'
    BY <1>16, <1>a, <2>1, <2>3 DEF WellPlaced, SnapshotKeyed, Appended, Kind
  <2>5. BarriersInOrder'
    BY <1>16, <1>a, <2>1, <2>3, EmptyTypes
    DEF BarriersInOrder, SnapshotKeyed, Running, Kind
  <2>6. ReadIsCarried'
    BY <1>16, <1>a, <2>3 DEF ReadIsCarried, SnapshotKeyed, Running
  <2>7. SnapshotIsCarried'
    BY <1>16, <1>a, <2>1, <2>2, <2>3 DEF SnapshotIsCarried, SnapshotKeyed, Kind
  <2> QED
    BY <1>16, <1>a, <2>4, <2>5, <2>6, <2>7, StoresGrow DEF DeliveryInv, SnapshotKeyed
<1>17. ASSUME NEW kind \in {"checkpoint", "savepoint"}, Trigger(kind) PROVE DeliveryInv'
  <2>1. /\ pending'.taken = {} /\ pending'.acked = {}
        /\ pending'.kind = kind /\ pending'.pos = AtStart
        /\ pending = NoPending
    BY <1>17, <1>a DEF Trigger, NoPending, BarriersInOrder
  <2>2. WellPlaced'
    BY <1>17, <1>a, <2>1
    DEF WellPlaced, Trigger, Appended, Kind, AtStart, TypeOK
  <2>3. BarriersInOrder'
    BY <1>17, <1>a, <2>1 DEF BarriersInOrder, Trigger, Running, Kind, NoPending
  <2>4. ReadIsCarried'
    BY <1>17, <1>a DEF ReadIsCarried, Trigger, Running
  <2>5. SnapshotIsCarried'
    BY <2>1 DEF SnapshotIsCarried
  <2> QED
    BY <1>17, <1>a, <2>2, <2>3, <2>4, <2>5, StoresGrow DEF DeliveryInv, Trigger
\* A complete snapshot covers durable records only.
<1>f. ASSUME pending.acked = Subtasks, Running
      PROVE  \A p \in Partitions : /\ Durable(p, pending.pos[p])
                                    /\ pending.pos[p] <= Len(log[p])
  <2> SUFFICES ASSUME NEW p \in Partitions, NEW o \in 1 .. pending.pos[p]
               PROVE  <<p, o>> \in table \cup dlq
    BY <1>a DEF Durable, WellPlaced
  <2>1. SplitOwner[p] \in Subtasks
    BY OwnersAssumption
  <2>2. pending.taken = Subtasks
    BY <1>f, <1>a, <2>1 DEF BarriersInOrder
  <2>3. <<p, o>> \in rows \cup ahead => KeyOwner[Kind(<<p, o>>)] \in Subtasks
    BY <1>a, OwnersAssumption DEF WellPlaced
  <2> QED
    BY <1>f, <1>a, <2>1, <2>2, <2>3 DEF SnapshotIsCarried
<1>g. ASSUME pending.acked = Subtasks, Running, CommitOffsets,
             UNCHANGED <<table, dlq>>
      PROVE  CommittedIsDurable'
  BY <1>f, <1>g, <1>a
  DEF CommittedIsDurable, CommitOffsets, CommitPosition, Durable
<1>20. CASE CompleteCheckpoint
  <2>1. ckpt'.pos = pending.pos
    BY <1>20 DEF CompleteCheckpoint, Taken
  <2>2. AtLeastOnce' /\ CommittedIsDurable'
    BY <1>20, <1>a, <1>f, <1>g, <2>1
    DEF CompleteCheckpoint, AtLeastOnce, Durable
  <2>3. WellPlaced'
    BY <1>20, <1>a, <1>f, <2>1
    DEF CompleteCheckpoint, WellPlaced, Appended, Kind, NoPending, AtStart, TypeOK
  <2>4. behind = {}
    <3> SUFFICES ASSUME NEW c \in behind PROVE FALSE
      OBVIOUS
    <3> QED
      BY <1>20, <1>a, OwnersAssumption
      DEF CompleteCheckpoint, BarriersInOrder, WellPlaced
  <2>5. BarriersInOrder'
    BY <1>20, <1>a, <2>4
    DEF CompleteCheckpoint, BarriersInOrder, Running, NoPending
  <2>6. ReadIsCarried' /\ SnapshotIsCarried'
    BY <1>20, <1>a
    DEF CompleteCheckpoint, ReadIsCarried, SnapshotIsCarried, Running, NoPending
  <2> QED
    BY <2>2, <2>3, <2>5, <2>6 DEF DeliveryInv
<1>21. CASE CompleteSavepoint
  <2>1. savepoint'.snap.pos = pending.pos
    BY <1>21 DEF CompleteSavepoint, Taken
  <2>2. AtLeastOnce' /\ CommittedIsDurable'
    BY <1>21, <1>a, <1>f, <1>g, <2>1
    DEF CompleteSavepoint, AtLeastOnce, Durable
  <2> QED
    BY <1>21, <1>a, <1>f, <2>1, <2>2, EndJobInv DEF CompleteSavepoint, WellPlaced
<1>22. CASE UNCHANGED vars
  BY <1>22, <1>a DEF vars, DeliveryInv, WellPlaced, BarriersInOrder, ReadIsCarried,
     SnapshotIsCarried, AtLeastOnce, CommittedIsDurable, Durable, Appended, Kind,
     Running
<1> QED
  BY <1>1, <1>2, <1>3, <1>4, <1>5, <1>6, <1>7, <1>8, <1>9, <1>10, <1>11, <1>12,
     <1>13, <1>14, <1>15, <1>16, <1>17, <1>20, <1>21, <1>22
  DEF Next, Read, FlushAttempt, Snapshot, Complete

\* What is read is carried and what a pending checkpoint has taken is ahead of
\* its barriers, in every reachable state of the job (flink/job.py main).
THEOREM DeliveryInvariant == Spec => []DeliveryInv
BY InitTypeOK, NextTypeOK, InitDeliveryInv, NextDeliveryInv, PTL DEF Spec

\* At-least-once delivery for every topology and every sequence of crashes,
\* flush errors, restarts, resubmissions and restores: no restart resumes past a
\* record that is in neither store.
THEOREM AtLeastOnceHolds == Spec => []AtLeastOnce
<1>1. DeliveryInv => AtLeastOnce
  BY DEF DeliveryInv
<1> QED
  BY <1>1, DeliveryInvariant, PTL

\* No offset committed to the consumer group covers a record that is not stored.
THEOREM CommittedIsDurableHolds == Spec => []CommittedIsDurable
<1>1. DeliveryInv => CommittedIsDurable
  BY DEF DeliveryInv
<1> QED
  BY <1>1, DeliveryInvariant, PTL

-----------------------------------------------------------------------------
(* The job implements the delivery promise.                                *)

LEMMA RowsAreRecords ==
    ASSUME TypeOK, DeliveryInv, NEW c \in rows \cup invalid
    PROVE  /\ c \in rows => Delivery!Holds(c, Tenants)
           /\ c \in invalid => Delivery!Holds(c, {Malformed})
<1>1. c \in Coords /\ Appended(c)
  BY DEF TypeOK, DeliveryInv, WellPlaced
<1>2. c \in Partitions \X Nat /\ c[2] \in 1 .. Len(log[c[1]])
  BY <1>1 DEF Coords, Appended, TypeOK
<1> QED
  BY <1>2 DEF Delivery!Holds, DeliveryInv, WellPlaced, Kind

LEMMA NextImplements ==
    TypeOK /\ DeliveryInv /\ TypeOK' /\ DeliveryInv' /\ [Next]_vars
        => [Delivery!Next]_(Delivery!vars)
<1> SUFFICES ASSUME TypeOK, DeliveryInv, TypeOK', DeliveryInv', [Next]_vars
             PROVE  Delivery!Next \/ UNCHANGED Delivery!vars
  OBVIOUS
<1> USE DEF jobVars, flowVars, ckptVars, storeVars
<1>1. ASSUME NEW p \in Partitions, NEW k \in Kinds, Produce(p, k) PROVE Delivery!Next
  BY <1>1 DEF Produce, Kinds, Delivery!Next, Delivery!Produce, Delivery!Kinds
\* Steps that store rows of the JDBC buffers.
<1>2. ASSUME table \subseteq table', table' \subseteq table \cup rows,
             UNCHANGED <<log, dlq, committed>>
      PROVE  Delivery!Next
  BY <1>2, RowsAreRecords DEF Delivery!Next, Delivery!Store
<1>3. ASSUME NEW s \in Subtasks, FlushAttempt(s) PROVE Delivery!Next
  <2>1. UNCHANGED <<log, dlq, committed>>
    BY <1>3 DEF FlushAttempt, Flush, FlushFails, FlushGivesUp, FailTasks
  <2>2. PICK inserted \in SUBSET Buffer(s) : Insert(inserted)
    BY <1>3 DEF FlushAttempt, Flush, FlushFails, FlushGivesUp
  <2>3. table \subseteq table' /\ table' \subseteq table \cup rows
    BY <2>2 DEF Insert, Buffer
  <2> QED
    BY <1>2, <2>1, <2>3
<1>4. ASSUME NEW c \in Coords, DeliverEnvelope(c) PROVE Delivery!Next
  BY <1>4, RowsAreRecords DEF DeliverEnvelope, Delivery!Next, Delivery!Reject
\* Steps that commit offsets.
<1>5. ASSUME Complete PROVE Delivery!Next
  <2>1. UNCHANGED <<log, table, dlq>>
    BY <1>5 DEF Complete, CompleteCheckpoint, CompleteSavepoint
  <2>2. committed' \in [Partitions -> Nat]
    BY DEF TypeOK, Offsets
  <2>3. \A p \in Partitions : Delivery!Covered(p, committed'[p])
    BY <2>1 DEF DeliveryInv, CommittedIsDurable, Durable, Delivery!Covered
  <2> QED
    BY <2>1, <2>2, <2>3 DEF Delivery!Next, Delivery!Commit
\* All other steps are invisible.
<1>6. ASSUME \/ \E mode \in Modes : Submit(mode) \/ Restore(mode)
             \/ Cancel \/ Crash
             \/ \E p \in Partitions : Read(p)
             \/ \E c \in Coords : CountByTenant(c)
             \/ \E s \in Subtasks : Snapshot(s)
             \/ \E kind \in {"checkpoint", "savepoint"} : Trigger(kind)
             \/ UNCHANGED vars
      PROVE  UNCHANGED Delivery!vars
  <2>1. CASE \E mode \in Modes : Submit(mode) \/ Restore(mode)
    BY <2>1 DEF Submit, Restore, Delivery!vars
  <2>2. CASE Cancel \/ Crash
    BY <2>2 DEF Cancel, Crash, FailTasks, Delivery!vars
  <2>3. CASE \E p \in Partitions : Read(p)
    BY <2>3 DEF Read, ReadInvalid, ReadToSink, ReadToKeyed, ReadRaises, FailTasks,
       Delivery!vars
  <2>4. CASE \E c \in Coords : CountByTenant(c)
    BY <2>4 DEF CountByTenant, Delivery!vars
  <2>5. CASE \E s \in Subtasks : Snapshot(s)
    BY <2>5 DEF Snapshot, SnapshotSource, SnapshotKeyed, Delivery!vars
  <2>6. CASE \E kind \in {"checkpoint", "savepoint"} : Trigger(kind)
    BY <2>6 DEF Trigger, Delivery!vars
  <2>7. CASE UNCHANGED vars
    BY <2>7 DEF vars, Delivery!vars
  <2> QED
    BY <1>6, <2>1, <2>2, <2>3, <2>4, <2>5, <2>6, <2>7
<1> QED
  BY <1>1, <1>3, <1>4, <1>5, <1>6 DEF Next

\* Whatever graph runs and however it fails, the job implements the promise of
\* AtLeastOnceDelivery: rows and envelopes are only added, each to the store of
\* its kind, and offsets are only committed over stored records.
THEOREM ImplementsDelivery == Spec => DeliverySpec
<1>1. Init => Delivery!Init
  BY DEF Init, Delivery!Init, AtStart
<1> QED
  BY <1>1, TypeCorrect, DeliveryInvariant, NextImplements, PTL
  DEF Spec, DeliverySpec, Delivery!Spec

-----------------------------------------------------------------------------
(* The hot-tenant gauge.                                                   *)

\* The gauge and the count it shows move together.
LEMMA NextHotGauge ==
    TypeOK /\ DeliveryInv /\ HotGaugeIsCurrent /\ [Next]_vars => HotGaugeIsCurrent'
<1> SUFFICES ASSUME TypeOK, DeliveryInv, HotGaugeIsCurrent, [Next]_vars
             PROVE  HotGaugeIsCurrent'
  OBVIOUS
<1> USE DEF jobVars, flowVars, ckptVars, storeVars
<1>1. ASSUME status' # "running" \/ \A s \in Subtasks : gauge'[s] = 0
      PROVE  HotGaugeIsCurrent'
  BY <1>1 DEF HotGaugeIsCurrent, Running
<1>2. ASSUME UNCHANGED <<status, count, gauge>> PROVE HotGaugeIsCurrent'
  BY <1>2 DEF HotGaugeIsCurrent, Running
<1>3. CASE \E mode \in Modes : Submit(mode) \/ Restore(mode)
  <2>1. gauge' = [s \in Subtasks |-> 0]
    BY <1>3 DEF Submit, Restore, StartFrom
  <2> QED
    BY <1>1, <2>1
<1>4. CASE Cancel \/ CompleteSavepoint
  BY <1>1, <1>4 DEF Cancel, CompleteSavepoint, EndJob
<1>5. ASSUME NEW s \in Subtasks, NEW S \in Regions(s), FailTasks(S)
      PROVE  HotGaugeIsCurrent'
  <2>1. CASE EndJob("failed")
    BY <1>1, <2>1 DEF EndJob
  <2>2. CASE RestartTasks(S) /\ keyBy
    <3>1. S = Subtasks
      BY <2>2 DEF Regions
    <3>2. \A r \in Subtasks : gauge'[r] = 0
      BY <2>2, <3>1 DEF RestartTasks
    <3> QED
      BY <1>1, <3>2
  <2>3. CASE RestartTasks(S) /\ ~keyBy
    <3>1. /\ count' = count /\ status' = status
          /\ \A r \in Subtasks : gauge'[r] \in {0, gauge[r]}
      BY <2>3 DEF RestartTasks
    <3> QED
      BY <3>1 DEF HotGaugeIsCurrent, Running
  <2> QED
    BY <1>5, <2>1, <2>2, <2>3 DEF FailTasks
<1>6. CASE Crash
  BY <1>5, <1>6 DEF Crash
<1>7. ASSUME NEW p \in Partitions, Read(p) PROVE HotGaugeIsCurrent'
  <2>1. CASE ReadRaises(p)
    BY <1>5, <2>1, OwnersAssumption DEF ReadRaises
  <2>2. CASE ReadInvalid(p) \/ ReadToSink(p) \/ ReadToKeyed(p)
    BY <1>2, <2>2 DEF ReadInvalid, ReadToSink, ReadToKeyed
  <2> QED
    BY <1>7, <2>1, <2>2 DEF Read
<1>8. ASSUME NEW c \in Coords, CountByTenant(c) PROVE HotGaugeIsCurrent'
  <2>1. keyBy /\ Kind(c) \in Tenants /\ status' = status
    BY <1>8 DEF CountByTenant, DeliveryInv, BarriersInOrder, WellPlaced
  <2>2. /\ count' = [count EXCEPT ![Kind(c)] = count[Kind(c)] + 1]
        /\ gauge' = Published(Kind(c), KeyOwner[Kind(c)], count[Kind(c)] + 1)
    BY <1>8, <2>1 DEF CountByTenant, SinkOf
  <2>3. CASE Kind(c) = HotTenant
    BY <2>1, <2>2, <2>3
    DEF HotGaugeIsCurrent, Running, Published, TypeOK, Counts
  <2>4. CASE Kind(c) # HotTenant
    BY <2>1, <2>2, <2>4, HotTenantAssumption
    DEF HotGaugeIsCurrent, Running, Published, TypeOK, Counts
  <2> QED
    BY <2>3, <2>4
<1>9. ASSUME NEW s \in Subtasks, FlushAttempt(s) PROVE HotGaugeIsCurrent'
  <2>1. CASE FlushGivesUp(s)
    BY <1>5, <2>1 DEF FlushGivesUp
  <2>2. CASE Flush(s) \/ FlushFails(s)
    BY <1>2, <2>2 DEF Flush, FlushFails
  <2> QED
    BY <1>9, <2>1, <2>2 DEF FlushAttempt
<1>10. CASE \/ \E p \in Partitions, k \in Kinds : Produce(p, k)
            \/ \E c \in Coords : DeliverEnvelope(c)
            \/ \E s \in Subtasks : Snapshot(s)
            \/ \E kind \in {"checkpoint", "savepoint"} : Trigger(kind)
            \/ CompleteCheckpoint \/ UNCHANGED vars
  BY <1>2, <1>10 DEF Produce, DeliverEnvelope, Snapshot, SnapshotSource, SnapshotKeyed,
     Trigger, CompleteCheckpoint, vars
<1> QED
  BY <1>3, <1>4, <1>6, <1>7, <1>8, <1>9, <1>10 DEF Next, Complete

\* lab_hot_tenant_state_count never contradicts the keyed state it reports, on
\* whatever subtask the hot tenant lives and whatever restarts.
THEOREM HotGaugeIsCurrentHolds == Spec => []HotGaugeIsCurrent
<1>1. Init => HotGaugeIsCurrent
  BY DEF Init, HotGaugeIsCurrent
<1> QED
  BY <1>1, NextHotGauge, TypeCorrect, DeliveryInvariant, PTL DEF Spec

-----------------------------------------------------------------------------
(* Each record is stored once, as long as nothing disturbs the job.        *)

\* Everything in or behind the job has been read, and is in one place.
InOnePlace ==
    /\ \A c \in table \cup dlq \cup rows \cup invalid \cup ahead \cup behind :
          c[2] <= pos[c[1]]
    /\ rows \cap table = {} /\ invalid \cap dlq = {}
    /\ (ahead \cup behind) \cap (rows \cup table) = {} /\ ahead \cap behind = {}

\* A stop ends the job at the positions of its savepoint.
StopsWhereItSaves ==
    /\ \A p \in Partitions : Stopping(p) => pending.pos[p] = pos[p]
    /\ status = "stopped" => savepoint.snap.pos = pos

OnceInv == ~disturbed => /\ copies = {} /\ dlqCopies = {}
                         /\ InOnePlace /\ StopsWhereItSaves

LEMMA NextOnceInv == TypeOK /\ DeliveryInv /\ OnceInv /\ [Next]_vars => OnceInv'
<1> SUFFICES ASSUME TypeOK, DeliveryInv, OnceInv, [Next]_vars, ~disturbed'
             PROVE  /\ copies' = {} /\ dlqCopies' = {}
                    /\ InOnePlace' /\ StopsWhereItSaves'
  BY DEF OnceInv
<1> DEFINE Goal == copies' = {} /\ dlqCopies' = {} /\ InOnePlace' /\ StopsWhereItSaves'
<1> USE DEF jobVars, flowVars, ckptVars, storeVars
\* What fails leaves its mark.
<1>a. ASSUME NEW S, FailTasks(S) PROVE FALSE
  BY <1>a DEF FailTasks
<1>b. ASSUME ~disturbed PROVE copies = {} /\ dlqCopies = {} /\ InOnePlace /\ StopsWhereItSaves
  BY <1>b DEF OnceInv
<1>1. ASSUME NEW mode \in Modes, Submit(mode) PROVE Goal
  <2>1. /\ ~disturbed /\ table = {} /\ dlq = {} /\ UNCHANGED storeVars
        /\ StartFrom(EmptySnapshot, mode)
    BY <1>1 DEF Submit
  <2> QED
    BY <1>b, <2>1
    DEF StartFrom, InOnePlace, StopsWhereItSaves, Stopping, NoPending
<1>2. ASSUME NEW mode \in Modes, Restore(mode) PROVE Goal
  <2>1. ~disturbed /\ status = "stopped" /\ UNCHANGED storeVars
    BY <1>2 DEF Restore
  <2>2. pos' = savepoint.snap.pos
    <3>1. savepoint.snap \in Snapshots
      BY DEF TypeOK, Savepoints
    <3> QED
      BY <1>2, <3>1 DEF Restore, StartFrom, Snapshots
  <2>3. pos' = pos
    BY <1>b, <2>1, <2>2 DEF StopsWhereItSaves
  <2>4. /\ ahead' = {} /\ behind' = {} /\ rows' = {} /\ invalid' = {}
        /\ pending' = NoPending /\ status' = "running"
    BY <1>2 DEF Restore, StartFrom
  <2> QED
    BY <1>b, <2>1, <2>3, <2>4 DEF InOnePlace, StopsWhereItSaves, Stopping, NoPending
<1>3. CASE Cancel \/ Crash
  BY <1>3, <1>a DEF Cancel, Crash
<1>4. ASSUME NEW p \in Partitions, Read(p) PROVE Goal
  <2>1. CASE ReadRaises(p)
    BY <1>a, <2>1 DEF ReadRaises
  <2>2. CASE ReadInvalid(p) \/ ReadToSink(p) \/ ReadToKeyed(p)
    <3>1. /\ pos' = [pos EXCEPT ![p] = pos[p] + 1] /\ ~Stopping(p) /\ Running
          /\ UNCHANGED <<status, pending, savepoint, storeVars, disturbed>>
      BY <2>2 DEF ReadInvalid, ReadToSink, ReadToKeyed, Emits
    <3>2. pos \in [Partitions -> Nat]
      BY DEF TypeOK, Offsets
    <3>3. \A q \in Partitions : pos[q] <= pos'[q] /\ (q # p => pos'[q] = pos[q])
      BY <3>1, <3>2
    <3>4. /\ Next1(p)[1] = p /\ Next1(p)[2] = pos[p] + 1 /\ pos'[p] = pos[p] + 1
      BY <3>1, <3>2 DEF Next1
    <3>5. Next1(p) \notin table \cup dlq \cup rows \cup invalid \cup ahead \cup behind
      BY <1>b, <3>1, <3>2, <3>4 DEF InOnePlace
    <3>6. /\ rows' \cup invalid' \cup ahead' \cup behind'
                \subseteq (rows \cup invalid \cup ahead \cup behind) \cup {Next1(p)}
          /\ \/ rows' = rows \cup {Next1(p)} /\ UNCHANGED <<invalid, ahead, behind>>
             \/ invalid' = invalid \cup {Next1(p)} /\ UNCHANGED <<rows, ahead, behind>>
             \/ ahead' = ahead \cup {Next1(p)} /\ UNCHANGED <<rows, invalid, behind>>
             \/ behind' = behind \cup {Next1(p)} /\ UNCHANGED <<rows, invalid, ahead>>
      BY <2>2 DEF ReadInvalid, ReadToSink, ReadToKeyed
    <3>7. ASSUME NEW c \in table \cup dlq \cup rows' \cup invalid' \cup ahead' \cup behind'
          PROVE  c[2] <= pos'[c[1]]
      <4>1. CASE c = Next1(p)
        BY <3>2, <3>4, <4>1
      <4>2. CASE c \in table \cup dlq \cup rows \cup invalid \cup ahead \cup behind
        <5>1. c[1] \in Partitions /\ c[2] \in Nat
          <6>1. c \in Partitions \X Nat
            BY <4>2 DEF TypeOK, Coords
          <6> QED
            BY <6>1
        <5>2. c[2] <= pos[c[1]]
          BY <1>b, <3>1, <4>2 DEF InOnePlace
        <5> QED
          <6>1. pos[c[1]] \in Nat /\ pos'[c[1]] \in Nat /\ pos[c[1]] <= pos'[c[1]]
            BY <3>1, <3>2, <3>3, <5>1
          <6> QED
            BY <5>1, <5>2, <6>1
      <4> QED
        BY <3>6, <4>1, <4>2
    <3>8. InOnePlace'
      BY <1>b, <3>1, <3>5, <3>6, <3>7 DEF InOnePlace
    <3>9. StopsWhereItSaves'
      BY <1>b, <3>1, <3>3 DEF StopsWhereItSaves, Stopping, Running
    <3> QED
      BY <1>b, <3>1, <3>8, <3>9
  <2> QED
    BY <1>4, <2>1, <2>2 DEF Read
<1>5. ASSUME NEW c \in Coords, CountByTenant(c) PROVE Goal
  BY <1>5, <1>b DEF CountByTenant, InOnePlace, StopsWhereItSaves, Stopping
<1>6. ASSUME NEW c \in Coords, DeliverEnvelope(c) PROVE Goal
  BY <1>6, <1>b DEF DeliverEnvelope, InOnePlace, StopsWhereItSaves, Stopping
<1>7. ASSUME NEW s \in Subtasks, FlushAttempt(s) PROVE Goal
  <2>1. CASE Flush(s)
    <3>1. Buffer(s) \subseteq rows
      BY DEF Buffer
    <3> QED
      BY <1>b, <2>1, <3>1 DEF Flush, Insert, InOnePlace, StopsWhereItSaves, Stopping
  <2>2. CASE FlushFails(s)
    <3>1. ~disturbed /\ Insert({})
      BY <2>2 DEF FlushFails
    <3> QED
      BY <1>b, <2>2, <3>1 DEF FlushFails, Insert, InOnePlace, StopsWhereItSaves, Stopping
  <2>3. CASE FlushGivesUp(s)
    BY <1>a, <2>3 DEF FlushGivesUp
  <2> QED
    BY <1>7, <2>1, <2>2, <2>3 DEF FlushAttempt
<1>8. ASSUME NEW s \in Subtasks, SnapshotSource(s) PROVE Goal
  <2>1. /\ pending'.kind = pending.kind /\ pending'.taken = pending.taken \cup {s}
        /\ \A p \in Partitions :
              pending'.pos[p] = IF SplitOwner[p] = s THEN pos[p] ELSE pending.pos[p]
    BY <1>8 DEF SnapshotSource, TypeOK, Attempts
  <2> QED
    BY <1>8, <1>b, <2>1 DEF SnapshotSource, InOnePlace, StopsWhereItSaves, Stopping
<1>9. ASSUME NEW j \in Subtasks, SnapshotKeyed(j) PROVE Goal
  <2>1. /\ pending'.kind = pending.kind /\ pending'.taken = pending.taken
        /\ pending'.pos = pending.pos
    BY <1>9 DEF SnapshotKeyed, TypeOK, Attempts
  <2>2. /\ ahead' \cup behind' = ahead \cup behind
        /\ ~disturbed => ahead' \cap behind' = {}
    BY <1>9, <1>b DEF SnapshotKeyed, Released, InOnePlace
  <2> QED
    BY <1>9, <1>b, <2>1, <2>2 DEF SnapshotKeyed, InOnePlace, StopsWhereItSaves, Stopping
<1>10. ASSUME NEW kind \in {"checkpoint", "savepoint"}, Trigger(kind) PROVE Goal
  BY <1>10, <1>b DEF Trigger, NoPending, InOnePlace, StopsWhereItSaves, Stopping
<1>11. CASE CompleteCheckpoint
  BY <1>11, <1>b
  DEF CompleteCheckpoint, NoPending, InOnePlace, StopsWhereItSaves, Stopping, Running
\* The savepoint is complete, and nothing was read after its barriers.
<1>12. CASE CompleteSavepoint
  <2>1. ~disturbed /\ UNCHANGED storeVars
    BY <1>12 DEF CompleteSavepoint
  <2>2. /\ rows' = {} /\ invalid' = {} /\ ahead' = {} /\ behind' = {} /\ pos' = pos
        /\ pending' = NoPending /\ savepoint'.snap.pos = pending.pos
    BY <1>12 DEF CompleteSavepoint, EndJob, Taken
  <2>3. pending.pos = pos
    <3>1. pending.pos \in [Partitions -> Nat] /\ pos \in [Partitions -> Nat]
      BY DEF TypeOK, Attempts, Offsets
    <3>2. ASSUME NEW p \in Partitions PROVE pending.pos[p] = pos[p]
      <4>1. SplitOwner[p] \in pending.taken
        BY <1>12, OwnersAssumption DEF CompleteSavepoint, DeliveryInv, BarriersInOrder
      <4> QED
        BY <1>12, <1>b, <2>1, <4>1 DEF CompleteSavepoint, StopsWhereItSaves, Stopping
    <3> QED
      BY <3>1, <3>2
  <2> QED
    BY <1>b, <2>1, <2>2, <2>3 DEF InOnePlace, StopsWhereItSaves, Stopping, NoPending
<1>13. CASE (\E p \in Partitions, k \in Kinds : Produce(p, k)) \/ UNCHANGED vars
  BY <1>13, <1>b DEF Produce, vars, InOnePlace, StopsWhereItSaves, Stopping
<1> QED
  BY <1>1, <1>2, <1>3, <1>4, <1>5, <1>6, <1>7, <1>8, <1>9, <1>10, <1>11, <1>12, <1>13
  DEF Next, Snapshot, Complete

\* Duplicates have a cause: until a task fails, a batch fails half way, a job is
\* cancelled, submitted over stored rows or restored from a stale savepoint, every
\* record is stored once, however often the graph is switched.
THEOREM ReplaysHaveACauseHolds == Spec => []ReplaysHaveACause
<1>1. Init => OnceInv
  BY DEF Init, OnceInv, InOnePlace, StopsWhereItSaves, Stopping, NoPending
<1>2. OnceInv => ReplaysHaveACause
  BY DEF OnceInv, ReplaysHaveACause
<1> QED
  BY <1>1, <1>2, NextOnceInv, TypeCorrect, DeliveryInvariant, PTL DEF Spec

-----------------------------------------------------------------------------
(* The counts of the keyed operator.                                       *)

\* The valid records of tenant t between two positions.
Span(from, to, t) ==
    {c \in Coords : /\ from[c[1]] < c[2] /\ c[2] <= to[c[1]]
                    /\ Kind(c) = t}

\* Positions only move on from where counting began.
AfterBase ==
    /\ \A p \in Partitions : /\ ckpt.base[p] <= ckpt.pos[p]
                             /\ savepoint.snap.base[p] <= savepoint.snap.pos[p]
    /\ Running => /\ ckpt.base = base
                  /\ \A p \in Partitions :
                        /\ base[p] <= pos[p]
                        /\ SplitOwner[p] \in pending.taken =>
                              base[p] <= pending.pos[p] /\ pending.pos[p] <= pos[p]

\* What has been read and is not in a channel is counted.
ChannelsCounted ==
    /\ ahead \cap behind = {}
    /\ \A c \in ahead \cup behind : base[c[1]] < c[2] /\ c[2] <= pos[c[1]]
    /\ keyBy /\ Running =>
          \A t \in Tenants :
              count[t] = Cardinality(Span(base, pos, t) \ (ahead \cup behind))

\* Before its owner takes its part, a record is behind the barrier exactly if
\* it is past the position its source has taken; after that, the part is the
\* count at these positions.
PartsMatch ==
    keyBy /\ Running =>
        \A t \in Tenants :
            /\ KeyOwner[t] \notin pending.acked =>
                  \A c \in Span(base, pos, t) : SplitOwner[c[1]] \in pending.taken =>
                      (c \in behind <=> pending.pos[c[1]] < c[2])
            /\ KeyOwner[t] \in pending.acked =>
                  pending.count[t] = Cardinality(Span(base, pending.pos, t))

CountInv == CountsMatchOffsets /\ AfterBase /\ ChannelsCounted /\ PartsMatch

LEMMA SpansAreFinite ==
    ASSUME NEW S \in SUBSET Coords
    PROVE  IsFiniteSet(S) /\ Cardinality(S) \in Nat
<1>1. IsFiniteSet(1 .. MaxRecords)
  BY LimitsAssumption, FS_Interval
<1>2. IsFiniteSet(Coords)
  BY <1>1, PartitionsAssumption, FS_Product DEF Coords
<1> QED
  BY <1>2, FS_Subset, FS_CardinalityType

\* CountsMatch, as it is used below.
LEMMA CountsMatchSpan ==
    /\ CountsMatch(ckpt)
          <=> \A t \in Tenants : ckpt.count[t] = Cardinality(Span(ckpt.base, ckpt.pos, t))
    /\ CountsMatch(savepoint.snap)
          <=> \A t \in Tenants : savepoint.snap.count[t]
                  = Cardinality(Span(savepoint.snap.base, savepoint.snap.pos, t))
BY DEF CountsMatch, Span

LEMMA CoordTypes ==
    ASSUME NEW c \in Coords
    PROVE  c[1] \in Partitions /\ c[2] \in Nat /\ c = <<c[1], c[2]>>
BY LimitsAssumption DEF Coords

LEMMA PositionTypes ==
    ASSUME TypeOK, NEW p \in Partitions
    PROVE  /\ pos[p] \in Nat /\ base[p] \in Nat /\ pending.pos[p] \in Nat
           /\ ckpt.pos[p] \in Nat /\ ckpt.base[p] \in Nat
           /\ savepoint.snap.pos[p] \in Nat /\ savepoint.snap.base[p] \in Nat
           /\ Len(log[p]) \in Nat
BY DEF TypeOK, Offsets, Attempts, Snapshots, Savepoints

LEMMA InitCountInv == Init => CountInv
<1> SUFFICES ASSUME Init PROVE CountInv
  OBVIOUS
<1>1. savepoint.keyed = FALSE /\ keyBy = FALSE /\ ~Running
  BY DEF Init, NoSavepoint, Running
<1>2. CountsMatchOffsets
  BY <1>1 DEF CountsMatchOffsets
<1>3. AfterBase
  BY <1>1 DEF Init, AfterBase, NoSavepoint, EmptySnapshot, AtStart
<1> QED
  BY <1>1, <1>2, <1>3 DEF Init, CountInv, ChannelsCounted, PartsMatch

\* Steps that move no record and take no part.
LEMMA CountStays ==
    ASSUME CountInv, UNCHANGED <<log, status, keyBy, base, pos, ahead, behind, count,
                                 pending, ckpt, savepoint>>
    PROVE  CountInv'
<1>1. CountsMatchOffsets'
  BY DEF CountInv, CountsMatchOffsets, CountsMatch, Kind
<1>2. AfterBase' /\ ChannelsCounted' /\ PartsMatch'
  BY DEF CountInv, AfterBase, ChannelsCounted, PartsMatch, Running, Span, Kind
<1> QED
  BY <1>1, <1>2 DEF CountInv

\* What is appended lies past every position.
LEMMA ProduceCount ==
    ASSUME TypeOK, DeliveryInv, CountInv, NEW q \in Partitions, NEW k \in Kinds, Produce(q, k)
    PROVE  CountInv'
<1> USE DEF jobVars, flowVars, ckptVars, storeVars
<1>1. UNCHANGED <<status, keyBy, base, pos, ahead, behind, count, pending, ckpt, savepoint>>
  BY DEF Produce
<1>2. ASSUME NEW c \in Coords, c[2] <= Len(log[c[1]]) PROVE Kind(c)' = Kind(c)
  <2>1. c[1] \in Partitions /\ c[2] \in 1 .. Len(log[c[1]])
    BY <1>2, LimitsAssumption DEF Coords, TypeOK
  <2> QED
    BY <2>1 DEF Produce, Kind, TypeOK
<1>3. ASSUME NEW p \in Partitions
      PROVE  /\ pos[p] <= Len(log[p]) /\ ckpt.pos[p] <= Len(log[p])
             /\ savepoint.snap.pos[p] <= Len(log[p]) /\ pending.pos[p] <= Len(log[p])
  BY DEF DeliveryInv, WellPlaced
<1>4. ASSUME NEW to \in Offsets, NEW c \in Coords, c[2] <= to[c[1]],
             \A p \in Partitions : to[p] <= Len(log[p])
      PROVE  Kind(c)' = Kind(c)
  <2>1. /\ c[1] \in Partitions /\ c[2] \in Nat /\ to[c[1]] \in Nat
        /\ Len(log[c[1]]) \in Nat
    BY CoordTypes, PositionTypes DEF Offsets
  <2>2. c[2] <= Len(log[c[1]])
    BY <1>4, <2>1
  <2> QED
    BY <1>2, <2>2
<1>5. /\ pos \in Offsets /\ ckpt.pos \in Offsets /\ savepoint.snap.pos \in Offsets
      /\ pending.pos \in Offsets
  BY DEF TypeOK, Snapshots, Savepoints, Attempts
<1>6. ASSUME NEW t \in Tenants
      PROVE  /\ Span(base, pos, t)' = Span(base, pos, t)
             /\ Span(base, pending.pos, t)' = Span(base, pending.pos, t)
             /\ Span(ckpt.base, ckpt.pos, t)' = Span(ckpt.base, ckpt.pos, t)
             /\ Span(savepoint.snap.base, savepoint.snap.pos, t)'
                    = Span(savepoint.snap.base, savepoint.snap.pos, t)
  <2>1. \A c \in Coords : c[2] <= pos[c[1]] => Kind(c)' = Kind(c)
    BY <1>3, <1>4, <1>5
  <2>2. \A c \in Coords : c[2] <= pending.pos[c[1]] => Kind(c)' = Kind(c)
    BY <1>3, <1>4, <1>5
  <2>3. \A c \in Coords : c[2] <= ckpt.pos[c[1]] => Kind(c)' = Kind(c)
    BY <1>3, <1>4, <1>5
  <2>4. \A c \in Coords : c[2] <= savepoint.snap.pos[c[1]] => Kind(c)' = Kind(c)
    BY <1>3, <1>4, <1>5
  <2> QED
    BY <1>1, <2>1, <2>2, <2>3, <2>4 DEF Span
<1>7. CountsMatchOffsets'
  BY <1>1, <1>6 DEF CountInv, CountsMatchOffsets, CountsMatch, Span
<1>8. AfterBase'
  BY <1>1 DEF CountInv, AfterBase, Running
<1>9. ChannelsCounted'
  BY <1>1, <1>6 DEF CountInv, ChannelsCounted, Running
<1>10. PartsMatch'
  BY <1>1, <1>6 DEF CountInv, PartsMatch, Running
<1> QED
  BY <1>7, <1>8, <1>9, <1>10 DEF CountInv

\* A job starts to count where its snapshot says.
LEMMA StartFromCount ==
    ASSUME TypeOK, CountInv, NEW snap \in Snapshots, NEW mode,
           mode => \A t \in Tenants :
                      snap.count[t] = Cardinality(Span(snap.base, snap.pos, t)),
           \A p \in Partitions : snap.base[p] <= snap.pos[p],
           StartFrom(snap, mode), UNCHANGED <<log, savepoint>>
    PROVE  CountInv'
<1>1. /\ status' = "running" /\ keyBy' = mode /\ ckpt' = snap
      /\ pos' = snap.pos /\ count' = snap.count /\ base' = snap.base
      /\ ahead' = {} /\ behind' = {} /\ pending' = NoPending
  BY DEF StartFrom
<1>2. /\ \A t \in Tenants : Span(base, pos, t)' = Span(snap.base, snap.pos, t)
      /\ \A t \in Tenants : Span(ckpt.base, ckpt.pos, t)' = Span(snap.base, snap.pos, t)
  BY <1>1 DEF Span, Kind
<1>3. CountsMatchOffsets'
  <2>1. keyBy' => CountsMatch(ckpt)'
    BY <1>1 DEF CountsMatch, Span, Kind
  <2>2. savepoint.keyed => CountsMatch(savepoint.snap)'
    BY DEF CountInv, CountsMatchOffsets, CountsMatch, Kind
  <2> QED
    BY <2>1, <2>2 DEF CountsMatchOffsets
<1>4. AfterBase'
  BY <1>1 DEF CountInv, AfterBase, NoPending
<1>5. ChannelsCounted'
  <2>1. \A t \in Tenants : Span(snap.base, snap.pos, t) \ {} = Span(snap.base, snap.pos, t)
    OBVIOUS
  <2> QED
    BY <1>1, <1>2, <2>1 DEF ChannelsCounted
<1>6. PartsMatch'
  BY <1>1 DEF PartsMatch, NoPending
<1> QED
  BY <1>3, <1>4, <1>5, <1>6 DEF CountInv

\* Nothing lies between a position and itself.
LEMMA NoSpan ==
    ASSUME NEW at \in Offsets, NEW t
    PROVE  Span(at, at, t) = {} /\ Cardinality(Span(at, at, t)) = 0
<1>1. ASSUME NEW c \in Coords PROVE ~(at[c[1]] < c[2] /\ c[2] <= at[c[1]])
  BY CoordTypes DEF Offsets
<1>2. Span(at, at, t) = {}
  BY <1>1 DEF Span
<1> QED
  BY <1>2, FS_EmptySet

\* An ended job leaves what is saved.
LEMMA EndJobCount ==
    ASSUME CountInv, NEW how, how # "running", EndJob(how), UNCHANGED log,
           CountsMatchOffsets',
           \A p \in Partitions : /\ ckpt'.base[p] <= ckpt'.pos[p]
                                 /\ savepoint'.snap.base[p] <= savepoint'.snap.pos[p]
    PROVE  CountInv'
<1>1. ~Running' /\ ahead' = {} /\ behind' = {}
  BY DEF EndJob, Running
<1> QED
  BY <1>1 DEF CountInv, AfterBase, ChannelsCounted, PartsMatch

\* Tasks that restart go back to the checkpoint, counts included.
LEMMA FailTasksCount ==
    ASSUME TypeOK, DeliveryInv, CountInv, Running,
           NEW S \in SUBSET Subtasks, keyBy => S = Subtasks, FailTasks(S)
    PROVE  CountInv'
<1>1. UNCHANGED <<log, keyBy, base, ckpt, savepoint>>
  BY DEF FailTasks, RestartTasks, EndJob
<1>2. CountsMatchOffsets'
  BY <1>1 DEF CountInv, CountsMatchOffsets, CountsMatch, Kind
<1>3. CASE EndJob("failed")
  BY <1>1, <1>2, <1>3, EndJobCount DEF CountInv, AfterBase
<1>4. CASE RestartTasks(S)
  <2>1. /\ status' = status /\ ahead' = {} /\ behind' = {} /\ pending' = NoPending
        /\ \A p \in Partitions : pos'[p] = ckpt.pos[p] \/ pos'[p] = pos[p]
    BY <1>4 DEF RestartTasks
  <2>2. AfterBase'
    BY <1>1, <2>1 DEF CountInv, AfterBase, Running, NoPending
  <2>3. ASSUME keyBy PROVE pos' = ckpt.pos /\ count' = ckpt.count /\ base' = ckpt.base
    <3>1. ckpt.pos \in [Partitions -> Nat]
      BY DEF TypeOK, Snapshots, Offsets
    <3>2. \A p \in Partitions : SplitOwner[p] \in S
      BY <2>3, OwnersAssumption
    <3>3. pos' = [p \in Partitions |-> ckpt.pos[p]]
      BY <1>4, <3>2 DEF RestartTasks
    <3> QED
      BY <1>1, <1>4, <2>3, <3>1, <3>3 DEF RestartTasks, CountInv, AfterBase
  <2>4. ASSUME keyBy, NEW t \in Tenants
        PROVE  count'[t] = Cardinality((Span(base, pos, t) \ (ahead \cup behind))')
    <3>1. (Span(base, pos, t) \ (ahead \cup behind))' = Span(ckpt.base, ckpt.pos, t)
      BY <1>1, <2>1, <2>3, <2>4 DEF Span, Kind
    <3> QED
      BY <2>3, <2>4, <3>1, CountsMatchSpan DEF CountInv, CountsMatchOffsets
  <2>5. ChannelsCounted'
    BY <1>1, <2>1, <2>4 DEF ChannelsCounted
  <2>6. PartsMatch'
    BY <2>1 DEF PartsMatch, NoPending
  <2> QED
    BY <1>2, <2>2, <2>5, <2>6 DEF CountInv
<1> QED
  BY <1>3, <1>4 DEF FailTasks

LEMMA SavedStays ==
    ASSUME CountInv, UNCHANGED <<log, keyBy, ckpt, savepoint>>
    PROVE  CountsMatchOffsets'
BY DEF CountInv, CountsMatchOffsets, CountsMatch, Kind

\* The record read next is a new one, and the only one that the read adds.
LEMMA ReadExtends ==
    ASSUME TypeOK, CountInv, NEW p \in Partitions, NEW k, Emits(p, k),
           pos' = [pos EXCEPT ![p] = @ + 1],
           UNCHANGED <<log, status, keyBy, base, pending, ckpt, savepoint>>
    PROVE  /\ Next1(p) \in Coords /\ Kind(Next1(p)) = k
           /\ Next1(p)[1] = p /\ Next1(p)[2] = pos[p] + 1
           /\ base[p] < pos[p] + 1
           /\ \A q \in Partitions : pos'[q] = IF q = p THEN pos[p] + 1 ELSE pos[q]
           /\ \A t : /\ Span(base, pos, t)'
                            = Span(base, pos, t) \cup (IF t = k THEN {Next1(p)} ELSE {})
                     /\ Next1(p) \notin Span(base, pos, t)
           /\ Next1(p) \notin ahead \cup behind
           /\ AfterBase'
<1>1. /\ Next1(p)[1] = p /\ Next1(p)[2] = pos[p] + 1 /\ Running /\ pos[p] < Len(log[p])
      /\ log[p][pos[p] + 1] = k
  BY DEF Next1, Emits
<1>2. Next1(p) \in Coords /\ Kind(Next1(p)) = k
  BY <1>1, Next1InCoords DEF Kind
<1>3. \A q \in Partitions : pos'[q] = IF q = p THEN pos[p] + 1 ELSE pos[q]
  BY DEF TypeOK, Offsets
<1>4. pos[p] \in Nat /\ base[p] \in Nat /\ base[p] <= pos[p]
  BY <1>1, PositionTypes DEF CountInv, AfterBase
<1>5. base[p] < pos[p] + 1
  BY <1>4
<1>6. ASSUME NEW t
      PROVE  /\ Span(base, pos, t)'
                   = Span(base, pos, t) \cup (IF t = k THEN {Next1(p)} ELSE {})
             /\ Next1(p) \notin Span(base, pos, t)
  <2>1. Next1(p) \notin Span(base, pos, t)
    BY <1>1, <1>4 DEF Span
  <2>2. ASSUME NEW c \in Coords, c[1] = p, c[2] <= pos[p] + 1, ~(c[2] <= pos[p])
        PROVE  c = Next1(p)
    BY <1>4, <2>2, CoordTypes DEF Next1
  <2>3. ASSUME NEW c \in Coords
        PROVE  c[2] <= pos'[c[1]] <=> (c[2] <= pos[c[1]] \/ c = Next1(p))
    <3>1. CASE c[1] = p
      BY <1>1, <1>3, <1>4, <2>2, <3>1, CoordTypes
    <3>2. CASE c[1] # p
      BY <1>1, <1>3, <3>2, CoordTypes
    <3> QED
      BY <3>1, <3>2
  <2>4. ASSUME NEW c \in Coords
        PROVE  c \in Span(base, pos, t)'
                  <=> c \in Span(base, pos, t) \/ (t = k /\ c = Next1(p))
    <3>1. c \in Span(base, pos, t)'
             <=> base[c[1]] < c[2] /\ c[2] <= pos'[c[1]] /\ Kind(c) = t
      BY DEF Span, Kind
    <3>2. c \in Span(base, pos, t)
             <=> base[c[1]] < c[2] /\ c[2] <= pos[c[1]] /\ Kind(c) = t
      BY DEF Span
    <3>3. c = Next1(p) => base[c[1]] < c[2] /\ Kind(c) = k
      BY <1>1, <1>2, <1>5
    <3> QED
      BY <2>3, <3>1, <3>2, <3>3
  <2>5. Span(base, pos, t)' \subseteq Coords /\ Span(base, pos, t) \subseteq Coords
    BY DEF Span
  <2> QED
    BY <1>2, <2>1, <2>4, <2>5
<1>7. Next1(p) \notin ahead \cup behind
  BY <1>1, <1>4 DEF CountInv, ChannelsCounted
<1>8. AfterBase'
  <2>1. \A q \in Partitions : pos[q] <= pos'[q] /\ pos[q] \in Nat /\ pos'[q] \in Nat
    BY <1>3, <1>4, PositionTypes
  <2>2. ASSUME NEW q \in Partitions
        PROVE  /\ base[q] <= pos'[q]
               /\ SplitOwner[q] \in pending.taken => pending.pos[q] <= pos'[q]
    BY <1>1, <2>1, PositionTypes DEF CountInv, AfterBase
  <2> QED
    BY <1>1, <2>2 DEF CountInv, AfterBase, Running
<1> QED
  BY <1>1, <1>2, <1>3, <1>5, <1>6, <1>7, <1>8

\* Rejected records are not counted, and the baseline graph counts nothing.
LEMMA ReadUncounted ==
    ASSUME TypeOK, DeliveryInv, CountInv, NEW p \in Partitions,
           ReadInvalid(p) \/ ReadToSink(p)
    PROVE  CountInv'
<1> USE DEF jobVars, ckptVars
<1>1. /\ pos' = [pos EXCEPT ![p] = @ + 1]
      /\ UNCHANGED <<log, status, keyBy, base, ahead, behind, count,
                     pending, ckpt, savepoint>>
  BY DEF ReadInvalid, ReadToSink
<1>2. PICK k : Emits(p, k) /\ (keyBy => k = Malformed)
  BY DEF ReadInvalid, ReadToSink
<1>3. /\ AfterBase' /\ Next1(p)[1] = p
      /\ \A q \in Partitions : pos[q] <= pos'[q] /\ pos[q] \in Nat /\ pos'[q] \in Nat
  <2>1. AfterBase' /\ Next1(p)[1] = p
           /\ \A q \in Partitions : pos'[q] = IF q = p THEN pos[p] + 1 ELSE pos[q]
    BY <1>1, <1>2, ReadExtends
  <2> QED
    BY <2>1, PositionTypes
<1>4. ASSUME keyBy, NEW t \in Tenants PROVE Span(base, pos, t)' = Span(base, pos, t)
  <2>1. t # k
    BY <1>2, <1>4, KindsAssumption
  <2>2. \A u : /\ Span(base, pos, u)'
                      = Span(base, pos, u) \cup (IF u = k THEN {Next1(p)} ELSE {})
               /\ Next1(p) \notin Span(base, pos, u)
    BY <1>1, <1>2, ReadExtends
  <2> QED
    BY <2>1, <2>2
<1>5. ASSUME NEW c \in ahead \cup behind PROVE base[c[1]] < c[2] /\ c[2] <= pos'[c[1]]
  <2>1. c \in Coords
    BY DEF TypeOK
  <2>2. base[c[1]] < c[2] /\ c[2] <= pos[c[1]]
    BY DEF CountInv, ChannelsCounted
  <2> QED
    BY <1>3, <2>1, <2>2, CoordTypes
<1>6. ChannelsCounted'
  <2>1. ASSUME (keyBy /\ Running)', NEW t \in Tenants
        PROVE  count'[t] = Cardinality((Span(base, pos, t) \ (ahead \cup behind))')
    <3>1. (Span(base, pos, t) \ (ahead \cup behind))' = Span(base, pos, t) \ (ahead \cup behind)
      BY <1>1, <1>4, <2>1
    <3> QED
      BY <1>1, <2>1, <3>1 DEF CountInv, ChannelsCounted, Running
  <2> QED
    BY <1>1, <1>5, <2>1 DEF CountInv, ChannelsCounted
<1>7. PartsMatch'
  <2>1. \A t : Span(base, pending.pos, t)' = Span(base, pending.pos, t)
    BY <1>1 DEF Span, Kind
  <2> QED
    BY <1>1, <1>4, <2>1 DEF CountInv, PartsMatch, Running
<1> QED
  BY <1>1, <1>3, <1>6, <1>7, SavedStays DEF CountInv

\* A valid record read by the keyed graph is in a channel until it is counted,
\* behind the barrier if its source has taken its part.
LEMMA ReadToKeyedCount ==
    ASSUME TypeOK, DeliveryInv, CountInv, NEW p \in Partitions, ReadToKeyed(p)
    PROVE  CountInv'
<1> USE DEF jobVars, ckptVars
<1>1. /\ pos' = [pos EXCEPT ![p] = @ + 1] /\ keyBy
      /\ UNCHANGED <<log, status, keyBy, base, count, pending, ckpt, savepoint>>
  BY DEF ReadToKeyed
<1>2. PICK k \in Tenants :
         /\ Emits(p, k)
         /\ \/ Behind(p, k) /\ behind' = behind \cup {Next1(p)} /\ ahead' = ahead
            \/ ~Behind(p, k) /\ ahead' = ahead \cup {Next1(p)} /\ behind' = behind
  BY DEF ReadToKeyed
<1> DEFINE new == Next1(p)
<1>3. /\ new \in Coords /\ Kind(new) = k /\ new[1] = p /\ new[2] = pos[p] + 1
      /\ base[p] < pos[p] + 1
      /\ \A q \in Partitions : pos'[q] = IF q = p THEN pos[p] + 1 ELSE pos[q]
      /\ \A t : /\ Span(base, pos, t)'
                       = Span(base, pos, t) \cup (IF t = k THEN {new} ELSE {})
                /\ new \notin Span(base, pos, t)
      /\ new \notin ahead \cup behind /\ AfterBase'
  BY <1>1, <1>2, ReadExtends
<1> HIDE DEF new
<1>4. ahead' \cup behind' = ahead \cup behind \cup {new} /\ ahead' \cap behind' = {}
  BY <1>2, <1>3 DEF CountInv, ChannelsCounted, new
<1>5. ASSUME NEW c \in ahead' \cup behind' PROVE base[c[1]] < c[2] /\ c[2] <= pos'[c[1]]
  <2>1. CASE c = new
    BY <1>3, <2>1, PositionTypes
  <2>2. CASE c \in ahead \cup behind
    <3>1. c \in Coords /\ base[c[1]] < c[2] /\ c[2] <= pos[c[1]]
      BY <2>2 DEF TypeOK, CountInv, ChannelsCounted
    <3>2. c[1] \in Partitions /\ c[2] \in Nat /\ pos[c[1]] \in Nat /\ pos[p] \in Nat
      BY <3>1, CoordTypes, PositionTypes
    <3>3. pos[c[1]] <= pos'[c[1]] /\ pos'[c[1]] \in Nat
      BY <1>3, <3>2
    <3> QED
      BY <3>1, <3>2, <3>3
  <2> QED
    BY <1>4, <2>1, <2>2
<1>6. ChannelsCounted'
  <2>1. ASSUME (keyBy /\ Running)', NEW t \in Tenants
        PROVE  count'[t] = Cardinality((Span(base, pos, t) \ (ahead \cup behind))')
    <3>1. (Span(base, pos, t) \ (ahead \cup behind))' = Span(base, pos, t) \ (ahead \cup behind)
      BY <1>3, <1>4
    <3> QED
      BY <1>1, <2>1, <3>1 DEF CountInv, ChannelsCounted, Running
  <2> QED
    BY <1>1, <1>4, <1>5, <2>1 DEF ChannelsCounted
<1>7. PartsMatch'
  <2>1. \A t : Span(base, pending.pos, t)' = Span(base, pending.pos, t)
    BY <1>1 DEF Span, Kind
  <2>2. Running
    BY <1>2 DEF Emits
  <2>3. ASSUME NEW t \in Tenants, KeyOwner[t] \notin pending.acked,
               NEW c \in Span(base, pos, t)', SplitOwner[c[1]] \in pending.taken
        PROVE  c \in behind' <=> pending.pos[c[1]] < c[2]
    <3>1. CASE c \in Span(base, pos, t)
      <4>1. c # new /\ (c \in behind' <=> c \in behind)
        BY <1>2, <1>3, <3>1 DEF new
      <4> QED
        BY <1>1, <2>2, <2>3, <3>1, <4>1 DEF CountInv, PartsMatch
    <3>2. CASE c = new /\ t = k
      <4>1. c \in behind'
        BY <1>2, <1>3, <2>3, <3>2 DEF Behind, new
      <4>2. pending.pos[p] <= pos[p]
        BY <1>3, <2>2, <2>3, <3>2 DEF CountInv, AfterBase
      <4>3. pending.pos[c[1]] < c[2]
        BY <1>3, <3>2, <4>2, PositionTypes
      <4> QED
        BY <4>1, <4>3
    <3> QED
      BY <1>3, <2>3, <3>1, <3>2
  <2> QED
    BY <1>1, <2>1, <2>2, <2>3 DEF CountInv, PartsMatch, Running
<1> QED
  BY <1>1, <1>3, <1>6, <1>7, SavedStays DEF CountInv

\* Counting a record takes it out of its channel.
LEMMA CountByTenantCount ==
    ASSUME TypeOK, DeliveryInv, CountInv, NEW c \in Coords, CountByTenant(c)
    PROVE  CountInv'
<1> USE DEF jobVars, ckptVars
<1> DEFINE k == Kind(c)
<1>1. /\ c \in ahead /\ ahead' = ahead \ {c} /\ Running
      /\ count' = [count EXCEPT ![k] = @ + 1]
      /\ UNCHANGED <<log, status, keyBy, base, pos, behind, pending, ckpt, savepoint>>
  BY DEF CountByTenant
<1>2. keyBy /\ k \in Tenants
  BY <1>1 DEF DeliveryInv, WellPlaced, BarriersInOrder
<1>3. c \notin behind /\ base[c[1]] < c[2] /\ c[2] <= pos[c[1]]
  BY <1>1 DEF CountInv, ChannelsCounted
<1>4. \A t : /\ Span(base, pos, t)' = Span(base, pos, t)
             /\ Span(base, pending.pos, t)' = Span(base, pending.pos, t)
  BY <1>1 DEF Span, Kind
<1>5. ASSUME NEW t \in Tenants
      PROVE  count'[t] = Cardinality((Span(base, pos, t) \ (ahead \cup behind))')
  <2> DEFINE done == Span(base, pos, t) \ (ahead \cup behind)
  <2>1. count[t] = Cardinality(done) /\ count'[t] = IF t = k THEN count[t] + 1 ELSE count[t]
    BY <1>1, <1>2 DEF CountInv, ChannelsCounted, TypeOK, Counts
  <2>2. IsFiniteSet(done)
    <3>1. done \in SUBSET Coords
      BY DEF Span
    <3> QED
      BY <3>1, SpansAreFinite
  <2>3. CASE t = k
    <3>1. c \in Span(base, pos, t) /\ c \notin done
      BY <1>1, <1>3, <2>3 DEF Span
    <3>2. (Span(base, pos, t) \ (ahead \cup behind))' = done \cup {c}
      BY <1>1, <1>3, <1>4, <3>1
    <3>3. Cardinality(done \cup {c}) = Cardinality(done) + 1
      BY <2>2, <3>1, FS_AddElement
    <3> QED
      BY <2>1, <2>3, <3>2, <3>3
  <2>4. CASE t # k
    <3>1. c \notin Span(base, pos, t)
      BY <2>4 DEF Span
    <3>2. (Span(base, pos, t) \ (ahead \cup behind))' = done
      BY <1>1, <1>4, <3>1
    <3> QED
      BY <2>1, <2>4, <3>2
  <2> QED
    BY <2>3, <2>4
<1>6. ChannelsCounted'
  BY <1>1, <1>5 DEF CountInv, ChannelsCounted
<1>7. PartsMatch'
  BY <1>1, <1>4 DEF CountInv, PartsMatch, Running
<1>8. AfterBase'
  BY <1>1 DEF CountInv, AfterBase, Running
<1> QED
  BY <1>1, <1>6, <1>7, <1>8, SavedStays DEF CountInv

\* A source takes its part: nothing it has read is past the position it takes.
LEMMA SnapshotSourceCount ==
    ASSUME TypeOK, DeliveryInv, CountInv, NEW s \in Subtasks, SnapshotSource(s)
    PROVE  CountInv'
<1> USE DEF jobVars, flowVars
<1>1. /\ s \notin pending.taken /\ Running
      /\ UNCHANGED <<log, status, keyBy, base, pos, ahead, behind, count, ckpt, savepoint>>
  BY DEF SnapshotSource
<1>2. /\ pending'.taken = pending.taken \cup {s} /\ pending'.count = pending.count
      /\ keyBy => pending'.acked = pending.acked
      /\ \A p \in Partitions :
            pending'.pos[p] = IF SplitOwner[p] = s THEN pos[p] ELSE pending.pos[p]
  BY DEF SnapshotSource, TypeOK, Attempts
<1>3. AfterBase'
  <2>1. ASSUME NEW p \in Partitions, SplitOwner[p] \in pending'.taken
        PROVE  base[p] <= pending'.pos[p] /\ pending'.pos[p] <= pos[p]
    BY <1>1, <1>2, <2>1, PositionTypes DEF CountInv, AfterBase
  <2> QED
    BY <1>1, <2>1 DEF CountInv, AfterBase, Running
<1>4. \A t : Span(base, pos, t)' = Span(base, pos, t)
  BY <1>1 DEF Span, Kind
<1>5. ChannelsCounted'
  BY <1>1, <1>4 DEF CountInv, ChannelsCounted, Running
<1>6. ASSUME keyBy PROVE pending.acked = {} /\ pending'.acked = {}
  BY <1>1, <1>2, <1>6 DEF DeliveryInv, BarriersInOrder
<1>7. ASSUME keyBy, NEW t \in Tenants, NEW c \in Span(base, pos, t),
             SplitOwner[c[1]] \in pending'.taken
      PROVE  c \in behind <=> pending'.pos[c[1]] < c[2]
  <2>1. c \in Coords /\ c[2] <= pos[c[1]]
    BY <1>7 DEF Span
  <2>2. c[1] \in Partitions /\ c[2] \in Nat /\ pos[c[1]] \in Nat
    BY <2>1, CoordTypes, PositionTypes
  <2>3. CASE SplitOwner[c[1]] = s
    <3>1. c \notin behind
      BY <1>1, <2>3 DEF DeliveryInv, BarriersInOrder
    <3>2. pending'.pos[c[1]] = pos[c[1]]
      BY <1>2, <2>2, <2>3
    <3> QED
      BY <2>1, <2>2, <3>1, <3>2
  <2>4. CASE SplitOwner[c[1]] # s
    <3>1. SplitOwner[c[1]] \in pending.taken /\ pending'.pos[c[1]] = pending.pos[c[1]]
      BY <1>2, <1>7, <2>2, <2>4
    <3> QED
      BY <1>1, <1>6, <1>7, <3>1 DEF CountInv, PartsMatch
  <2> QED
    BY <2>3, <2>4
<1>8. PartsMatch'
  BY <1>1, <1>4, <1>6, <1>7 DEF PartsMatch
<1> QED
  BY <1>1, <1>3, <1>5, <1>8, SavedStays DEF CountInv

\* A keyed subtask takes its part: with no record of its own ahead of the barrier
\* it has counted exactly the records up to the positions taken.
LEMMA SnapshotKeyedCount ==
    ASSUME TypeOK, DeliveryInv, CountInv, NEW j \in Subtasks, SnapshotKeyed(j)
    PROVE  CountInv'
<1> USE DEF jobVars
<1>1. /\ keyBy /\ Running /\ pending.taken = Subtasks /\ j \notin pending.acked
      /\ \A c \in ahead : SinkOf(c) # j
      /\ ahead' = ahead \cup Released(j) /\ behind' = behind \ Released(j)
      /\ UNCHANGED <<log, status, keyBy, base, pos, count, ckpt, savepoint>>
  BY DEF SnapshotKeyed
<1>2. /\ pending'.taken = pending.taken /\ pending'.pos = pending.pos
      /\ pending'.acked = pending.acked \cup {j}
      /\ \A t \in Tenants :
            pending'.count[t] = IF KeyOwner[t] = j THEN count[t] ELSE pending.count[t]
  BY DEF SnapshotKeyed, TypeOK, Attempts
<1>3. /\ Released(j) \subseteq behind
      /\ \A c \in behind : c \in Released(j) <=> KeyOwner[Kind(c)] = j
      /\ \A c \in ahead : KeyOwner[Kind(c)] # j
  BY <1>1 DEF Released, SinkOf
<1>4. ahead' \cup behind' = ahead \cup behind /\ ahead' \cap behind' = {}
  BY <1>1, <1>3 DEF CountInv, ChannelsCounted
<1>5. \A t : /\ Span(base, pos, t)' = Span(base, pos, t)
             /\ Span(base, pending.pos, t)' = Span(base, pending.pos, t)
  BY <1>1, <1>2 DEF Span, Kind
<1>6. AfterBase'
  BY <1>1, <1>2 DEF CountInv, AfterBase, Running
<1>7. ChannelsCounted'
  BY <1>1, <1>4, <1>5 DEF CountInv, ChannelsCounted, Running
<1>8. ASSUME NEW t \in Tenants, KeyOwner[t] = j
      PROVE  count[t] = Cardinality(Span(base, pending.pos, t))
  <2>1. count[t] = Cardinality(Span(base, pos, t) \ (ahead \cup behind))
    BY <1>1 DEF CountInv, ChannelsCounted
  <2>2. ASSUME NEW c \in Coords, Kind(c) = t, base[c[1]] < c[2]
        PROVE  c[2] <= pos[c[1]] /\ c \notin ahead \cup behind <=> c[2] <= pending.pos[c[1]]
    <3>1. /\ c[1] \in Partitions /\ c[2] \in Nat /\ SplitOwner[c[1]] \in pending.taken
          /\ pos[c[1]] \in Nat /\ pending.pos[c[1]] \in Nat
      BY <1>1, CoordTypes, PositionTypes, OwnersAssumption
    <3>2. pending.pos[c[1]] <= pos[c[1]]
      BY <1>1, <3>1 DEF CountInv, AfterBase
    <3>3. c \notin ahead
      BY <1>3, <1>8, <2>2
    <3>4. CASE c[2] <= pos[c[1]]
      <4>1. c \in Span(base, pos, t)
        BY <2>2, <3>4 DEF Span
      <4>2. c \in behind <=> pending.pos[c[1]] < c[2]
        BY <1>1, <1>8, <3>1, <4>1 DEF CountInv, PartsMatch
      <4> QED
        BY <3>1, <3>3, <3>4, <4>2
    <3>5. CASE ~(c[2] <= pos[c[1]])
      BY <3>1, <3>2, <3>5
    <3> QED
      BY <3>4, <3>5
  <2>3. Span(base, pos, t) \ (ahead \cup behind) = Span(base, pending.pos, t)
    BY <2>2 DEF Span
  <2> QED
    BY <2>1, <2>3
<1>9. PartsMatch'
  <2>1. ASSUME NEW t \in Tenants, KeyOwner[t] \notin pending'.acked,
               NEW c \in Span(base, pos, t), SplitOwner[c[1]] \in pending.taken
        PROVE  c \in behind' <=> pending.pos[c[1]] < c[2]
    <3>1. KeyOwner[t] # j /\ KeyOwner[t] \notin pending.acked /\ Kind(c) = t
      BY <1>2, <2>1 DEF Span
    <3>2. c \in behind' <=> c \in behind
      BY <1>1, <1>3, <3>1
    <3> QED
      BY <1>1, <2>1, <3>1, <3>2 DEF CountInv, PartsMatch
  <2>2. ASSUME NEW t \in Tenants, KeyOwner[t] \in pending'.acked
        PROVE  pending'.count[t] = Cardinality(Span(base, pending.pos, t))
    BY <1>1, <1>2, <1>8, <2>2 DEF CountInv, PartsMatch
  <2> QED
    BY <1>2, <1>5, <2>1, <2>2 DEF PartsMatch
<1> QED
  BY <1>1, <1>6, <1>7, <1>9, SavedStays DEF CountInv

\* When every subtask has taken its part, the parts make one consistent snapshot.
LEMMA TakenMatches ==
    ASSUME TypeOK, DeliveryInv, CountInv, Running, pending.acked = Subtasks
    PROVE  /\ \A p \in Partitions : base[p] <= pending.pos[p]
           /\ keyBy => CountsMatch(Taken)
<1>1. ASSUME NEW p \in Partitions PROVE SplitOwner[p] \in pending.taken
  BY OwnersAssumption DEF DeliveryInv, BarriersInOrder
<1>2. ASSUME keyBy, NEW t \in Tenants
      PROVE  pending.count[t] = Cardinality(Span(base, pending.pos, t))
  BY <1>2, OwnersAssumption DEF CountInv, PartsMatch
<1>3. Taken.pos = pending.pos /\ Taken.count = pending.count /\ Taken.base = base
  BY DEF Taken
<1> QED
  BY <1>1, <1>2, <1>3 DEF CountInv, AfterBase, CountsMatch, Span

LEMMA CompleteCheckpointCount ==
    ASSUME TypeOK, DeliveryInv, CountInv, CompleteCheckpoint
    PROVE  CountInv'
<1> USE DEF jobVars, flowVars
<1>1. /\ Running /\ pending.acked = Subtasks /\ ckpt' = Taken /\ pending' = NoPending
      /\ UNCHANGED <<log, status, keyBy, base, pos, ahead, behind, count, savepoint>>
  BY DEF CompleteCheckpoint
<1>2. Taken.pos = pending.pos /\ Taken.count = pending.count /\ Taken.base = base
  BY DEF Taken
<1>3. CountsMatchOffsets'
  <2>1. keyBy => CountsMatch(ckpt)'
    BY <1>1, TakenMatches DEF CountsMatch, Kind
  <2>2. savepoint.keyed => CountsMatch(savepoint.snap)'
    BY <1>1 DEF CountInv, CountsMatchOffsets, CountsMatch, Kind
  <2> QED
    BY <1>1, <2>1, <2>2 DEF CountsMatchOffsets
<1>4. AfterBase'
  BY <1>1, <1>2, TakenMatches DEF CountInv, AfterBase, Running, NoPending
<1>5. ChannelsCounted'
  BY <1>1 DEF CountInv, ChannelsCounted, Running, Span, Kind
<1>6. PartsMatch'
  BY <1>1 DEF PartsMatch, NoPending
<1> QED
  BY <1>3, <1>4, <1>5, <1>6 DEF CountInv

LEMMA CompleteSavepointCount ==
    ASSUME TypeOK, DeliveryInv, CountInv, CompleteSavepoint
    PROVE  CountInv'
<1>1. /\ Running /\ pending.acked = Subtasks /\ EndJob("stopped")
      /\ savepoint' = [made |-> TRUE, keyed |-> keyBy, snap |-> Taken]
      /\ UNCHANGED <<log, ckpt>>
  BY DEF CompleteSavepoint
<1>2. keyBy' = keyBy
  BY <1>1 DEF EndJob
<1>3. savepoint'.keyed = keyBy /\ savepoint'.snap = Taken
  BY <1>1
<1>4. CountsMatchOffsets'
  <2>1. keyBy => CountsMatch(ckpt)'
    BY <1>1 DEF CountInv, CountsMatchOffsets, CountsMatch, Kind
  <2>2. keyBy => CountsMatch(savepoint.snap)'
    BY <1>1, <1>3, TakenMatches DEF CountsMatch, Kind
  <2> QED
    BY <1>2, <1>3, <2>1, <2>2 DEF CountsMatchOffsets
<1>5. Taken.pos = pending.pos /\ Taken.base = base
  BY DEF Taken
<1> QED
  BY <1>1, <1>3, <1>4, <1>5, TakenMatches, EndJobCount DEF CountInv, AfterBase

LEMMA NextCountInv == TypeOK /\ DeliveryInv /\ CountInv /\ [Next]_vars => CountInv'
<1> SUFFICES ASSUME TypeOK, DeliveryInv, CountInv, [Next]_vars PROVE CountInv'
  OBVIOUS
<1> USE DEF jobVars, flowVars, ckptVars, storeVars
<1>a. ASSUME Running, NEW s, \E S \in Regions(s) : FailTasks(S) PROVE CountInv'
  <2>1. PICK S \in Regions(s) : FailTasks(S)
    BY <1>a
  <2>2. keyBy => S = Subtasks
    BY <2>1 DEF Regions
  <2> QED
    BY <1>a, <2>1, <2>2, RegionsAreSubtasks, FailTasksCount
<1>1. ASSUME NEW p \in Partitions, NEW k \in Kinds, Produce(p, k) PROVE CountInv'
  BY <1>1, ProduceCount
<1>2. ASSUME NEW mode \in Modes, Submit(mode) PROVE CountInv'
  <2>1. \A t \in Tenants : EmptySnapshot.count[t] = 0
                /\ Cardinality(Span(EmptySnapshot.base, EmptySnapshot.pos, t)) = 0
    BY NoSpan, EmptyTypes DEF EmptySnapshot, NoCounts
  <2>2. \A p \in Partitions : EmptySnapshot.base[p] <= EmptySnapshot.pos[p]
    BY DEF EmptySnapshot, AtStart
  <2> QED
    BY <1>2, <2>1, <2>2, EmptyTypes, StartFromCount DEF Submit
<1>3. ASSUME NEW mode \in Modes, Restore(mode) PROVE CountInv'
  <2>1. savepoint.snap \in Snapshots
    BY DEF TypeOK, Savepoints
  <2>2. CASE mode /\ savepoint.keyed
    <3>1. StartFrom(savepoint.snap, mode)
      BY <1>3, <2>2 DEF Restore
    <3>2. \A t \in Tenants : savepoint.snap.count[t]
                  = Cardinality(Span(savepoint.snap.base, savepoint.snap.pos, t))
      BY <2>2, CountsMatchSpan DEF CountInv, CountsMatchOffsets
    <3> QED
      BY <1>3, <2>1, <3>1, <3>2, StartFromCount DEF Restore, CountInv, AfterBase
  <2>3. CASE ~(mode /\ savepoint.keyed)
    <3> DEFINE snap == [savepoint.snap EXCEPT !.count = NoCounts,
                                              !.base = savepoint.snap.pos]
    <3>1. StartFrom(snap, mode)
      BY <1>3, <2>3 DEF Restore
    <3>2. /\ snap \in Snapshots /\ snap.pos = savepoint.snap.pos
          /\ snap.base = savepoint.snap.pos /\ snap.count = NoCounts
          /\ savepoint.snap.pos \in Offsets
      BY <2>1, EmptyTypes DEF Snapshots
    <3> HIDE DEF snap
    <3>3. \A t \in Tenants : snap.count[t] = Cardinality(Span(snap.base, snap.pos, t))
      BY <3>2, NoSpan DEF NoCounts
    <3>4. \A p \in Partitions : snap.base[p] <= snap.pos[p]
      BY <3>2 DEF Offsets
    <3> QED
      BY <1>3, <3>1, <3>2, <3>3, <3>4, StartFromCount DEF Restore
  <2> QED
    BY <2>2, <2>3
<1>4. CASE Cancel
  <2>1. /\ EndJob("absent") /\ UNCHANGED <<log, keyBy, ckpt, savepoint>>
    BY <1>4 DEF Cancel, EndJob
  <2>2. CountsMatchOffsets'
    BY <2>1, SavedStays
  <2> QED
    BY <2>1, <2>2, EndJobCount DEF CountInv, AfterBase
<1>5. CASE Crash
  BY <1>5, <1>a DEF Crash
<1>6. ASSUME NEW p \in Partitions, Read(p) PROVE CountInv'
  <2>1. CASE ReadRaises(p)
    BY <1>a, <2>1 DEF ReadRaises, Emits
  <2> QED
    BY <1>6, <2>1, ReadUncounted, ReadToKeyedCount DEF Read
<1>7. ASSUME NEW c \in Coords, CountByTenant(c) PROVE CountInv'
  BY <1>7, CountByTenantCount
<1>8. ASSUME NEW c \in Coords, DeliverEnvelope(c) PROVE CountInv'
  BY <1>8, CountStays DEF DeliverEnvelope
<1>9. ASSUME NEW s \in Subtasks, FlushAttempt(s) PROVE CountInv'
  <2>1. CASE Flush(s) \/ FlushFails(s)
    BY <2>1, CountStays DEF Flush, FlushFails
  <2>2. CASE FlushGivesUp(s)
    BY <1>a, <2>2 DEF FlushGivesUp
  <2> QED
    BY <1>9, <2>1, <2>2 DEF FlushAttempt
<1>10. ASSUME NEW s \in Subtasks, Snapshot(s) PROVE CountInv'
  BY <1>10, SnapshotSourceCount, SnapshotKeyedCount DEF Snapshot
\* A checkpoint that begins has no part yet.
<1>11. ASSUME NEW kind \in {"checkpoint", "savepoint"}, Trigger(kind) PROVE CountInv'
  <2>1. /\ UNCHANGED <<log, status, keyBy, base, pos, ahead, behind, count, ckpt, savepoint>>
        /\ pending'.taken = {} /\ pending'.acked = {}
    BY <1>11 DEF Trigger, NoPending
  <2>2. AfterBase' /\ PartsMatch'
    BY <2>1 DEF CountInv, AfterBase, PartsMatch, Running
  <2>3. ChannelsCounted'
    BY <2>1 DEF CountInv, ChannelsCounted, Running, Span, Kind
  <2> QED
    BY <2>1, <2>2, <2>3, SavedStays DEF CountInv
<1>12. CASE Complete
  BY <1>12, CompleteCheckpointCount, CompleteSavepointCount DEF Complete
<1>13. CASE UNCHANGED vars
  BY <1>13, CountStays DEF vars
<1> QED
  BY <1>1, <1>2, <1>3, <1>4, <1>5, <1>6, <1>7, <1>8, <1>9, <1>10, <1>11, <1>12, <1>13
  DEF Next

THEOREM CountInvariant == Spec => []CountInv
BY InitCountInv, NextCountInv, TypeCorrect, DeliveryInvariant, PTL DEF Spec

\* Exactly-once state for any number of partitions, subtasks, tenants and records
\* and any assignment of owners: the tenant counts of the checkpoint and of the
\* savepoint of the keyed graph (build_pipeline, tenant-record-count) are the
\* valid records up to the positions saved with them, whatever is in the channels
\* when the parts are taken and however often a task restarts.
THEOREM CountsMatchOffsetsHolds == Spec => []CountsMatchOffsets
<1>1. CountInv => CountsMatchOffsets
  BY DEF CountInv
<1> QED
  BY <1>1, CountInvariant, PTL
=============================================================================
