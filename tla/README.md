# A TLA+ model of the streaming ingestion lab

This directory specifies the parts of the repository whose correctness depends
on interleavings, failures and order: the Flink job and its checkpoints, event
time, validation, the producer's load and its delivery accounting, the commands
that stop, rebuild and submit the job, the rotation of passwords, and the two
scripts that judge the running lab. TLC checks every module on small instances,
and TLAPS proves most of the safety properties for all.

Paths below are relative to the repository. A definition carries the name of the
function or setting it stands for where TLA+ allows, and `PROJECT.json` maps each
one to its lines.

## 1. The system

```
producer.py ──> Kafka telemetry.raw ──> Flink job ──> ClickHouse telemetry_events
   |  callbacks        (partitions)      |  side output
   └─ ProducerStats                      └──> Kafka telemetry.dlq
make / keyby_lab.py ──> Flink REST, flink CLI, docker compose
```

| Component | State | Operations | Hard behaviour | Correct when |
|---|---|---|---|---|
| Streaming job (`flink/job.py`, `docker-compose.yml`) | split positions, rows in channels and JDBC buffers, DLQ envelopes, keyed counts, checkpoints, committed offsets | read, validate, count by tenant, flush, checkpoint, restart, stop with savepoint, restore | barriers against rows in flight, crashes, half-inserted batches, two graphs | nothing is skipped, nothing is stored twice without a cause, counts match offsets, everything arrives |
| Event time (`logic.py`, `job.py`) | generator per split, watermarks in channels, watermark per operator | assign, emit, declare idle, align, measure lateness | splits of different speed, idleness, rejected records | a row is late only for a reason of its own split |
| Validation (`logic.py`) | none | `validate_event`, side output | combinations of defects, Python's numbers | rows fit the table, rejections are deserved, four categories |
| Producer (`producer.py`, `delivery.py`) | loop, counters, offset ranges, librdkafka queue | wait, enqueue, poll, flush, callbacks, signal | full queue, signal anywhere, exceptions, flush timeout, late appends | every attempt has one outcome, exit 0 means stored, the run ends |
| Job control (`keyby_control.py`, `keyby_common.py`, Makefile) | the cluster, and what a command remembers of it | savepoint, on, off, reset, rebuild, submit, deploy | stale guards, timeouts, failure after each step | one writer, no job is lost, the stopped job is continued |
| Workload (`workload.py`) | sequence, last `produced_at` | original, duplicate, malformed | equal clock ticks, a clock that is set back | replays can be told apart, only injected lateness is late |
| keyBy evidence (`keyby_evidence.py`) | what it has read so far | compare samples of REST and Prometheus | samples taken at different times, restarts, replaced jobs | a pass is true of the job it shows, a good job passes |
| Credentials (`credentials.py`, Makefile) | `.env`, the environment of containers, two volumes | generate, rotate, roll back, up | failure of every step, before or after its effect | nobody is locked out, a failure restores, a rotation heals |
| Smoke test (`smoke.sh`) | the counts it has taken | compare counts of four systems | counts taken while the job runs, backlog, other producers | passes only if all records arrived, fails only with a cause |
| Configuration, dashboards, logging | none | | | |

The producer and the job meet only in the raw topic, and the job control meets
the job only through REST, the `flink` command and Compose. Smoke test and keyBy
evidence only read, from systems that go on meanwhile. The table, both
topics and the savepoint directory are all that survives a restart of the
JobManager, which has neither high availability nor a restart policy.

## 2. The modules

| Module | What it models |
|---|---|
| `TelemetryJob` | the streaming job, detailed |
| `AtLeastOnceDelivery` | what the pipeline promises of the records of the raw topic |
| `TelemetryJobProofs` | theorems about `TelemetryJob`, among them that it implements `AtLeastOnceDelivery` |
| `EventTime` | timestamps, watermarks, idleness and lateness |
| `Validation` | `validate_event` and the output it decides |
| `Producer` | the publishing loop and its accounting |
| `KeyByControl` | the commands that change the cluster |
| `Credentials` | passwords, their rotation and its rollback |
| `Workload` | the events of a run |
| `SmokeTest` | the smoke test over `Workload`, the promise of `Producer` and that of the job |
| `KeyByEvidence` | `verify-keyby` against tasks, Prometheus and jobs |
| `<module>Proofs` | the inductive invariants and theorems about a module; those about `Workload` are in `SmokeTestProofs`, whose specification runs it |
| `MC...` | the constants of the instances |

### TelemetryJob

A record is a coordinate `<<partition, offset>>` and a kind: a tenant, `Malformed`
(validation rejects it) or `Raising` (validation raises). `log` is the topic.
Between the source and the stores a valid record is in `ahead` or `behind` (the
channels of `key_by`, before or behind the barrier of the pending checkpoint) and
then in `rows` (JDBC buffers); a rejected one is in `invalid` (the DLQ producer).
`key_by` is a hash shuffle, so `KeyOwner` names the owner of a tenant, and
`SplitOwner` the reader of a partition.

| Action | Code |
|---|---|
| `Produce` | delivery by `producer.py` |
| `Submit`, `Restore` | `make submit` (`KafkaOffsetsInitializer.earliest()`); `restore_command` |
| `ReadInvalid`, `ReadToSink`, `ReadToKeyed`, `ReadRaises` | source, `ParseValidateFunction`, and the chain behind it |
| `CountByTenant` | `TenantKeyedStateFunction.process_element` and its chain into the sink |
| `Flush`, `FlushFails`, `FlushGivesUp` | the JDBC sink with `JDBC_MAX_RETRIES` |
| `DeliverEnvelope` | the Kafka sink of the DLQ |
| `Trigger`, `SnapshotSource`, `SnapshotKeyed`, `CompleteCheckpoint`, `CompleteSavepoint` | aligned EXACTLY_ONCE checkpoints, one at a time; `flink stop` |
| `Crash`, `Cancel` | the fixed-delay restart strategy; a JobManager that is gone |

Choices that matter:

- In the keyed graph a failure restarts all tasks; in the baseline graph the
  chains are not connected, so any set of them that contains the failed one may
  restart (`Regions`). A stop in progress fails over as a whole.
- `SnapshotSource` and `SnapshotKeyed` require empty buffers, as the sinks flush
  before they let a barrier pass. A JDBC batch that is being retried blocks its
  chain (`retries[s] = 0` in the guards).
- A checkpoint that fails or times out fails the job, as no tolerable number of
  failed checkpoints is configured; this is `Crash`.
- `flink stop --drain` also sends the largest watermark. No operator has timers
  or windows, so it changes no state here.
- A batch goes out when it is full, after its interval, or for a checkpoint. The
  model lets it go out at any time, which includes all three.
- PyFlink processes elements in bundles. A bundle is finished before a barrier
  passes, so a record in an open bundle is a record of `ahead`, `rows` or the
  source's future.
- The history variables `base` (where counting started) and `disturbed` (something
  happened after which a replay is legal) are read by properties only, and `base`
  travels in snapshots.

### EventTime

Rows and watermarks travel in order in `channel[edge]`. `Observe` is the timestamp
assigner and the generator of one split, `PeriodicEmit` is Flink's periodic emission
with idleness, `ReceiveStatus` the alignment at the operator behind, and `ReceiveRow`
is `ObserveLatenessFunction`. Alignment and the emission follow Flink, which is
external; what the repository decides is where timestamps are assigned
(`GeneratorOf`), what a rejected record's timestamp is (`TimeOfRejected`), and how
lateness is computed; the column that shows the watermark a row met
(`watermark_at_arrival`) is left out. Any split may become idle at any emission: the clock of
`with_idleness` is abstracted to that choice, and a split that has had no record since
stays idle.

### Validation

A JSON value is represented by its kind, as fine as the readers and the columns can
tell apart: booleans and the ranges of whole numbers, texts that are blank, ordinary
or timestamps. The order of the readers is that of `_build_validated_event`.

### Producer

The main thread is `pc`; `_enqueue` is `try`, `produce` and `full`. Callbacks run where
librdkafka runs them, inside `poll` and `flush` (`Polling`), in any order. A signal
sets `stop` between any two steps. librdkafka may refuse a message (queue full, any
other exception), report it as delivered or failed, and the broker may append it
after it was reported as failed, counted as undelivered, or the process has ended.
Offsets are counted from 1 so that 0 can stand for a partition without a range.
Rates, payloads, latencies and periodic summaries are left out.

### KeyByControl

`pc[o]` is the next step of the command in terminal `o`. Guards, plan, stop, print,
build, recreate, check and submit are separate steps because the cluster and other
terminals move between them, and `Fails` may end a command at each of them. A stop goes
on in Flink after its command has timed out. `Forgotten` is what a recreated
JobManager does to jobs. `make submit` has no guard of its own; its text asks the
operator to check for an active job first, and `BeginSubmit` does. `rotate-credentials`
recreates the containers with force and submits without looking (`ForceRecreate`,
then `Run`). `make deploy` drops status and errors of `flink list`, so `ListRunning` may
find no job whatever runs. `deployed` is a history field of a job, for properties only.

### Credentials

There are four places for a password: `.env`, the environment a container was created
with (`loaded`), the volume of ClickHouse for the observer, and that of Grafana for its
administrator (`stored`). The main user of ClickHouse has no stored password: its
container reads the environment at each start, so a rotation only stages it in `.env`.
Passwords are numbered by the call that drew them.

| Action | Code |
|---|---|
| `Generate`, `Up`, `Reset`, `Ends` | `generate_credentials`, `make up`, `make reset`, containers that end |
| `BeginRotation`, `ReadCurrent` | `_container_id` twice, `_current_credentials`, `_new_environment` |
| `ResetGrafana`, `AlterObserver` | `_rotate_running_services`, one `docker exec` each (`Exec`) |
| `WriteEnvironment`, `WriteFails` | `_write_environment`, which replaces the file as a whole |
| `UndoObserver`, `UndoGrafana` | `_rollback_rotation` with `_best_effort` |
| `UpClickHouse`, `UpFlink`, `UpGrafana` | `docker compose up --force-recreate` in the order of `depends_on` |
| `RebuildFlink` | `rebuild_commands`: Flink alone, `--no-deps`, by the keyBy commands at any time |
| `Aborts` | any other error, and Ctrl-C, for which nothing is undone |

`Exec` has three outcomes: the password is set, it is not, or it is set and the command
fails all the same. The history variable `spoiled` remembers the last case, an undo that
failed and an abort; no script could restore what it cannot know.

### Workload and SmokeTest

`Workload` is `EventFactory` and `next_batch` with random draws as choices. A message's
fields are those its properties relate. `SmokeTest` extends it: what the producer makes
is in the raw topic, because the script goes on only after exit status 0
(`ExitZeroMeansStored` of `Producer`); the job puts each record at least once into table or
DLQ (`Deliver`), again after a restart (`Replay`), as `AtLeastOnceDelivery` promises. The
three counts of a round are three steps. An earlier record may be in the topic, still
owed or stored, the script may submit the job from the earliest offset, and another
producer may write. What the script checks after the counts only reads, and is one
step that may fail.

### KeyByEvidence

`counted` and `gauge` belong to one attempt of the tasks, `hotState` to the managed state,
which survives it. `sample` is the last scrape; `recent` the window of `max_over_time`.
`List`, `ReadGraph`, `ReadRecords`, `ReadHotState` and `Verify` are the requests of
`verify_keyby`, each against what is there at that moment, with the verdict computed at
the last one. The label `job_id` is not in the queries, so no guard ties a sample to a job.
Subtasks register their series one by one (`Open`), and `FLINK_PARALLELISM` may have been
another when the job was submitted.

One assumption is made about time: between the end of a job and the start of the next a
scrape takes place (`Submit`). `scrape_interval` is five seconds; a transition rebuilds and
recreates the services, and a submission alone starts a client, a Python worker and the
tasks. The six queries are three here: the gauges, the records, and the byte rates. There
is one TaskManager, so remote shuffle rates exist where local ones do and are zero.

## 3. What is checked

`tlc -workers 2 -config <run>.cfg <module>` in this directory. Distinct states are
those of complete explorations; the longest run takes less than three minutes on two
cores.

| Run | States | Properties |
|---|---:|---|
| `TelemetryJob_failures` | 1.40 M | `TypeOK`, `DeliveryInv`, `CountsMatchOffsets`, `ReplaysHaveACause`, `DeliverySpec` |
| `TelemetryJob_keyed` | 244 k | `AtLeastOnce`, `CommittedIsDurable`, `HotGaugeIsCurrent`, `EventuallyDurable` |
| `Producer_accounts` | 222 k | `TypeOK`, `Balanced`, `ExitZeroMeansStored`, `RangesCoverAcks`, `Terminates` |
| `KeyByControl_commands` | 679 k | `TypeOK`, `OneWriter`, `StopsOnlyTheSoleJob`, `RestoresWhatItCan`, `TransitionContinues` |
| `Validation_accepts` | 36 k | `RowsFitTheTable`, `CategoryIsDeserved` |
| `EventTime_rows` | 1.3 M | `TypeOK`, `WaitsForEverySplit`, `LateHasACause` |
| `Credentials_rotations` | 159 k | `TypeOK`, `CanAuthenticate`, `FailureRestores`, `RotationHeals` |
| `SmokeTest_reconciles` | 1.8 M | `TypeOK`, `ReplaysAreVisible`, `NormalIsOnTime`, `PassMeansArrived`, `NoFalseAlarm` |
| `KeyByEvidence_verify` | 1.4 M | `TypeOK`, `PassNamesTheOwner`, `EvidenceIsOfOneJob`, `DominatedJobPasses` |

What they show:

- `TelemetryJob_failures`: everything read is in a store or still carried by the job, what
  a pending checkpoint has taken is ahead of its barriers, the tenant counts of a
  snapshot match its offsets, and a record is stored twice only after a failure, a
  cancellation, a submission from the start or a stale savepoint. The job implements
  `AtLeastOnceDelivery`.
- `TelemetryJob_keyed`: restarts and committed offsets never pass a record that is not
  stored, the hot-tenant gauge is the current count or nothing, and a job that stays
  up stores every record.
- `Producer_accounts`: each attempt has one place at each step; the run
  ends; exit status 0 and the reported ranges are true of the topic.
- `KeyByControl_commands`: with one operator, only `deploy` can submit next to an active
  job; a stop is under way only in what was the sole job, which only a `deploy` can have
  joined since; transitions continue exactly the job they stopped, in the mode they should
  and with the flag Flink needs.
- `Validation_accepts`: the rows are exactly the documents that fit the table.
- `EventTime_rows`: watermarks wait for each split that was never declared idle, so that no
  row is late because of another split or another subtask; a rejected record makes only
  rows of its own split late that are older than 1970 by more than the bound.
- `Credentials_rotations`: a rotation can log in even after one that wrote `.env` and did
  not recreate the containers, because it reads the environment of the running ones; a
  failed rotation leaves volumes, containers and `.env` in agreement if they were before,
  unless a step failed after its effect or could not be undone; a rotation that found
  both services and ended makes them agree whatever was before, also when Flink alone was
  recreated in between.
- `SmokeTest_reconciles`: a pass means that each record of the run was stored exactly once,
  although the counts are of different moments; a mismatch means that the job lagged,
  a record was stored again, an envelope of others came in between, or somebody else
  wrote. The load itself can be told from replays and is late only where it says so.
- `KeyByEvidence_verify`: the subtask a PASS names owns the hot tenant in the job whose graph
  it shows, even if that job was replaced in between; if it was not, the samples are of
  it; and a job of which one attempt was counted on all subtasks, mostly for the hot tenant
  and with bytes moving, passes.

Bounds, and why they are enough for these questions:

- `TelemetryJob`: `MaxRecords` bounds the records of a partition. Two subtasks with one
  partition each are the least in which barriers of different sources race, a row
  crosses subtasks and one region fails alone; one record each is enough to be
  ahead of one barrier and behind another. `TelemetryJob_keyed` has a partition with two
  records, so that a committed offset can lie between them, and two tenants with
  different owners. One restart and at most one retry reach both sides of each limit.
- `Producer`: two originals with optional duplicates give up to four messages, more than
  the queue holds, in one partition, where reports overtake each other. Accounts and
  ranges of partitions are independent of each other in the code.
- `KeyByControl`: `MaxJobs` bounds the submissions. Three jobs are a stopped one, its
  successor and a stray. One terminal shows what a careful operator sees; two are used
  for the race.
- `Validation`: one good document with any two fields changed to any kinds, and one
  document of each other form. Two defects suffice to compare the order of any two
  readers, as each reader looks at one field only.
- `Credentials`: `MaxPasswords` bounds the calls of `_new_environment`. Four are the first
  password and three rotations, so that a rotation can meet what two unfinished ones left.
- `SmokeTest`: two originals with optional duplicates, one earlier record, one stray record
  (`MaxForeign`), one replay at any moment, two rounds of the loop for its 90. The clock
  shows two values in any order; ages are 0 and 1, and 3 for late ones, around an
  `OutOfOrder` of 1.
- `KeyByEvidence`: two jobs, or two attempts of one, of one or two subtasks; the owner of the
  hot tenant differs between the two widths. Two records are a majority, a tie, or
  a count that goes on in a new attempt where the managed state left off.
- `EventTime`: two splits in one source subtask, one in another, and three records over
  all of them (`MaxRecords`), with times -2, 0 and 1 and a bound of 1 on disorder, so that
  a row can be in order, within the bound and beyond it, and a fast split of the same
  or another subtask can pass it. The two splits of one subtask are symmetric, and
  the configuration says so. Time -2 is before 1970, which validation accepts: there a
  rejected record, whose time is 0, does advance the watermark of its split, and the
  history variable `spoilt` remembers that it may have.

Deadlock is checked except where the system stops: the producer's process ends, a
document is processed once, the two scripts come to their verdict, and the bounded
records of `EventTime` run out.

### Fairness

`TelemetryJob!Fairness` is weak fairness of each task's reading, of the keyed
operator, the flush attempts, the DLQ sends, the parts of a checkpoint and its
completion. Flink runs these in threads of their own, timers and the checkpoint
coordinator, and none is disabled by another forever. Nothing is assumed of the
producer, of operators or of the success of a flush. `EventuallyDurable` speaks of
jobs that stay up, because `RestartAttempts` allows finitely many restarts only, and a
poison record uses them up.

`Producer!FairSpec` is weak fairness of the main thread, of callbacks (they run
inside a `poll` that waits for them) and of delivery reports, which
`delivery.timeout.ms` guarantees. Exceptions and signals are owed to nobody.

## 4. Where code and text differ

Three runs end with a violation, each of one sentence of the repository.

- `Validation_categories`: `validate_event` promises one of four categories
  (`logic.py:238`). `float()` of a whole number beyond the range of a float, an integer
  literal of more than 4300 digits and very deep nesting raise something else. The task
  fails at this record after each restart, until the restarts are used up
  (`ReadRaises` in `TelemetryJob`).
- `KeyByControl_race`: `keyby-rebuild` is said to recreate only idle services
  (`Makefile:105`). Its guard is evaluated before a build that takes minutes; a job
  submitted from another terminal in between is lost.
- `KeyByControl_redeploy`: `make deploy` is said to be safe to run again
  (`docs/OPERATIONS.md:38`). If the Flink image has changed, `up -d` recreates the
  JobManager before the target looks for a job; the job is gone and is submitted from
  the earliest offset. The same sentence says that it skips the submission when the job is
  already running, which does not hold when `flink list` fails (section 6).

## 5. What is proved

Each theorem holds for all values of the constants that satisfy the named assumptions of
its module. Those say what TLC needs of the constants anyway: owners and widths exist, sets
of partitions, splits and subtasks are finite, bounds and ages are natural numbers.
Two kinds of results need more, which the theorem then states as its hypothesis,
discussed below: `OneTerminal` for job control and `NoneWider` for one verdict.

| Module | Theorems | Statement |
|---|---|---|
| `TelemetryJob` | `TypeCorrect`, `DeliveryInvariant`, `AtLeastOnceHolds`, `CommittedIsDurableHolds` | `TypeOK`, `DeliveryInv` and its consequences |
| | `ImplementsDelivery` | `Spec => DeliverySpec`, the refinement of `AtLeastOnceDelivery` |
| | `ReplaysHaveACauseHolds`, `CountsMatchOffsetsHolds`, `HotGaugeIsCurrentHolds` | the invariants of these names |
| `Producer` | `ProducerTypeCorrect`, `BalancedHolds`, `RangesCoverAcksHolds`, `ExitZeroMeansStoredHolds` | all its invariants |
| `KeyByControl` | `ControlTypeCorrect`, `RestoresWhatItCanHolds` | for any number of terminals |
| | `StopsOnlyTheSoleJobHolds`, `OneWriterHolds`, `TransitionContinuesHolds` | for one terminal |
| `EventTime` | `EventTimeTypeCorrect`, `WaitsForEverySplitHolds`, `LateHasACauseHolds` | all its invariants |
| `Validation` | `RowsFitTheTableHolds`, `CategoryIsDeservedHolds` | for any combination of defects |
| `Credentials` | `CredentialsTypeCorrect`, `CanAuthenticateHolds`, `FailureRestoresHolds`, `RotationHealsHolds` | all its properties |
| `SmokeTest` | `SmokeTestTypeCorrect`, `PassMeansArrivedHolds`, `NoFalseAlarmHolds` | the verdict of the script, for any number of rounds |
| with `Workload` | `ReplaysAreVisibleHolds`, `NormalIsOnTimeHolds` | the load of its producer |
| `KeyByEvidence` | `EvidenceTypeCorrect`, `EvidenceIsOfOneJobHolds`, `DominatedJobPassesHolds` | for any widths, owners and jobs |
| | `PassNamesTheOwnerHolds` | with `NoneWider` |

Few of these properties are inductive. The invariants below were checked with TLC before
they were proved, on the instance of the module's run (`INVARIANT` of a copy of its cfg);
they stay in the proof modules because only proofs use them.

**Delivery.** `AtLeastOnce` says that what a snapshot covers is stored. A step that
completes a checkpoint makes the positions of the pending one the snapshot, so the
invariant must say of a pending checkpoint where the records below its positions
are: stored, or ahead of the barriers of a subtask that has not taken its part
(`SnapshotIsCarried`). When a source takes its part, its position is the reading
position, so the invariant must say where everything read is (`ReadIsCarried`). The
keyed part needs that no part of a keyed subtask precedes one of a source
(`BarriersInOrder`) and that rows carry valid records and envelopes rejected ones
(`WellPlaced`). Their conjunction with the two goals is `DeliveryInv`; it is checked
by TLC and proved action by action. The refinement has one case per action: those that
insert rows are `Store`, those that deliver envelopes `Reject`, completions
`Commit`, all others stutter.

**Replays.** Until something disturbs the job, a record is in one place only
(`InOnePlace`), and a stop ends the job at the very positions its savepoint holds
(`StopsWhereItSaves`), so that a restored job reads on where the stopped one ended.

**Counts.** The keyed operator counts in another subtask than the one that reads, and
takes its part later. `CountInv` relates cardinalities: what has been read since counting
began is counted or in a channel (`ChannelsCounted`); before the owner of a tenant
takes its part, a record is behind the barrier exactly if it is past the position its
source has taken, so what has been counted when the owner takes its part is what lies
below these positions (`PartsMatch`). `HotGaugeIsCurrent` is inductive with the types.

**Accounting.** `Balanced` follows from `AccountInv`, which adds that the attempt in the
hands of `_enqueue` is not queued yet (so that `Accepted` adds to the queue), that no
message waits with two reports, and that the attempts without outcome are none before
an exception and at most one after it. The proof counts with the cardinality of finite
sets, for which finiteness of the queue comes from the type invariant.

**Acknowledgements.** The code keeps a count and two offsets, not the messages.
`LedgerInv` says that there is a set of acknowledged messages, each stored once, of which
they are the count and the bounds (`Ledger`); a delivery report adds its message to the
set. With exit status 0 nothing has failed or is undelivered, so the set is all
attempts, and the log of each partition has no other offsets.

**Job control.** For any number of terminals `ControlInv` shows that references to jobs and
savepoints are good and that a prepared or printed restore command carries the flag
Flink needs: both are made of facts that never change. All else rests on a guard that was
true some steps ago. `SoleTerminalInv` says what each guard still guarantees at the
steps after it (`GuardInv`, `ContinueInv`), which is true only while no other terminal
acts: hence the hypothesis `OneTerminal`. Without it all three are false. `KeyByControl_race`
shows the same of the guard of `keyby-rebuild`; for `TransitionContinues` TLC needs three
jobs: a `make submit` that has passed its check runs after the `check` of a transition,
which then submits next to the new job, from a savepoint taken before it.

**Event time.** `MarksInOrder`: watermarks on an edge grow from what has arrived over
what travels to what was sent last. `HeldBack`: along the way of a split that was never
idle nothing is ahead of its generator. `WaitsForEverySplit` follows by following the
chain. For `LateHasACause`, `RowsAhead` says that a row in order at its split has only
smaller watermarks before it in its channel, and `BehindBest` that generators stay behind
the latest event or, once the split had a rejected record, behind `TimeOfRejected`, the
time 0 given to those. An event within the bound of both is therefore ahead of the
watermark of its split, and what is ahead of that is ahead of all that waits for it.

**Validation.** The first reader that does not return decides (`FirstIssueProperty`, by
the well-ordering of the natural numbers), each reader returns exactly on what fits its
column (`ReadProperty`), and each field is read once (`OrderProperty`). `Decided` carries
this from the decision to the outputs.

**Credentials.** `CredentialsInv` says at each step of a rotation what is known and what
has been changed: that `current` still opens ClickHouse (`LoginInv`), that each volume
agrees with `.env` or can be undone from `current` in a container that was found
(`RestoreInv`), what has been staged (`StagedInv`), and which containers Compose
has passed (`UpInv`).

**Load.** `LoadInv` is the order of what was sent, with the clock and the time of the last
message; `OrderlyAppend` shows that the next message keeps it, for each way to make one.
The other actions of `SmokeTest` leave the load alone.

**Sums.** The smoke test adds the rows stored for each record, and `DominatedJobPasses` the
records counted by each subtask, with the fold `SumFunctionOnSet`. The module of
folds defines it as a chosen function over the subsets of a finite set, so two facts
are wanted: that such a function exists, and that it is the same for a set with one
element fewer. The library's induction theorems cannot be instantiated here; each fact
is proved by the least counterexample instead (`LeastNumber`, from the well-ordering of the
naturals in `WellFoundedInduction`): a set of least cardinality on which it fails
loses an element. From there on `SumOfNothing`, `SumRemoves`, `SumAgrees`, `SumOfZeros` and
`SumGrows` are all that the other proofs use.

**Smoke test.** The script compares counts of different moments: those before it began, the
raw topic, the envelopes, then the rows. `ScriptInv` says what these counts are made
of (`Counts`: unless somebody else wrote, all of the topic since is its own, and unless
something was stored again, what is stored is exactly the own records that are not owed
any more); that a sample never exceeds what is stored (`Samples`, which is why numbers
that add up at `compare` are the whole run: two counts that are each too small
cannot sum to the number attempted); and that a round which began with nothing owed has
seen everything (`LastRound`), so that it cannot end with a mismatch. A pass therefore
needs no assumption on timing, and the absence of false alarms only that the job owes
nothing when the last round begins, both of them where nothing was stored again and the DLQ
is not shared meanwhile. `MaxAttempts` must be positive, as the first round asks no leave.

**Evidence.** No query names a job. `JobsInOrder` and `Answers` say that each answer is
empty or comes from the tasks of one submitted job, and the last scrape from the last one;
`Progress` that the listed job is the last one until it is replaced, and each answer
since then is its. `PassNamesTheOwner` is about replaced jobs, too: all expected gauges
are there, so the answer is from a job at least as wide as the listed one, which has
the same owner if no job is wider (`NoneWider`). It is needed: with a wider operator of
which only some subtasks have started, submitted between two queries, TLC finds a PASS that
names its owner. `FLINK_PARALLELISM` is 4 in all documented commands, as `PARALLELISM` is.

`DominatedJobPasses` is about a verdict that must not be refused. It compares answers of two
queries, a count and a later gauge. `SharesInv` ties them while both are of one attempt:
no subtask disappears and the owner's gauge stays positive (`GrownFrom`), and where the
hot tenant has the majority of what was counted, its owner leads strictly (`OwnerLeads`:
it counted at least the share of the tenant, `SharesCounted`). It needs no `NoneWider`.

**Only model-checked:** `EventuallyDurable` and `Terminates`, because liveness under
fairness is beyond the prover here. Every other property of a passing run is stated by
a theorem; the three properties of the runs that end with a violation are false.

## 6. What is not modelled

`PROJECT.json` lists every part. Configuration, dashboards, logging and static checks
have no state to check. `PeriodicSummary` and the retry counters of the producer feed log
lines that nothing reads. `observe-keyby` and `keyby-logs` print what `verify-keyby` reads.
The ClickHouse views are queries. Metrics other than those that `verify-keyby` judges
are left out.

Known limits of the code that the models contain and the properties except:

- `make deploy` may submit next to a job that is still starting, because `flink list -r`
  does not list it. `OneWriter` excepts `deploy`.
- `make deploy` takes a failing `flink list` for a list without the job
  (`Makefile:200`) and submits next to a job that runs or whose stop is still under
  way. `StopsOnlyTheSoleJob` allows such a job, and no other.
- Flink may get a password before ClickHouse has it: from a rotation whose `docker compose
  up` ended early, or when Flink alone is recreated after one. The job cannot write
  until `make up` or the next rotation has recreated ClickHouse. `RotationHeals` is what
  holds of a rotation that ends.
- A rotation or a `generate` while a service is stopped leaves the password in its
  volume behind: only running containers are found, and a volume that exists is not
  initialised again. `RotationHeals` asks that both services were found.
- A rotation that fails at the observer after an earlier one was never followed by
  `docker compose up` rolls Grafana back to the password of its container, not to the one
  the earlier rotation had set. `FailureRestores` speaks of labs that agreed.
- The smoke test compares the DLQ topic as a whole, so a foreign malformed record, also one
  that was still owed when it began, makes it fail or balance another record's loss.

## 7. Plan

Done: the job, its promise and proofs; the producer; job control; validation; event
time; credentials; workload and smoke test; keyBy evidence; and proofs of all invariants,
action properties and the refinement that the runs check.

Left: what two operators may rely on in `KeyByControl`. The guards of the code give them
little, so a lock around the guarded commands would come first, and `OneTerminal` could then
be dropped.
