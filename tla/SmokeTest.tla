----------------------------- MODULE SmokeTest -----------------------------
(***************************************************************************)
(* scripts/smoke.sh against the whole pipeline: the load of Workload, a    *)
(* producer that exits 0 only if all of it is in the raw topic             *)
(* (ExitZeroMeansStored of Producer), and a job that stores each record at *)
(* least once (AtLeastOnceDelivery).  The script reads end offsets and     *)
(* counts at different moments and compares their differences while the    *)
(* job goes on, until they agree or it has tried often enough.             *)
(***************************************************************************)
EXTENDS Workload, FiniteSets, Functions

CONSTANTS
    MaxOriginals,  \* --count
    MaxAttempts,   \* how often counts are compared, 90 in the script
    MaxForeign,    \* bound: records of others
    MaxReplays     \* bound: records stored again

ASSUME BoundsAssumption == {MaxOriginals, MaxForeign, MaxReplays} \subseteq Nat

\* The first round needs no permission.
ASSUME AttemptsAssumption == MaxAttempts \in Nat \ {0}

VARIABLES
    \* the pipeline
    raw,        \* the raw topic: whether a record is of this run, malformed, and
                \* an injected duplicate
    todo,       \* records the job still has to store, or to store again
    copies,     \* how often each record was put in the table or in the DLQ
    \* the script
    pc,         \* its next command
    originals,  \* originals its producer has published
    attempted,  \* of producer_final, the last line of its log
    rawBefore, dlqBefore, rawAfter, dlqAfter, runRows,
    attempt,    \* rounds of the loop so far
    why,        \* why it failed
    \* history variables, read by properties only
    replays,    \* records the job was given to store again
    polluted,   \* an envelope of another run comes, or may come, in between
    joined,     \* another producer wrote during the script
    lagging     \* the job was not done when the last round began

pipelineVars == <<raw, todo, copies>>
sampleVars == <<rawBefore, dlqBefore, rawAfter, dlqAfter, runRows>>
scriptVars == <<pc, originals, attempted, sampleVars, attempt, why>>
historyVars == <<replays, polluted, joined, lagging>>
vars == <<workloadVars, pipelineVars, scriptVars, historyVars>>

Record(own, malformed, duplicate) ==
    [own |-> own, malformed |-> malformed, duplicate |-> duplicate]

Total(S) == SumFunctionOnSet(copies, S)
Envelopes == Total({i \in DOMAIN raw : raw[i].malformed})
RowsOfRun == Total({i \in DOMAIN raw : raw[i].own /\ ~raw[i].malformed})

FirstTime == CHOOSE t \in Times : TRUE
Foreign == {i \in DOMAIN raw : ~raw[i].own}

\* The stack is up, with nothing in the topic or with records of earlier runs.
Init ==
    /\ WorkloadInit /\ clock = FirstTime
    /\ raw \in {<<>>} \cup {<<Record(FALSE, m, FALSE)>> : m \in BOOLEAN}
    /\ todo \in SUBSET DOMAIN raw
    /\ copies = [i \in DOMAIN raw |-> IF i \in todo THEN 0 ELSE 1]
    /\ pc = "list" /\ originals = 0 /\ attempted = 0
    /\ rawBefore = 0 /\ dlqBefore = 0 /\ rawAfter = 0 /\ dlqAfter = 0 /\ runRows = 0
    /\ attempt = 0 /\ why = "none"
    /\ replays = 0 /\ polluted = FALSE /\ joined = FALSE /\ lagging = FALSE

-----------------------------------------------------------------------------
(* The pipeline, for as long as the script runs.                           *)

Runs == pc \notin {"passed", "failed"}

\* A row is inserted or an envelope sent.
Deliver(i) ==
    /\ Runs /\ i \in todo
    /\ todo' = todo \ {i}
    /\ copies' = [copies EXCEPT ![i] = @ + 1]
    /\ UNCHANGED <<raw, workloadVars, scriptVars, historyVars>>

\* A restart reads again what no checkpoint covers; a batch that failed half way
\* is sent again.
Replay(i) ==
    /\ Runs /\ i \notin todo /\ replays < MaxReplays
    /\ todo' = todo \cup {i}
    /\ replays' = replays + 1
    /\ UNCHANGED <<raw, copies, workloadVars, scriptVars, polluted, joined, lagging>>

\* Another producer, which docs/OPERATIONS.md:50 asks not to run.
OtherProducer(malformed) ==
    /\ Runs /\ Cardinality(Foreign) < MaxForeign
    /\ raw' = Append(raw, Record(FALSE, malformed, FALSE))
    /\ todo' = todo \cup {Len(raw')}
    /\ copies' = Append(copies, 0)
    /\ polluted' = (polluted \/ malformed) /\ joined' = TRUE
    /\ UNCHANGED <<workloadVars, scriptVars, replays, lagging>>

-----------------------------------------------------------------------------
(* The script.                                                             *)

Go(next) == pc' = next /\ UNCHANGED why
Fail(reason) == pc' = "failed" /\ why' = reason

\* flink list finds the job, or flink run submits it from the earliest offset.
ListOrRun ==
    /\ pc = "list"
    /\ \/ UNCHANGED todo
       \/ todo' = DOMAIN raw
    /\ Go("before")
    /\ UNCHANGED <<raw, copies, workloadVars, originals, attempted, sampleVars, attempt, historyVars>>

\* raw_before and dlq_before.
Before ==
    /\ pc = "before"
    /\ rawBefore' = Len(raw) /\ dlqBefore' = Envelopes
    /\ polluted' = (\E i \in todo : raw[i].malformed)
    /\ joined' = FALSE /\ replays' = 0
    /\ Go("produce")
    /\ UNCHANGED <<pipelineVars, workloadVars, originals, attempted, rawAfter, dlqAfter,
                   runRows, attempt, lagging>>

\* The producer publishes a batch.
Publish ==
    /\ pc = "produce" /\ originals < MaxOriginals
    /\ \E batch \in Batches :
          /\ NextBatch(batch)
          /\ raw' = raw \o [i \in DOMAIN batch |->
                            Record(TRUE, batch[i].malformed, batch[i].duplicate)]
          /\ todo' = todo \cup (Len(raw) + 1 .. Len(raw'))
          /\ copies' = copies \o [i \in DOMAIN batch |-> 0]
    /\ originals' = originals + 1
    /\ UNCHANGED <<pc, attempted, sampleVars, attempt, why, historyVars>>

ClockMoves ==
    /\ pc = "produce" /\ Ticks
    /\ UNCHANGED <<pipelineVars, scriptVars, historyVars>>

\* mutant: duplicates are not counted
OnlyOriginals == originals
Attempted == Len(sent)

\* It exits, after all originals or, on a signal, before, and its memory is gone;
\* an exit status that is not 0 ends the pipeline of the script, and an empty
\* run its accounting.  What a failed run left out of the topic does not matter.
ProducerExits ==
    /\ pc = "produce"
    /\ \/ Fail("producer")
       \/ IF sent = <<>> THEN Fail("producer") ELSE Go("raw")
    /\ attempted' = Attempted
    /\ sent' = <<>> /\ lastProducedAt' = 0 /\ clock' = FirstTime
    /\ UNCHANGED <<pipelineVars, originals, sampleVars, attempt, historyVars>>

SampleRaw ==
    /\ pc = "raw"
    /\ rawAfter' = Len(raw)
    /\ lagging' = (\E i \in todo : raw[i].own)
    /\ Go("dlq")
    /\ UNCHANGED <<pipelineVars, workloadVars, originals, attempted, rawBefore, dlqBefore,
                   dlqAfter, runRows, attempt, replays, polluted, joined>>

SampleDlq ==
    /\ pc = "dlq"
    /\ dlqAfter' = Envelopes
    /\ Go("rows")
    /\ UNCHANGED <<pipelineVars, workloadVars, originals, attempted, rawBefore, dlqBefore,
                   rawAfter, runRows, attempt, historyVars>>

SampleRows ==
    /\ pc = "rows"
    /\ runRows' = RowsOfRun /\ attempt' = attempt + 1
    /\ Go("compare")
    /\ UNCHANGED <<pipelineVars, workloadVars, originals, attempted, rawBefore, dlqBefore,
                   rawAfter, dlqAfter, historyVars>>

\* mutant: the whole dead-letter topic is counted
AllEnvelopes == dlqAfter
DlqDelta == dlqAfter - dlqBefore

RawMatches == rawAfter - rawBefore = attempted
PipelineMatches == runRows + DlqDelta = attempted

\* mutant: only the raw topic is compared after the last round
OnlyRaw == IF RawMatches THEN "anomalies" ELSE "failed"
Verdict == IF RawMatches /\ PipelineMatches THEN "anomalies" ELSE "failed"

\* The loop ends when everything matches or after the last attempt; both
\* comparisons are made again behind it.
Compare ==
    /\ pc = "compare"
    /\ IF ~(RawMatches /\ PipelineMatches) /\ attempt < MaxAttempts
       THEN Go("raw")
       ELSE IF Verdict = "failed" THEN Fail("mismatch") ELSE Go(Verdict)
    /\ UNCHANGED <<pipelineVars, workloadVars, originals, attempted, sampleVars, attempt, historyVars>>

\* The rows of the run must show duplicates; the other anomalies, and every later
\* check of views, targets, dashboards and metrics, may fail.
ChecksTheRest ==
    /\ pc = "anomalies"
    /\ \/ (\E i \in DOMAIN raw : raw[i].duplicate) /\ Go("passed")
       \/ Fail("observability")
    /\ UNCHANGED <<pipelineVars, workloadVars, originals, attempted, sampleVars, attempt, historyVars>>

Script ==
    \/ ListOrRun \/ Before \/ Publish \/ ClockMoves \/ ProducerExits
    \/ SampleRaw \/ SampleDlq \/ SampleRows \/ Compare \/ ChecksTheRest

Next ==
    \/ \E i \in DOMAIN raw : Deliver(i) \/ Replay(i)
    \/ \E m \in BOOLEAN : OtherProducer(m)
    \/ Script

Spec == Init /\ [][Next]_vars

-----------------------------------------------------------------------------
(* Properties.                                                             *)

OwnRecords == {i \in DOMAIN raw : raw[i].own}

\* Every variable has its type, and each record of the run is in the topic.
TypeOK ==
    /\ clock \in Times /\ lastProducedAt \in Nat
    /\ DOMAIN copies = DOMAIN raw /\ todo \subseteq DOMAIN raw
    /\ \A i \in DOMAIN copies : copies[i] \in Nat
    /\ Cardinality(OwnRecords) = IF pc = "produce" THEN Len(sent) ELSE attempted
    /\ pc \in {"list", "before", "produce", "raw", "dlq", "rows", "compare",
               "anomalies", "passed", "failed"}
    /\ attempt \in 0 .. MaxAttempts /\ originals \in 0 .. MaxOriginals
    /\ attempted \in 0 .. 2 * MaxOriginals
    /\ sampleVars \in Nat \X Nat \X Nat \X Nat \X Nat
    /\ why \in {"none", "producer", "mismatch", "observability"}
    /\ replays \in 0 .. MaxReplays
    /\ polluted \in BOOLEAN /\ joined \in BOOLEAN /\ lagging \in BOOLEAN

\* A smoke test that passes its comparisons is right: although it counts at
\* three different moments, each record of the run is stored exactly once then,
\* if nothing was stored again since the script began to count and no malformed
\* record of others was outstanding.  Valid records of others do not matter.
PassMeansArrived ==
    pc \in {"anomalies", "passed"} /\ replays = 0 /\ ~polluted =>
        \A i \in OwnRecords : copies[i] = 1

\* There is no false alarm: if no other producer wrote, a mismatch is reported
\* under the same conditions only while the job still owes records of the run
\* at the beginning of the last round.
NoFalseAlarm ==
    why = "mismatch" /\ replays = 0 /\ ~polluted /\ ~joined => lagging
=============================================================================
