---------------------------- MODULE KeyByEvidence ----------------------------
(***************************************************************************)
(* verify_keyby of scripts/keyby_evidence.py: it lists the job, reads its  *)
(* graph from Flink and then, one query after the other, what Prometheus   *)
(* scraped last from the tasks and what it scraped in the last WINDOW,     *)
(* while records flow, tasks restart and jobs are replaced.  Series carry  *)
(* no job that the queries ask for.                                        *)
(*                                                                         *)
(* At most one job of the lab is active (OneWriter of KeyByControl), and   *)
(* all its tasks run in the one TaskManager: remote shuffle series exist   *)
(* where local ones do and are zero.                                       *)
(***************************************************************************)
EXTENDS Integers, Sequences, FiniteSetsExt, Functions

CONSTANTS
    Parallelism,  \* PARALLELISM
    Owner,        \* the subtask that owns tenant-hot, by the width of the operator
    MaxJobs,      \* bound: jobs submitted
    MaxAttempts,  \* bound: attempts of their tasks
    MaxRecords    \* bound: records counted by one attempt and in the state

Widths == DOMAIN Owner
ASSUME WidthsAssumption ==
    /\ Parallelism \in Widths
    /\ \A w \in Widths : w \in Nat \ {0} /\ Owner[w] \in 0 .. w - 1
ASSUME BoundsAssumption == MaxJobs \in Nat /\ MaxAttempts \in Nat /\ MaxRecords \in Nat

VARIABLES
    \* Flink
    jobs,      \* every job submitted: whether it has the keyed operator, its
               \* parallelism and its state
    attempt,   \* attempts of tasks so far
    counted,   \* lab_keyed_records of the subtasks that have been opened
    gauge,     \* hot_tenant_state_count of the same subtasks
    hotState,  \* tenant-record-count of tenant-hot
    \* Prometheus
    sample,    \* the last scrape of the TaskManager
    recent,    \* whether the local shuffle rate of a subtask was positive in the
               \* window, for the subtasks it has samples of
    \* verify_keyby
    pc,        \* its next request
    found,     \* the job it listed
    records, hot, local,  \* the answers to its queries
    named,     \* hot_tenant_subtask of VERIFY_KEYBY=PASS
    \* history variables, read by properties only
    hotShare,  \* records of tenant-hot that the attempt has counted
    replaced   \* a job was submitted after the one listed

taskVars == <<attempt, counted, gauge, hotState, hotShare>>
prometheusVars == <<sample, recent>>
answerVars == <<records, hot, local>>
vars == <<jobs, taskVars, prometheusVars, pc, found, answerVars, named, replaced>>

\* The series of a scrape by subtask, and what the properties know of it.
Nothing == <<>>
NoSeries == [job |-> 0, attempt |-> 0, counted |-> Nothing, gauge |-> Nothing, dominated |-> FALSE]
Dominated == 2 * hotShare > SumFunction(counted)

Init ==
    /\ jobs = <<>> /\ attempt = 0 /\ hotState = 0 /\ hotShare = 0
    /\ counted = Nothing /\ gauge = Nothing
    /\ sample = NoSeries /\ recent = Nothing
    /\ pc = "list" /\ found = 0 /\ named = -1 /\ replaced = FALSE
    /\ records = NoSeries /\ hot = NoSeries /\ local = Nothing

-----------------------------------------------------------------------------
(* The tasks of the keyed operator.                                        *)

Last == Len(jobs)
RunningJob == Last # 0 /\ jobs[Last].state = "RUNNING"

\* A job comes seconds after the last one ended, and a scrape has come between:
\* it starts with a new client, workers and, mostly, TaskManager.  Its count of
\* tenant-hot is that of a savepoint or none.
Submit ==
    /\ Last < MaxJobs /\ attempt < MaxAttempts
    /\ Last # 0 => jobs[Last].state = "ENDED"
    /\ sample = NoSeries
    /\ \E keyBy \in BOOLEAN, w \in Widths :
          jobs' = Append(jobs, [keyBy |-> keyBy, width |-> w, state |-> "RUNNING"])
    /\ attempt' = attempt + 1
    /\ hotState' \in {0, hotState}
    /\ replaced' = (found # 0)
    /\ UNCHANGED <<counted, gauge, hotShare, prometheusVars, pc, found, answerVars, named>>

\* mutant: the gauge is an attribute of the class, which open leaves alone
KeptGauge == hotState
FreshGauge == 0
Registered(series, s, value) ==
    [x \in DOMAIN series \cup {s} |-> IF x = s THEN value ELSE series[x]]

\* open: a subtask registers its series.
Open(s) ==
    /\ RunningJob /\ jobs[Last].keyBy
    /\ s \in 0 .. jobs[Last].width - 1 /\ s \notin DOMAIN counted
    /\ counted' = Registered(counted, s, 0)
    /\ gauge' = Registered(gauge, s, FreshGauge)
    /\ UNCHANGED <<jobs, attempt, hotState, hotShare, prometheusVars, pc, found, answerVars, named, replaced>>

\* mutants: the gauge only follows the logged milestones; is set for any tenant
AtMilestones(old, count, isHot) == IF isHot /\ count = 1 THEN count ELSE old
ForAnyTenant(old, count, isHot) == count
Published(old, count, isHot) == IF isHot THEN count ELSE old

\* process_element, with a record of tenant-hot or of a tenant hashed to s.
Process(s, isHot) ==
    /\ RunningJob /\ s \in DOMAIN counted
    /\ isHot => s = Owner[jobs[Last].width]
    /\ SumFunction(counted) < MaxRecords
    /\ isHot => hotState < MaxRecords
    /\ hotState' = hotState + (IF isHot THEN 1 ELSE 0)
    /\ hotShare' = hotShare + (IF isHot THEN 1 ELSE 0)
    /\ counted' = [counted EXCEPT ![s] = @ + 1]
    /\ gauge' = [gauge EXCEPT ![s] = Published(@, IF isHot THEN hotState' ELSE 1, isHot)]
    /\ UNCHANGED <<jobs, attempt, prometheusVars, pc, found, answerVars, named, replaced>>

TasksGone ==
    counted' = Nothing /\ gauge' = Nothing /\ hotShare' = 0

\* The tasks fail; their counts of tenant-hot will be those of a checkpoint.
Fail ==
    /\ RunningJob
    /\ jobs' = [jobs EXCEPT ![Last].state = "RESTARTING"]
    /\ TasksGone
    /\ hotState' \in 0 .. hotState
    /\ UNCHANGED <<attempt, prometheusVars, pc, found, answerVars, named, replaced>>

Restart ==
    /\ Last # 0 /\ jobs[Last].state = "RESTARTING" /\ attempt < MaxAttempts
    /\ jobs' = [jobs EXCEPT ![Last].state = "RUNNING"]
    /\ attempt' = attempt + 1
    /\ UNCHANGED <<counted, gauge, hotState, hotShare, prometheusVars, pc, found,
                   answerVars, named, replaced>>

End ==
    /\ Last # 0 /\ jobs[Last].state # "ENDED"
    /\ jobs' = [jobs EXCEPT ![Last].state = "ENDED"]
    /\ TasksGone
    /\ UNCHANGED <<attempt, hotState, prometheusVars, pc, found, answerVars, named, replaced>>

-----------------------------------------------------------------------------
(* Prometheus.                                                             *)

\* Rates are averages of the last minute: zero soon after the load has ended.
Rates == {[s \in DOMAIN counted |-> loaded /\ counted[s] > 0] : loaded \in BOOLEAN}

\* The greatest rates, when a scrape adds its samples to the window.  The window is
\* read once: it is enough to let it begin at any scrape.
Greatest(kept, new) ==
    [s \in kept \cup DOMAIN new |->
        (s \in kept /\ recent[s]) \/ (s \in DOMAIN new /\ new[s])]

\* Series that a scrape, or a scrape that failed, no longer brings are stale.
Scrape ==
    \E kept \in {{}, DOMAIN recent} :
        /\ \/ /\ counted # Nothing
              /\ sample' = [job |-> Last, attempt |-> attempt, counted |-> counted,
                            gauge |-> gauge, dominated |-> Dominated]
              /\ \E rates \in Rates : recent' = Greatest(kept, rates)
           \/ sample' = NoSeries /\ recent' = Greatest(kept, Nothing)
        /\ UNCHANGED <<jobs, taskVars, pc, found, answerVars, named, replaced>>

-----------------------------------------------------------------------------
(* verify_keyby.                                                           *)

AnyNamed == DOMAIN jobs  \* mutant: a job in any state will do
Listed == {j \in DOMAIN jobs : jobs[j].state = "RUNNING"}

\* require_one_running_named_job
List ==
    /\ pc = "list" /\ found' \in Listed
    /\ pc' = "graph" /\ replaced' = FALSE
    /\ UNCHANGED <<jobs, taskVars, prometheusVars, answerVars, named>>

\* The details and the plan of that job, which must have the keyed operator.
ReadGraph ==
    /\ pc = "graph" /\ jobs[found].keyBy
    /\ pc' = "records"
    /\ UNCHANGED <<jobs, taskVars, prometheusVars, found, answerVars, named, replaced>>

ReadRecords ==
    /\ pc = "records" /\ records' = [sample EXCEPT !.gauge = Nothing] /\ pc' = "hot"
    /\ UNCHANGED <<jobs, taskVars, prometheusVars, found, hot, local, named, replaced>>

ReadHotState ==
    /\ pc = "hot" /\ hot' = [sample EXCEPT !.counted = Nothing, !.dominated = FALSE] /\ pc' = "local"
    /\ UNCHANGED <<jobs, taskVars, prometheusVars, found, records, local, named, replaced>>

AnyWidth == TRUE  \* mutant: the parallelism of the vertex is not looked at
GraphIsKeyed == jobs[found].width = Parallelism

Expected == 0 .. Parallelism - 1
Covered(shuffle) ==
    DOMAIN records.counted = Expected /\ DOMAIN hot.gauge = Expected /\ DOMAIN shuffle = Expected

HotOwners == {s \in DOMAIN hot.gauge : hot.gauge[s] > 0}
HotOwnerDominates ==
    /\ Cardinality(HotOwners) = 1
    /\ \E s \in HotOwners \cap DOMAIN records.counted :
           2 * records.counted[s] > SumFunction(records.counted)

ShuffleIsLocal(shuffle) == \E s \in DOMAIN shuffle : shuffle[s]

\* verification_errors is empty.
Passes(shuffle) ==
    GraphIsKeyed /\ Covered(shuffle) /\ HotOwnerDominates /\ ShuffleIsLocal(shuffle)

\* The last answer comes in, and the rest happens in the script.
Verify ==
    /\ pc = "local" /\ local' = recent
    /\ IF Passes(recent)
       THEN pc' = "PASS" /\ named' \in HotOwners
       ELSE pc' = "FAIL" /\ UNCHANGED named
    /\ UNCHANGED <<jobs, taskVars, prometheusVars, found, records, hot, replaced>>

\* LabError: no such job, no keyed vertex, a request that fails.
Error ==
    /\ pc \in {"list", "graph", "records", "hot", "local"}
    /\ pc' = "error"
    /\ found' = 0 /\ records' = NoSeries /\ hot' = NoSeries /\ replaced' = FALSE
    /\ UNCHANGED <<jobs, taskVars, prometheusVars, local, named>>

-----------------------------------------------------------------------------
Tasks ==
    \/ Submit \/ Fail \/ Restart \/ End
    \/ \E s \in 0 .. Max(Widths) - 1 :
          Open(s) \/ \E isHot \in BOOLEAN : Process(s, isHot)

Observer ==
    \/ List \/ ReadGraph \/ ReadRecords \/ ReadHotState
    \/ Verify \/ Error

\* Until it has its verdict.
Next == pc \notin {"PASS", "FAIL", "error"} /\ (Tasks \/ Scrape \/ Observer)

Spec == Init /\ [][Next]_vars

-----------------------------------------------------------------------------
(* Properties.                                                             *)

\* Every variable has its type, the two series come and go together, and no
\* gauge shows more than the state holds.
TypeOK ==
    /\ attempt \in 0 .. MaxAttempts /\ hotState \in 0 .. MaxRecords
    /\ \A j \in DOMAIN jobs :
          jobs[j].width \in Widths /\ jobs[j].state \in {"RUNNING", "RESTARTING", "ENDED"}
    /\ DOMAIN counted = DOMAIN gauge
    /\ counted # Nothing => RunningJob /\ DOMAIN counted \subseteq 0 .. jobs[Last].width - 1
    /\ \A s \in DOMAIN gauge :
          gauge[s] > 0 => s = Owner[jobs[Last].width] /\ gauge[s] <= hotState
    /\ sample.job \in 0 .. Last /\ found \in 0 .. Last
    /\ named \in {-1} \cup Expected

\* A PASS names the subtask that owns tenant-hot in the job whose graph was
\* shown, whatever happened between the requests (docs/LEARNING.md:607-615).
PassNamesTheOwner ==
    pc = "PASS" => jobs[found].keyBy /\ named = Owner[jobs[found].width]

\* The counts and the gauges behind a PASS are of the job whose graph was shown,
\* unless it was replaced while verify_keyby ran.
EvidenceIsOfOneJob ==
    pc = "PASS" /\ ~replaced => records.job = found /\ hot.job = found

\* A restart makes the evidence of managed state start over, but it does no more:
\* if all subtasks of the listed job were counted in one attempt, most of
\* their records were of tenant-hot and bytes moved, verification passes,
\* however little of the state this attempt has written.
DominatedJobPasses ==
    pc = "FAIL" =>
        \/ jobs[found].width # Parallelism
        \/ records.job # found \/ hot.attempt # records.attempt
        \/ DOMAIN records.counted # Expected
        \/ ~records.dominated
        \/ DOMAIN local # Expected \/ ~ShuffleIsLocal(local)
=============================================================================
