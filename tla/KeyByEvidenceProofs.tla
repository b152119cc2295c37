------------------------ MODULE KeyByEvidenceProofs ------------------------
(***************************************************************************)
(* What a verdict of verify_keyby rests on, for every width, owner and     *)
(* number of jobs.  The answers are read at different times, and none of   *)
(* the queries asks for a job: the invariant follows each answer back to   *)
(* the job whose tasks were scraped.                                       *)
(***************************************************************************)
EXTENDS KeyByEvidence, FiniteSetTheorems, WellFoundedInduction, TLAPS

Job == [keyBy : BOOLEAN, width : Widths, state : {"RUNNING", "RESTARTING", "ENDED"}]

\* Only the last job may be active.
JobsInOrder ==
    /\ jobs \in Seq(Job)
    /\ \A j \in 1 .. Last : jobs[j].state # "ENDED" => j = Last

\* Series that show a positive gauge only on the owner in the job of that width.
Owned(width, series) ==
    /\ DOMAIN series \subseteq 0 .. width - 1
    /\ \A s \in DOMAIN series : series[s] > 0 => s = Owner[width]

\* The series of the tasks, which only a running job has.
TasksShow ==
    /\ attempt \in 0 .. MaxAttempts /\ hotState \in 0 .. MaxRecords
    /\ DOMAIN counted = DOMAIN gauge
    /\ counted # Nothing => RunningJob /\ Owned(jobs[Last].width, gauge)
    /\ \A s \in DOMAIN gauge : gauge[s] \in 0 .. hotState

\* An answer is empty or comes from the tasks of one submitted job.
IsSeries(answer) ==
    answer = [job |-> answer.job, attempt |-> answer.attempt, counted |-> answer.counted,
              gauge |-> answer.gauge, dominated |-> answer.dominated]
OfAJob(answer) ==
    /\ IsSeries(answer)
    /\ \/ answer.job = 0 /\ answer.counted = Nothing /\ answer.gauge = Nothing
       \/ answer.job \in 1 .. Last /\ Owned(jobs[answer.job].width, answer.gauge)

Answers ==
    /\ OfAJob(sample) /\ sample.job \in {0, Last}
    /\ OfAJob(records) /\ OfAJob(hot)

\* The listed job is the last one until another replaces it, and until then the
\* answers are of that job.
Progress ==
    /\ replaced \in BOOLEAN /\ found \in 0 .. Last
    /\ found # 0 /\ ~replaced => found = Last
    /\ pc \notin {"list", "error"} => found # 0
    /\ pc \in {"records", "hot", "local", "PASS"} => jobs[found].keyBy
    /\ pc \in {"hot", "local", "PASS"} /\ ~replaced => records.job \in {0, found}
    /\ pc \in {"local", "PASS"} /\ ~replaced => hot.job \in {0, found}

Verdict ==
    /\ named \in {-1} \cup Expected
    /\ pc = "PASS" => GraphIsKeyed /\ Covered(local) /\ named \in HotOwners

EvidenceInv == JobsInOrder /\ TasksShow /\ Answers /\ Progress /\ Verdict

-----------------------------------------------------------------------------
(* The jobs.                                                               *)

USE WidthsAssumption, BoundsAssumption

\* An action submits a job after the last one ended, changes the state of the last
\* one, or leaves the jobs alone.
LEMMA JobsStep ==
    ASSUME JobsInOrder, [Next]_vars
    PROVE  /\ JobsInOrder'
           /\ Last' >= Last
           /\ \A j \in 1 .. Last : /\ jobs'[j].width = jobs[j].width
                                   /\ jobs'[j].keyBy = jobs[j].keyBy
           /\ Last' # Last => Submit
<1>1. jobs \in Seq(Job) /\ Last \in Nat /\ (Last # 0 => jobs[Last] \in Job)
  BY DEF JobsInOrder, Last
<1>2. CASE UNCHANGED jobs
  BY <1>1, <1>2 DEF JobsInOrder, Last
<1>3. CASE Submit
  <2>1. PICK keyBy \in BOOLEAN, w \in Widths :
            jobs' = Append(jobs, [keyBy |-> keyBy, width |-> w, state |-> "RUNNING"])
    BY <1>3 DEF Submit
  <2>2. jobs' \in Seq(Job)
    BY <1>1, <2>1 DEF Job
  <2>3. Last' = Last + 1 /\ \A j \in 1 .. Last : jobs'[j] = jobs[j]
    BY <1>1, <2>1 DEF Last
  <2>4. \A j \in 1 .. Last : jobs[j].state = "ENDED"
    BY <1>1, <1>3 DEF Submit, JobsInOrder
  <2> QED
    BY <1>1, <1>3, <2>2, <2>3, <2>4 DEF JobsInOrder
<1>4. ASSUME NEW state \in {"RUNNING", "RESTARTING", "ENDED"},
             Last # 0, jobs' = [jobs EXCEPT ![Last].state = state]
      PROVE  /\ JobsInOrder'
             /\ Last' = Last
             /\ \A j \in 1 .. Last : /\ jobs'[j].width = jobs[j].width
                                     /\ jobs'[j].keyBy = jobs[j].keyBy
  <2>1. jobs' \in Seq(Job)
    <3> DEFINE ended == [jobs[Last] EXCEPT !.state = state]
    <3>1. ended \in Job
      BY <1>1, <1>4 DEF Job
    <3>2. jobs' = [jobs EXCEPT ![Last] = ended]
      BY <1>4
    <3> HIDE DEF ended
    <3> QED
      BY <1>1, <1>4, <3>1, <3>2 DEF Last
  <2>2. Last' = Last
    BY <1>1, <1>4 DEF Last
  <2>3. \A j \in 1 .. Last : /\ jobs'[j].width = jobs[j].width
                             /\ jobs'[j].keyBy = jobs[j].keyBy
                             /\ j # Last => jobs'[j] = jobs[j]
    BY <1>1, <1>4 DEF Job, Last
  <2>4. \A j \in 1 .. Last' : jobs'[j].state # "ENDED" => j = Last'
    <3> SUFFICES ASSUME NEW j \in 1 .. Last, jobs'[j].state # "ENDED"
                 PROVE  j = Last
      BY <2>2
    <3>1. CASE j # Last
      <4>1. jobs[j].state # "ENDED"
        BY <2>3, <3>1
      <4> QED
        BY <4>1 DEF JobsInOrder
    <3> QED
      BY <3>1
  <2>5. JobsInOrder'
    BY <2>1, <2>4 DEF JobsInOrder
  <2> QED
    BY <2>2, <2>3, <2>5
<1>5. CASE Fail \/ Restart \/ End
  BY <1>1, <1>4, <1>5 DEF Fail, Restart, End, RunningJob
<1> QED
  BY <1>2, <1>3, <1>5
  DEF Next, Tasks, Observer, vars, Open, Process, Scrape, List, ReadGraph, ReadRecords,
      ReadHotState, Verify, Error

-----------------------------------------------------------------------------
(* The series of the tasks and of the scrapes.                             *)

LEMMA TasksStep ==
    ASSUME JobsInOrder, TasksShow, [Next]_vars
    PROVE  TasksShow'
<1>1. jobs \in Seq(Job) /\ Last \in Nat /\ (Last # 0 => jobs[Last] \in Job)
  BY DEF JobsInOrder, Last
<1>2. attempt \in Nat /\ hotState \in Nat
  BY DEF TasksShow
<1>3. CASE UNCHANGED <<jobs, taskVars>>
  BY <1>3 DEF TasksShow, taskVars, RunningJob, Last, Owned
<1>4. CASE Submit
  <2>1. counted = Nothing /\ UNCHANGED <<counted, gauge>>
    BY <1>4 DEF Submit, TasksShow, RunningJob
  <2>2. attempt' \in 0 .. MaxAttempts /\ hotState' \in 0 .. MaxRecords
    BY <1>2, <1>4 DEF Submit, TasksShow
  <2>3. DOMAIN gauge = {}
    BY <2>1 DEF TasksShow, Nothing
  <2> QED
    BY <2>1, <2>2, <2>3 DEF TasksShow
<1>5. ASSUME NEW s, Open(s) PROVE TasksShow'
  <2>1. /\ DOMAIN counted' = DOMAIN counted \cup {s}
        /\ DOMAIN gauge' = DOMAIN gauge \cup {s}
        /\ \A x \in DOMAIN gauge' : gauge'[x] = IF x = s THEN 0 ELSE gauge[x]
    BY <1>5 DEF Open, FreshGauge, Registered
  <2>2. UNCHANGED <<jobs, attempt, hotState>> /\ Last' = Last /\ RunningJob
    BY <1>5 DEF Open, Last
  <2>3. RunningJob'
    BY <2>2 DEF RunningJob
  <2>4. s \in 0 .. jobs[Last].width - 1
    BY <1>5 DEF Open
  <2>5. Owned(jobs[Last].width, gauge)
    BY <2>4 DEF TasksShow, Owned, Nothing
  <2>6. Owned(jobs[Last].width, gauge)'
    BY <2>1, <2>2, <2>4, <2>5 DEF Owned
  <2> QED
    BY <1>2, <2>1, <2>2, <2>3, <2>6 DEF TasksShow
<1>6. ASSUME NEW s, NEW isHot \in BOOLEAN, Process(s, isHot) PROVE TasksShow'
  <2>1. /\ UNCHANGED <<jobs, attempt>> /\ RunningJob
        /\ DOMAIN counted' = DOMAIN counted /\ DOMAIN gauge' = DOMAIN gauge
        /\ s \in DOMAIN counted
    BY <1>6 DEF Process
  <2>2. Last' = Last
    BY <2>1 DEF Last
  <2>3. RunningJob'
    BY <2>1, <2>2 DEF RunningJob
  <2>4. hotState' \in hotState .. MaxRecords
    BY <1>2, <1>6 DEF Process, TasksShow
  <2>5. counted # Nothing
    BY <2>1 DEF Nothing
  <2>6. Owned(jobs[Last].width, gauge)
    BY <2>5 DEF TasksShow
  <2>7. ASSUME NEW x \in DOMAIN gauge
        PROVE  /\ gauge'[x] \in 0 .. hotState'
               /\ gauge'[x] > 0 => x = Owner[jobs[Last].width]
    <3>1. CASE isHot
      <4>1. s = Owner[jobs[Last].width]
        BY <1>6, <3>1 DEF Process
      <4>2. gauge'[x] = IF x = s THEN hotState' ELSE gauge[x]
        BY <1>6, <3>1 DEF Process, Published
      <4> QED
        BY <1>2, <2>4, <2>6, <4>1, <4>2 DEF Owned, TasksShow
    <3>2. CASE ~isHot
      <4>1. gauge'[x] = gauge[x]
        BY <1>6, <3>2 DEF Process, Published
      <4> QED
        BY <1>2, <2>4, <2>6, <4>1 DEF Owned, TasksShow
    <3> QED
      BY <3>1, <3>2
  <2>8. Owned(jobs[Last].width, gauge)'
    BY <2>1, <2>2, <2>6, <2>7 DEF Owned
  <2> QED
    BY <1>2, <2>1, <2>3, <2>4, <2>7, <2>8 DEF TasksShow
<1>7. CASE Fail \/ End
  <2>1. counted' = Nothing /\ gauge' = Nothing /\ attempt' = attempt
    BY <1>7 DEF Fail, End, TasksGone
  <2>2. hotState' \in 0 .. MaxRecords
    BY <1>2, <1>7 DEF Fail, End, TasksShow
  <2>3. DOMAIN Nothing = {}
    BY DEF Nothing
  <2> QED
    BY <2>1, <2>2, <2>3 DEF TasksShow
<1>8. CASE Restart
  <2>1. counted = Nothing /\ UNCHANGED <<counted, gauge, hotState>>
    BY <1>8 DEF Restart, TasksShow, RunningJob
  <2>2. attempt' \in 0 .. MaxAttempts
    BY <1>2, <1>8 DEF Restart, TasksShow
  <2>3. DOMAIN gauge = {}
    BY <2>1 DEF TasksShow, Nothing
  <2> QED
    BY <2>1, <2>2, <2>3 DEF TasksShow
<1>9. CASE Observer \/ Scrape \/ UNCHANGED vars
  BY <1>3, <1>9 DEF Observer, Scrape, vars, taskVars, List, ReadGraph, ReadRecords,
     ReadHotState, Verify, Error
<1> QED
  BY <1>4, <1>5, <1>6, <1>7, <1>8, <1>9 DEF Next, Tasks

LEMMA AnswersStep ==
    ASSUME JobsInOrder, TasksShow, Answers, [Next]_vars
    PROVE  Answers'
<1> DEFINE kept(answer) ==
             \/ answer.job = 0 /\ answer.counted = Nothing /\ answer.gauge = Nothing
             \/ answer.job \in 1 .. Last' /\ Owned(jobs'[answer.job].width, answer.gauge)
<1>1. ASSUME NEW answer, OfAJob(answer) PROVE IsSeries(answer) /\ kept(answer)
  BY <1>1, JobsStep DEF OfAJob, JobsInOrder, Last
<1>2. IsSeries(NoSeries) /\ kept(NoSeries)
  BY DEF NoSeries, IsSeries
<1>3. /\ IsSeries(sample) /\ kept(sample)
      /\ IsSeries(records) /\ kept(records)
      /\ IsSeries(hot) /\ kept(hot)
  BY <1>1 DEF Answers
<1> HIDE DEF kept
<1>4. /\ IsSeries(sample') /\ kept(sample')
      /\ sample' \in {sample, NoSeries} \/ (sample'.job = Last /\ UNCHANGED jobs)
  <2>1. CASE Scrape
    <3>1. CASE sample' = NoSeries
      BY <1>2, <3>1
    <3>2. CASE /\ counted # Nothing
               /\ sample' = [job |-> Last, attempt |-> attempt, counted |-> counted,
                             gauge |-> gauge, dominated |-> Dominated]
      <4>1. Last \in 1 .. Last /\ Owned(jobs[Last].width, gauge)
        BY <3>2 DEF TasksShow, RunningJob, JobsInOrder, Last
      <4>2. UNCHANGED jobs /\ Last' = Last
        BY <2>1 DEF Scrape, Last
      <4>3. /\ sample'.job = Last /\ sample'.gauge = gauge /\ IsSeries(sample')
        BY <3>2 DEF IsSeries
      <4> QED
        BY <4>1, <4>2, <4>3 DEF kept
    <3> QED
      BY <2>1, <3>1, <3>2 DEF Scrape
  <2>2. CASE ~Scrape
    <3>1. sample' = sample
      BY <2>2 DEF Next, Tasks, Observer, vars, prometheusVars, Submit, Fail, Restart, End,
         Open, Process, List, ReadGraph, ReadRecords, ReadHotState, Verify, Error
    <3> QED
      BY <1>3, <3>1
  <2> QED
    BY <2>1, <2>2
<1>5. sample'.job \in {0, Last'}
  <2>1. CASE Last' = Last
    BY <1>4, <2>1 DEF Answers, NoSeries
  <2>2. CASE Last' # Last
    <3>1. sample = NoSeries /\ sample' = sample
      BY <2>2, JobsStep DEF Submit, prometheusVars
    <3> QED
      BY <3>1 DEF NoSeries
  <2> QED
    BY <2>1, <2>2
<1>6. /\ IsSeries(records') /\ kept(records')
      /\ IsSeries(hot') /\ kept(hot')
  <2>1. CASE ReadRecords
    <3>1. hot' = hot
      BY <2>1 DEF ReadRecords
    <3>2. /\ records' = [sample EXCEPT !.gauge = Nothing]
      BY <2>1 DEF ReadRecords
    <3>3. /\ IsSeries(records')
          /\ records'.job = sample.job /\ records'.counted = sample.counted
          /\ records'.gauge = Nothing
      BY <1>3, <3>2 DEF IsSeries
    <3>4. kept(records')
      BY <1>3, <3>3 DEF kept, Owned, Nothing
    <3> QED
      BY <1>3, <3>1, <3>3, <3>4
  <2>2. CASE ReadHotState
    <3>1. records' = records
      BY <2>2 DEF ReadHotState
    <3>2. hot' = [sample EXCEPT !.counted = Nothing, !.dominated = FALSE]
      BY <2>2 DEF ReadHotState
    <3>3. /\ IsSeries(hot')
          /\ hot'.job = sample.job /\ hot'.counted = Nothing /\ hot'.gauge = sample.gauge
      BY <1>3, <3>2 DEF IsSeries
    <3>4. kept(hot')
      BY <1>3, <3>3 DEF kept
    <3> QED
      BY <1>3, <3>1, <3>3, <3>4
  <2>3. CASE Error
    <3>1. records' = NoSeries /\ hot' = NoSeries
      BY <2>3 DEF Error
    <3> QED
      BY <1>2, <3>1
  <2>4. CASE ~(ReadRecords \/ ReadHotState \/ Error)
    <3>1. records' = records /\ hot' = hot
      BY <2>4 DEF Next, Tasks, Observer, vars, answerVars, Submit, Fail, Restart, End,
         Open, Process, Scrape, List, ReadGraph, Verify
    <3> QED
      BY <1>3, <3>1
  <2> QED
    BY <2>1, <2>2, <2>3, <2>4
<1> QED
  BY <1>4, <1>5, <1>6 DEF Answers, OfAJob, kept, IsSeries, Owned

-----------------------------------------------------------------------------
(* The requests of verify_keyby.                                           *)

LEMMA ProgressStep ==
    ASSUME JobsInOrder, Answers, Progress, [Next]_vars
    PROVE  Progress'
<1>1. /\ Last \in Nat /\ Last' \in Nat /\ Last' >= Last
      /\ \A j \in 1 .. Last : jobs'[j].keyBy = jobs[j].keyBy
  BY JobsStep DEF JobsInOrder, Last
<1>2. found \in Nat /\ found <= Last
  BY <1>1 DEF Progress
<1>3. found # 0 => jobs'[found].keyBy = jobs[found].keyBy
  BY <1>1, <1>2
<1>4. CASE Submit
  <2>1. replaced' = (found # 0) /\ UNCHANGED <<pc, found, records, hot>>
    BY <1>4 DEF Submit, answerVars
  <2>2. found' \in 0 .. Last'
    BY <1>1, <1>2, <2>1
  <2> QED
    BY <1>3, <2>1, <2>2 DEF Progress
<1>5. ASSUME UNCHANGED <<pc, found, records, hot, replaced>>, Last' = Last
      PROVE  Progress'
  BY <1>3, <1>5 DEF Progress
<1>6. CASE ~Submit /\ ~Observer
  <2>1. UNCHANGED <<pc, found, records, hot, replaced>>
    BY <1>6 DEF Next, Tasks, vars, answerVars, Fail, Restart, End, Open, Process, Scrape
  <2>2. Last' = Last
    BY <1>6, JobsStep
  <2> QED
    BY <1>5, <2>1, <2>2
<1>7. CASE Observer
  <2>1. jobs' = jobs /\ Last' = Last
    BY <1>7 DEF Observer, List, ReadGraph, ReadRecords, ReadHotState, Verify, Error, Last
  <2>2. CASE List
    <3>1. found' = Last /\ Last # 0
      BY <2>2 DEF List, Listed, JobsInOrder, Last
    <3>2. pc' = "graph" /\ replaced' \in BOOLEAN
      BY <2>2 DEF List
    <3>3. found' \in 0 .. Last' /\ found' = Last'
      BY <1>1, <2>1, <3>1
    <3> QED
      BY <3>1, <3>2, <3>3 DEF Progress
  <2>3. CASE ReadGraph
    BY <2>1, <2>3 DEF ReadGraph, Progress, answerVars
  <2>4. CASE ReadRecords
    <3>1. records' = [sample EXCEPT !.gauge = Nothing] /\ pc = "records" /\ pc' = "hot"
      BY <2>4 DEF ReadRecords
    <3>2. UNCHANGED <<found, hot, replaced>>
      BY <2>4 DEF ReadRecords
    <3>3. records'.job = sample.job
      BY <3>1 DEF Answers, OfAJob, IsSeries
    <3>4. sample.job \in {0, Last}
      BY DEF Answers
    <3> QED
      BY <2>1, <3>1, <3>2, <3>3, <3>4 DEF Progress
  <2>5. CASE ReadHotState
    <3>1. hot' = [sample EXCEPT !.counted = Nothing, !.dominated = FALSE]
          /\ pc = "hot" /\ pc' = "local"
      BY <2>5 DEF ReadHotState
    <3>2. UNCHANGED <<found, records, replaced>>
      BY <2>5 DEF ReadHotState
    <3>3. hot'.job = sample.job
      BY <3>1 DEF Answers, OfAJob, IsSeries
    <3>4. sample.job \in {0, Last}
      BY DEF Answers
    <3> QED
      BY <2>1, <3>1, <3>2, <3>3, <3>4 DEF Progress
  <2>6. CASE Verify
    <3>1. /\ pc = "local" /\ pc' \in {"PASS", "FAIL"}
          /\ UNCHANGED <<found, records, hot, replaced>>
      BY <2>6 DEF Verify
    <3> QED
      BY <2>1, <3>1 DEF Progress
  <2>7. CASE Error
    <3>1. pc' = "error" /\ found' = 0 /\ replaced' \in BOOLEAN
      BY <2>7 DEF Error
    <3> QED
      BY <1>1, <3>1 DEF Progress
  <2> QED
    BY <1>7, <2>2, <2>3, <2>4, <2>5, <2>6, <2>7 DEF Observer
<1> QED
  BY <1>4, <1>6, <1>7

\* A verdict is the last step.
LEMMA VerdictStep ==
    ASSUME Verdict, [Next]_vars
    PROVE  Verdict'
<1>1. CASE Verify
  <2>1. /\ local' = recent
        /\ UNCHANGED <<jobs, found, records, hot>>
        /\ \/ Passes(recent) /\ pc' = "PASS" /\ named' \in HotOwners
           \/ pc' = "FAIL" /\ named' = named
    BY <1>1 DEF Verify
  <2>2. CASE pc' = "FAIL" /\ named' = named
    BY <2>2 DEF Verdict
  <2>3. CASE Passes(recent) /\ pc' = "PASS" /\ named' \in HotOwners
    <3>1. named' \in Expected
      BY <2>3 DEF Passes, Covered, HotOwners
    <3>2. GraphIsKeyed' /\ Covered(local)' /\ HotOwners' = HotOwners
      BY <2>1, <2>3 DEF Passes, Covered, GraphIsKeyed, HotOwners
    <3> QED
      BY <2>3, <3>1, <3>2 DEF Verdict
  <2> QED
    BY <2>1, <2>2, <2>3
<1>2. CASE Next /\ ~Verify
  <2>1. pc' # "PASS" /\ named' = named
    BY <1>2 DEF Next, Tasks, Observer, Submit, Fail, Restart, End, Open, Process, Scrape,
       List, ReadGraph, ReadRecords, ReadHotState, Error
  <2> QED
    BY <2>1 DEF Verdict
<1>3. CASE UNCHANGED vars
  BY <1>3 DEF vars, answerVars, Verdict, Covered, GraphIsKeyed, HotOwners
<1> QED
  BY <1>1, <1>2, <1>3

-----------------------------------------------------------------------------
(* What a verdict rests on.                                                *)

\* The state of verify_keyby, of the jobs and of the last scrape, at any time.
THEOREM EvidenceInvariant == Spec => []EvidenceInv
<1>1. Init => EvidenceInv
  <2> SUFFICES ASSUME Init PROVE EvidenceInv
    OBVIOUS
  <2>1. JobsInOrder /\ Last = 0
    BY DEF Init, JobsInOrder, Last
  <2>2. TasksShow
    BY DEF Init, TasksShow, Nothing
  <2>3. Answers
    BY <2>1 DEF Init, Answers, OfAJob, IsSeries, NoSeries
  <2>4. Progress
    <3>1. pc = "list" /\ found = 0 /\ replaced \in BOOLEAN
      BY DEF Init
    <3> QED
      BY <2>1, <3>1 DEF Progress
  <2>5. Verdict
    BY DEF Init, Verdict
  <2> QED
    BY <2>1, <2>2, <2>3, <2>4, <2>5 DEF EvidenceInv
<1>2. EvidenceInv /\ [Next]_vars => EvidenceInv'
  BY JobsStep, TasksStep, AnswersStep, ProgressStep, VerdictStep DEF EvidenceInv
<1> QED
  BY <1>1, <1>2, PTL DEF Spec

\* The series of a task come and go together, and no gauge of the subtasks
\* (HotTenantStateFunction) shows more than the state holds.
THEOREM EvidenceTypeCorrect == Spec => []TypeOK
<1>1. EvidenceInv => TypeOK
  <2> SUFFICES ASSUME EvidenceInv PROVE TypeOK
    OBVIOUS
  <2> USE DEF EvidenceInv
  <2>1. \A j \in DOMAIN jobs :
           jobs[j].width \in Widths /\ jobs[j].state \in {"RUNNING", "RESTARTING", "ENDED"}
    <3>1. \A j \in DOMAIN jobs : jobs[j] \in Job
      BY DEF JobsInOrder
    <3> QED
      BY <3>1 DEF Job
  <2>2. DOMAIN Nothing = {} /\ Last \in Nat
    BY DEF Nothing, JobsInOrder, Last
  <2>3. \A s \in DOMAIN gauge :
           gauge[s] > 0 => s = Owner[jobs[Last].width] /\ gauge[s] <= hotState
    BY <2>2 DEF TasksShow, Owned
  <2>4. sample.job \in 0 .. Last /\ found \in 0 .. Last /\ named \in {-1} \cup Expected
    BY <2>2 DEF Answers, Progress, Verdict
  <2> QED
    BY <2>1, <2>2, <2>3, <2>4 DEF TypeOK, TasksShow, Owned
<1> QED
  BY <1>1, EvidenceInvariant, PTL

\* The counts and the gauges behind a PASS are of the listed job unless it was
\* replaced during the verification, though no query of keyby_evidence.py names
\* a job: the series of an ended job are gone before the next one starts.
THEOREM EvidenceIsOfOneJobHolds == Spec => []EvidenceIsOfOneJob
<1>1. EvidenceInv => EvidenceIsOfOneJob
  <2> SUFFICES ASSUME EvidenceInv, pc = "PASS", ~replaced
               PROVE  records.job = found /\ hot.job = found
    BY DEF EvidenceIsOfOneJob
  <2> USE DEF EvidenceInv
  <2>1. records.job \in {0, found} /\ hot.job \in {0, found}
    BY DEF Progress
  <2>2. 0 \in DOMAIN records.counted /\ 0 \in DOMAIN hot.gauge
    BY DEF Verdict, Covered, Expected
  <2>3. records.counted # Nothing /\ hot.gauge # Nothing
    BY <2>2 DEF Nothing
  <2>4. OfAJob(records) /\ OfAJob(hot)
    BY DEF Answers
  <2> QED
    BY <2>1, <2>3, <2>4 DEF OfAJob
<1> QED
  BY <1>1, EvidenceInvariant, PTL

\* The lab runs no job wider than PARALLELISM of keyby_common.py.
NoneWider == \A w \in Widths : w <= Parallelism

\* A PASS names the subtask that owns tenant-hot in the listed job, also when the job
\* was replaced between two queries: all gauges of an operator that is no wider
\* than expected are the gauges of one that is as wide, and its owner is the same.
THEOREM PassNamesTheOwnerHolds ==
    ASSUME NoneWider
    PROVE  Spec => []PassNamesTheOwner
<1>1. EvidenceInv => PassNamesTheOwner
  <2> SUFFICES ASSUME EvidenceInv, pc = "PASS"
               PROVE  jobs[found].keyBy /\ named = Owner[jobs[found].width]
    BY DEF PassNamesTheOwner
  <2> USE DEF EvidenceInv
  <2>1. /\ jobs[found].keyBy /\ jobs[found].width = Parallelism
        /\ DOMAIN hot.gauge = 0 .. Parallelism - 1
        /\ named \in DOMAIN hot.gauge /\ hot.gauge[named] > 0
    BY DEF Progress, Verdict, Covered, GraphIsKeyed, HotOwners, Expected
  <2>2. hot.gauge # Nothing
    BY <2>1 DEF Nothing
  <2>3. hot.job \in 1 .. Last /\ Owned(jobs[hot.job].width, hot.gauge)
    BY <2>2 DEF Answers, OfAJob
  <2>4. jobs[hot.job].width \in Widths
    <3>1. jobs[hot.job] \in Job
      BY <2>3 DEF JobsInOrder, Last
    <3> QED
      BY <3>1 DEF Job
  <2>5. jobs[hot.job].width = Parallelism
    <3>1. Parallelism - 1 \in 0 .. jobs[hot.job].width - 1
      BY <2>1, <2>3 DEF Owned
    <3> QED
      BY <2>4, <3>1 DEF NoneWider
  <2> QED
    BY <2>1, <2>3, <2>5 DEF Owned
<1> QED
  BY <1>1, EvidenceInvariant, PTL

-----------------------------------------------------------------------------
(* Sums of counts are numbers, by a least counterexample in place of an    *)
(* induction.                                                              *)

First(s) == CHOOSE x \in s : TRUE
\* g sums f over the sets in a collection.
SumOf(g, f, s) == IF s = {} THEN 0 ELSE f[First(s)] + g[s \ {First(s)}]
Sums(g, f, C) == g = [s \in C |-> SumOf(g, f, s)]
SumsAll(g, f, S) == Sums(g, f, SUBSET S)

LEMMA SumIsChosen ==
    ASSUME NEW f, NEW S
    PROVE  SumFunctionOnSet(f, S) = (CHOOSE g : SumsAll(g, f, S))[S]
BY DEF SumFunctionOnSet, FoldFunctionOnSet, MapThenFoldSet, Sums, SumsAll, SumOf, First

\* The least of some numbers, in place of an induction.
LEMMA LeastNumber ==
    ASSUME NEW N \in SUBSET Nat, N # {}
    PROVE  \E n \in N : \A k \in Nat : k < n => k \notin N
<1>1. PICK n \in N : \A k \in N : <<k, n>> \notin OpToRel(<, Nat)
  BY NatLessThanWellFounded, WFMin
<1>2. ASSUME NEW k \in N, k < n PROVE FALSE
  <2>1. <<k, n>> \in Nat \X Nat
    OBVIOUS
  <2>2. <<k, n>> \in OpToRel(<, Nat)
    BY <1>2, <2>1, Zenon DEF OpToRel
  <2> QED
    BY <1>1, <2>2
<1> QED
  BY <1>2

LEMMA FirstProperty ==
    ASSUME NEW s, IsFiniteSet(s), s # {}
    PROVE  /\ First(s) \in s /\ IsFiniteSet(s \ {First(s)})
           /\ Cardinality(s) \in Nat
           /\ Cardinality(s \ {First(s)}) = Cardinality(s) - 1
           /\ Cardinality(s) > 0
<1>1. First(s) \in s
  BY DEF First
<1> HIDE DEF First
<1> QED
  BY <1>1, FS_RemoveElement, FS_CardinalityType, FS_EmptySet

LEMMA SumsExist ==
    ASSUME NEW f, NEW S, IsFiniteSet(S)
    PROVE  \E g : SumsAll(g, f, S)
<1> DEFINE Level(n) == {s \in SUBSET S : Cardinality(s) <= n}
           Bad == {n \in Nat : ~ \E g : Sums(g, f, Level(n))}
<1>1. ASSUME NEW s \in SUBSET S
      PROVE  IsFiniteSet(s) /\ Cardinality(s) \in Nat
  BY FS_Subset, FS_CardinalityType
<1>2. Bad = {}
  <2> SUFFICES ASSUME Bad # {} PROVE FALSE
    OBVIOUS
  <2>1. PICK n \in Bad : \A k \in Nat : k < n => k \notin Bad
    <3>1. Bad \in SUBSET Nat
      OBVIOUS
    <3> HIDE DEF Bad
    <3> QED
      BY <3>1, LeastNumber
  <2>2. n \in Nat /\ ~ \E g : Sums(g, f, Level(n))
    OBVIOUS
  <2>3. PICK g : \A s \in Level(n - 1) : n # 0 => g[s] = SumOf(g, f, s)
    <3>1. CASE n = 0
      BY <3>1
    <3>2. CASE n # 0
      <4>1. n - 1 \in Nat /\ n - 1 < n
        BY <2>2, <3>2
      <4>2. PICK g : Sums(g, f, Level(n - 1))
        BY <2>1, <4>1
      <4>3. \A s \in Level(n - 1) : g[s] = SumOf(g, f, s)
        <5> HIDE DEF Level
        <5> QED
          BY <4>2 DEF Sums
      <4> QED
        BY <4>3
    <3> QED
      BY <3>1, <3>2
  <2> DEFINE h == [s \in Level(n) |-> SumOf(g, f, s)]
  <2>4. ASSUME NEW s \in Level(n) PROVE h[s] = SumOf(h, f, s)
    <3>1. CASE s = {}
      BY <3>1 DEF SumOf
    <3>2. CASE s # {}
      <4> DEFINE u == s \ {First(s)}
      <4>1. IsFiniteSet(s) /\ Cardinality(s) \in Nat /\ Cardinality(s) <= n
        BY <1>1
      <4>2. Cardinality(u) = Cardinality(s) - 1 /\ Cardinality(s) > 0
        BY <3>2, <4>1, FirstProperty
      <4>3. n # 0 /\ u \in Level(n - 1) /\ u \in Level(n)
        BY <2>2, <4>1, <4>2
      <4>4. h[u] = SumOf(g, f, u) /\ g[u] = SumOf(g, f, u)
        BY <2>3, <4>3
      <4>5. h[s] = SumOf(g, f, s)
        OBVIOUS
      <4> HIDE DEF h, u
      <4>6. SumOf(g, f, s) = f[First(s)] + g[u] /\ SumOf(h, f, s) = f[First(s)] + h[u]
        BY <3>2 DEF SumOf, u
      <4> QED
        BY <4>4, <4>5, <4>6
    <3> QED
      BY <3>1, <3>2
  <2>5. Sums(h, f, Level(n))
    <3>1. h = [s \in Level(n) |-> h[s]]
      OBVIOUS
    <3> HIDE DEF h, Level
    <3> QED
      BY <2>4, <3>1 DEF Sums
  <2> QED
    BY <2>2, <2>5
<1>3. Level(Cardinality(S)) = SUBSET S
  BY <1>1, FS_Subset
<1>4. Cardinality(S) \notin Bad /\ Cardinality(S) \in Nat
  BY <1>1, <1>2
<1> QED
  BY <1>3, <1>4 DEF SumsAll

LEMMA SumType ==
    ASSUME NEW f, IsFiniteSet(DOMAIN f), \A x \in DOMAIN f : f[x] \in Nat
    PROVE  SumFunction(f) \in Nat
<1> DEFINE S == DOMAIN f
<1>1. PICK g : SumsAll(g, f, S) /\ SumFunctionOnSet(f, S) = g[S]
  BY SumIsChosen, SumsExist
<1> DEFINE Bad == {n \in Nat : \E s \in SUBSET S : Cardinality(s) = n /\ g[s] \notin Nat}
<1>2. ASSUME NEW s \in SUBSET S
      PROVE  IsFiniteSet(s) /\ Cardinality(s) \in Nat /\ g[s] = SumOf(g, f, s)
  BY <1>1, FS_Subset, FS_CardinalityType DEF Sums, SumsAll
<1>3. Bad = {}
  <2> SUFFICES ASSUME Bad # {} PROVE FALSE
    OBVIOUS
  <2>1. PICK n \in Bad : \A k \in Nat : k < n => k \notin Bad
    <3>1. Bad \in SUBSET Nat
      OBVIOUS
    <3> HIDE DEF Bad
    <3> QED
      BY <3>1, LeastNumber
  <2>2. PICK s \in SUBSET S : Cardinality(s) = n /\ g[s] \notin Nat
    OBVIOUS
  <2>3. CASE s = {}
    <3>1. g[s] = 0
      BY <1>2, <2>3 DEF SumOf
    <3> QED
      BY <2>2, <3>1
  <2>4. CASE s # {}
    <3> DEFINE u == s \ {First(s)}
    <3>1. /\ First(s) \in s /\ u \in SUBSET S /\ Cardinality(u) \in Nat
          /\ Cardinality(u) < n
      BY <1>2, <2>2, <2>4, FirstProperty
    <3>2. g[u] \in Nat
      BY <2>1, <3>1
    <3>3. g[s] = f[First(s)] + g[u] /\ f[First(s)] \in Nat
      BY <1>2, <2>4, <3>1 DEF SumOf
    <3> QED
      BY <2>2, <3>2, <3>3
  <2> QED
    BY <2>3, <2>4
<1>4. g[S] \in Nat
  BY <1>2, <1>3
<1> QED
  BY <1>1, <1>4 DEF SumFunction

-----------------------------------------------------------------------------
(* How the records of tenant-hot show in the answers: a count in one       *)
(* answer and a gauge in a later one are of the same subtask as long as    *)
(* both are of one attempt.                                                *)

\* Where an answer was dominated, the owner counted more than half of the records.
OwnerLeads(list, answer) ==
    answer.job # 0 /\ answer.dominated =>
        /\ Owner[list[answer.job].width] \in DOMAIN answer.counted
        /\ 2 * answer.counted[Owner[list[answer.job].width]] > SumFunction(answer.counted)

\* Series of the same attempt, taken later: no subtask is missing, and a count of
\* tenant-hot is still shown.
GrownFrom(list, answer, job, number, series) ==
    answer.job # 0 /\ answer.attempt = number =>
        /\ answer.job = job /\ DOMAIN answer.counted \subseteq DOMAIN series
        /\ answer.dominated => series[Owner[list[answer.job].width]] > 0

\* What the records of tenant-hot leave behind.
SharesCounted ==
    /\ Last # 0 => attempt > 0
    /\ hotShare \in Nat
    /\ \A s \in DOMAIN counted : counted[s] \in Nat
    /\ hotShare > 0 => LET owner == Owner[jobs[Last].width] IN
                       /\ owner \in DOMAIN counted /\ hotShare <= counted[owner]
                       /\ gauge[owner] > 0

Tracked(answer) ==
    /\ answer.dominated \in BOOLEAN
    /\ answer.attempt \in 0 .. attempt /\ (answer.job # 0 <=> answer.attempt > 0)
    /\ OwnerLeads(jobs, answer)
    /\ RunningJob => GrownFrom(jobs, answer, Last, attempt, gauge)

SharesSampled ==
    /\ Tracked(sample) /\ Tracked(records)
    /\ sample.job # 0 => /\ DOMAIN sample.counted = DOMAIN sample.gauge
                         /\ sample.dominated => sample.gauge[Owner[jobs[sample.job].width]] > 0
                         /\ GrownFrom(jobs, records, sample.job, sample.attempt, sample.gauge)

SharesRead ==
    /\ IF hot.job = 0 THEN hot.attempt = 0
       ELSE GrownFrom(jobs, records, hot.job, hot.attempt, hot.gauge)
    /\ pc \in {"list", "graph", "records", "hot"} => hot.job = 0
    /\ pc = "FAIL" => ~Passes(local)

SharesInv == SharesCounted /\ SharesSampled /\ SharesRead

LEMMA SharesCountedStep ==
    ASSUME JobsInOrder, TasksShow, SharesCounted, [Next]_vars
    PROVE  SharesCounted'
<1>1. hotState \in Nat /\ hotShare \in Nat /\ attempt \in Nat
  BY DEF TasksShow, SharesCounted
<1>8. Last' # 0 => attempt' > 0
  <2>1. Last' # Last => Submit
    BY JobsStep
  <2>2. attempt' = attempt \/ attempt' = attempt + 1
    BY DEF Next, Tasks, Observer, vars, taskVars, Submit, Fail, Restart, End, Open, Process,
       Scrape, List, ReadGraph, ReadRecords, ReadHotState, Verify, Error
  <2>3. Submit => attempt' = attempt + 1
    BY DEF Submit
  <2> QED
    BY <1>1, <2>1, <2>2, <2>3 DEF SharesCounted
<1>2. CASE UNCHANGED <<jobs, counted, gauge, hotShare>>
  BY <1>2, <1>8 DEF SharesCounted, Last
<1>3. CASE Submit \/ Restart
  <2>1. counted = Nothing /\ UNCHANGED <<counted, gauge, hotShare>>
    BY <1>3 DEF Submit, Restart, TasksShow, RunningJob
  <2>2. hotShare = 0
    BY <1>1, <2>1 DEF SharesCounted, Nothing
  <2> QED
    BY <1>8, <2>1, <2>2 DEF SharesCounted, Nothing
<1>4. CASE Fail \/ End
  <2>1. counted' = Nothing /\ hotShare' = 0
    BY <1>4 DEF Fail, End, TasksGone
  <2> QED
    BY <1>8, <2>1 DEF SharesCounted, Nothing
<1>5. ASSUME NEW s, Open(s) PROVE SharesCounted'
  <2>1. /\ DOMAIN counted' = DOMAIN counted \cup {s} /\ s \notin DOMAIN counted
        /\ \A x \in DOMAIN counted' : counted'[x] = IF x = s THEN 0 ELSE counted[x]
        /\ DOMAIN gauge = DOMAIN counted
        /\ \A x \in DOMAIN counted : gauge'[x] = gauge[x]
        /\ UNCHANGED <<jobs, hotShare>> /\ Last' = Last
    BY <1>5 DEF Open, FreshGauge, Registered, TasksShow, Last
  <2> QED
    BY <1>8, <2>1 DEF SharesCounted
<1>6. ASSUME NEW s, NEW isHot \in BOOLEAN, Process(s, isHot) PROVE SharesCounted'
  <2>1. /\ UNCHANGED jobs /\ Last' = Last /\ s \in DOMAIN counted
        /\ DOMAIN gauge = DOMAIN counted /\ DOMAIN counted' = DOMAIN counted
        /\ \A x \in DOMAIN counted :
              counted'[x] = IF x = s THEN counted[x] + 1 ELSE counted[x]
    BY <1>6 DEF Process, TasksShow, Last
  <2>2. CASE isHot
    <3>1. /\ s = Owner[jobs[Last].width] /\ hotShare' = hotShare + 1
          /\ gauge'[s] = hotState + 1
      BY <1>6, <2>1, <2>2 DEF Process, Published
    <3>2. hotShare <= counted[s] /\ counted[s] \in Nat
      BY <1>1, <2>1, <3>1 DEF SharesCounted
    <3> QED
      BY <1>1, <1>8, <2>1, <3>1, <3>2 DEF SharesCounted
  <2>3. CASE ~isHot
    <3>1. hotShare' = hotShare /\ \A x \in DOMAIN counted : gauge'[x] = gauge[x]
      BY <1>1, <1>6, <2>1, <2>3 DEF Process, Published
    <3> QED
      BY <1>8, <2>1, <3>1 DEF SharesCounted
  <2> QED
    BY <2>2, <2>3
<1>7. CASE Observer \/ Scrape \/ UNCHANGED vars
  BY <1>2, <1>7 DEF Observer, Scrape, vars, taskVars, List, ReadGraph, ReadRecords,
     ReadHotState, Verify, Error
<1> QED
  BY <1>3, <1>4, <1>5, <1>6, <1>7 DEF Next, Tasks

\* A scrape that shows most records to be of tenant-hot shows it at the owner.
LEMMA ScrapeLeads ==
    ASSUME TasksShow, SharesCounted, counted # Nothing, Dominated, JobsInOrder
    PROVE  LET owner == Owner[jobs[Last].width] IN
           /\ owner \in DOMAIN counted /\ 2 * counted[owner] > SumFunction(counted)
           /\ gauge[owner] > 0
<1>1. SumFunction(counted) \in Nat
  <2>1. DOMAIN counted \subseteq 0 .. jobs[Last].width - 1
    BY DEF TasksShow, Owned
  <2>2. jobs[Last].width \in Nat
    <3>1. jobs[Last] \in Job
      BY DEF TasksShow, RunningJob, JobsInOrder, Last
    <3> QED
      BY <3>1 DEF Job
  <2>3. IsFiniteSet(DOMAIN counted)
    <3>1. IsFiniteSet(0 .. jobs[Last].width - 1)
      BY <2>2, FS_Interval
    <3> QED
      BY <2>1, <3>1, FS_Subset
  <2> QED
    BY <2>3, SumType DEF SharesCounted
<1>2. hotShare \in Nat /\ hotShare > 0
  BY <1>1 DEF Dominated, SharesCounted
<1>3. LET owner == Owner[jobs[Last].width] IN
      /\ owner \in DOMAIN counted /\ hotShare <= counted[owner]
      /\ gauge[owner] > 0 /\ counted[owner] \in Nat
  BY <1>2 DEF SharesCounted
<1> QED
  BY <1>1, <1>2, <1>3 DEF Dominated

\* What was sampled of a job stays, while its tasks go on or are replaced.
LEMMA TasksGrow ==
    ASSUME JobsInOrder, TasksShow, [Next]_vars, NEW answer,
           answer.attempt \in 0 .. attempt, answer.job # 0 <=> answer.attempt > 0,
           answer.job # 0 => answer.job \in 1 .. Last,
           OwnerLeads(jobs, answer), RunningJob => GrownFrom(jobs, answer, Last, attempt, gauge)
    PROVE  /\ answer.attempt \in 0 .. attempt'
           /\ OwnerLeads(jobs', answer)
           /\ RunningJob' => GrownFrom(jobs', answer, Last', attempt', gauge')
<1>1. /\ Last \in Nat /\ Last' \in Nat /\ Last' >= Last
      /\ \A j \in 1 .. Last : jobs'[j].width = jobs[j].width
      /\ attempt \in Nat /\ hotState \in Nat
  BY JobsStep DEF JobsInOrder, Last, TasksShow
<1>2. OwnerLeads(jobs', answer)
  BY <1>1 DEF OwnerLeads
<1>3. ASSUME attempt' = attempt + 1
      PROVE  answer.attempt \in 0 .. attempt' /\ answer.attempt # attempt'
  BY <1>1, <1>3
<1>4. CASE Submit \/ Restart
  BY <1>2, <1>3, <1>4 DEF Submit, Restart, GrownFrom
<1>5. CASE UNCHANGED <<jobs, attempt, gauge>>
  BY <1>2, <1>5 DEF RunningJob, GrownFrom, Last
<1>6. CASE Fail \/ End
  <2>1. ~RunningJob' /\ attempt' = attempt
    <3>1. jobs' = [jobs EXCEPT ![Last].state = "RESTARTING"] \/ jobs' = [jobs EXCEPT ![Last].state = "ENDED"]
      BY <1>6 DEF Fail, End
    <3>2. Last # 0 /\ attempt' = attempt
      BY <1>6 DEF Fail, End, RunningJob
    <3>3. jobs \in Seq(Job) /\ jobs[Last] \in Job /\ Last \in DOMAIN jobs
      BY <1>1, <3>2 DEF JobsInOrder, Last
    <3>4. jobs'[Last].state # "RUNNING" /\ Last' = Last
      BY <3>1, <3>3 DEF Last, Job
    <3> QED
      BY <3>2, <3>4 DEF RunningJob
  <2> QED
    BY <1>2, <2>1
<1>7. ASSUME UNCHANGED <<jobs, attempt>>, RunningJob, DOMAIN gauge \subseteq DOMAIN gauge',
             \A x \in DOMAIN gauge : gauge[x] > 0 => gauge'[x] > 0,
             DOMAIN counted = DOMAIN gauge
      PROVE  GrownFrom(jobs', answer, Last', attempt', gauge')
  <2> SUFFICES ASSUME answer.job # 0, answer.attempt = attempt
               PROVE  /\ answer.job = Last /\ DOMAIN answer.counted \subseteq DOMAIN gauge'
                      /\ answer.dominated => gauge'[Owner[jobs[answer.job].width]] > 0
    BY <1>7 DEF GrownFrom, Last
  <2>1. /\ answer.job = Last /\ DOMAIN answer.counted \subseteq DOMAIN gauge
        /\ answer.dominated => gauge[Owner[jobs[answer.job].width]] > 0
    BY <1>7 DEF GrownFrom
  <2>2. answer.dominated => Owner[jobs[answer.job].width] \in DOMAIN gauge
    BY <2>1 DEF OwnerLeads
  <2> QED
    BY <1>7, <2>1, <2>2
<1>8. ASSUME NEW s, Open(s) PROVE GrownFrom(jobs', answer, Last', attempt', gauge')
  <2>1. /\ UNCHANGED <<jobs, attempt>> /\ RunningJob /\ DOMAIN counted = DOMAIN gauge
        /\ DOMAIN gauge \subseteq DOMAIN gauge'
        /\ \A x \in DOMAIN gauge : gauge'[x] = gauge[x]
    BY <1>8 DEF Open, Registered, TasksShow
  <2> QED
    BY <1>7, <2>1
<1>9. ASSUME NEW s, NEW isHot \in BOOLEAN, Process(s, isHot)
      PROVE  GrownFrom(jobs', answer, Last', attempt', gauge')
  <2>1. /\ UNCHANGED <<jobs, attempt>> /\ RunningJob /\ DOMAIN counted = DOMAIN gauge
        /\ DOMAIN gauge' = DOMAIN gauge
    BY <1>9 DEF Process, TasksShow
  <2>2. ASSUME NEW x \in DOMAIN gauge, gauge[x] > 0 PROVE gauge'[x] > 0
    <3>1. CASE isHot
      <4>1. gauge'[x] = IF x = s THEN hotState + 1 ELSE gauge[x]
        BY <1>9, <3>1 DEF Process, Published
      <4> QED
        BY <1>1, <2>2, <4>1
    <3>2. CASE ~isHot
      BY <1>9, <2>2, <3>2 DEF Process, Published
    <3> QED
      BY <3>1, <3>2
  <2> QED
    BY <1>7, <2>1, <2>2
<1>10. CASE Observer \/ Scrape \/ UNCHANGED vars
  BY <1>5, <1>10 DEF Observer, Scrape, vars, taskVars, List, ReadGraph, ReadRecords,
     ReadHotState, Verify, Error
<1>11. ASSUME NEW s, Open(s) \/ \E isHot \in BOOLEAN : Process(s, isHot)
       PROVE  attempt' = attempt
  BY <1>11 DEF Open, Process
<1> QED
  BY <1>2, <1>4, <1>5, <1>6, <1>8, <1>9, <1>10, <1>11 DEF Next, Tasks

LEMMA SharesSampledStep ==
    ASSUME JobsInOrder, TasksShow, Answers, SharesCounted, SharesSampled, [Next]_vars
    PROVE  SharesSampled'
<1> DEFINE Stays(answer) ==
             /\ answer.dominated \in BOOLEAN
             /\ answer.attempt \in 0 .. attempt' /\ (answer.job # 0 <=> answer.attempt > 0)
             /\ OwnerLeads(jobs', answer)
             /\ RunningJob' => GrownFrom(jobs', answer, Last', attempt', gauge')
<1>1. /\ OfAJob(sample) /\ OfAJob(records) /\ Tracked(sample) /\ Tracked(records)
      /\ sample.job # 0 => /\ DOMAIN sample.counted = DOMAIN sample.gauge
                           /\ sample.dominated => sample.gauge[Owner[jobs[sample.job].width]] > 0
                           /\ GrownFrom(jobs, records, sample.job, sample.attempt, sample.gauge)
  BY DEF Answers, SharesSampled
<1>2. ASSUME NEW answer, OfAJob(answer), Tracked(answer) PROVE Stays(answer)
  BY <1>2, TasksGrow DEF OfAJob, Tracked
<1>3. Stays(NoSeries)
  <2>1. attempt' \in Nat
    BY TasksStep DEF TasksShow
  <2> QED
    BY <2>1 DEF NoSeries, OwnerLeads, GrownFrom
<1>4. Stays(sample) /\ Stays(records)
  BY <1>1, <1>2
<1>5. /\ Tracked(sample)' <=> Stays(sample')
      /\ Tracked(records)' <=> Stays(records')
  BY DEF Tracked
<1>6. /\ sample.job # 0 => jobs'[sample.job].width = jobs[sample.job].width
      /\ records.job # 0 => jobs'[records.job].width = jobs[records.job].width
  BY <1>1, JobsStep DEF OfAJob
<1> HIDE DEF Stays
<1>7. CASE UNCHANGED <<sample, records>>
  BY <1>1, <1>4, <1>5, <1>6, <1>7 DEF SharesSampled, GrownFrom
<1>8. CASE Scrape
  <2>1. UNCHANGED <<jobs, taskVars, records>> /\ Last' = Last
    BY <1>8 DEF Scrape, answerVars, Last
  <2>2. CASE sample' = NoSeries
    BY <1>3, <1>4, <1>5, <2>1, <2>2 DEF SharesSampled, NoSeries
  <2>3. CASE /\ counted # Nothing
             /\ sample' = [job |-> Last, attempt |-> attempt, counted |-> counted,
                           gauge |-> gauge, dominated |-> Dominated]
    <3> DEFINE owner == Owner[jobs[Last].width]
    <3>1. /\ sample'.job = Last /\ sample'.attempt = attempt /\ sample'.counted = counted
          /\ sample'.gauge = gauge /\ sample'.dominated = Dominated
      BY <2>3
    <3>2. RunningJob /\ Last # 0 /\ DOMAIN counted = DOMAIN gauge
      BY <2>3 DEF TasksShow, RunningJob
    <3>3. Dominated => /\ owner \in DOMAIN counted /\ 2 * counted[owner] > SumFunction(counted)
                       /\ gauge[owner] > 0
      BY <2>3, ScrapeLeads
    <3>4. attempt > 0 /\ attempt \in Nat
      BY <3>2 DEF SharesCounted, TasksShow
    <3>5. /\ jobs' = jobs /\ attempt' = attempt /\ gauge' = gauge
      BY <2>1 DEF taskVars
    <3> HIDE DEF owner
    <3>6. OwnerLeads(jobs, sample')
      BY <3>1, <3>3 DEF OwnerLeads, owner
    <3>7. GrownFrom(jobs, sample', Last, attempt, gauge)
      BY <3>1, <3>2, <3>3 DEF GrownFrom, owner
    <3>8. sample'.dominated \in BOOLEAN
      BY <3>1 DEF Dominated
    <3>9. Stays(sample')
      BY <2>1, <3>1, <3>2, <3>4, <3>5, <3>6, <3>7, <3>8 DEF Stays
    <3>10. GrownFrom(jobs, records, Last, attempt, gauge)
      BY <1>1, <3>2 DEF Tracked
    <3> QED
      BY <1>4, <1>5, <2>1, <3>1, <3>2, <3>3, <3>5, <3>9, <3>10 DEF SharesSampled, owner
  <2> QED
    BY <1>8, <2>2, <2>3 DEF Scrape
<1>9. CASE ReadRecords
  <2>1. /\ UNCHANGED <<jobs, sample>> /\ records' = [sample EXCEPT !.gauge = Nothing]
    BY <1>9 DEF ReadRecords, prometheusVars
  <2>2. /\ records'.job = sample.job /\ records'.attempt = sample.attempt
        /\ records'.counted = sample.counted /\ records'.dominated = sample.dominated
    BY <1>1, <2>1 DEF OfAJob, IsSeries
  <2>3. Stays(records')
    BY <1>4, <2>2 DEF Stays, OwnerLeads, GrownFrom
  <2>4. sample.job # 0 => GrownFrom(jobs, records', sample.job, sample.attempt, sample.gauge)
    BY <1>1, <2>2 DEF GrownFrom
  <2> QED
    BY <1>1, <1>4, <1>5, <2>1, <2>3, <2>4 DEF SharesSampled
<1>10. CASE Error
  <2>1. UNCHANGED <<jobs, sample>> /\ records' = NoSeries
    BY <1>10 DEF Error, prometheusVars
  <2> QED
    BY <1>1, <1>3, <1>4, <1>5, <2>1 DEF SharesSampled, NoSeries, GrownFrom
<1>11. CASE ~(Scrape \/ ReadRecords \/ Error)
  <2>1. UNCHANGED <<sample, records>>
    BY <1>11 DEF Next, Tasks, Observer, vars, prometheusVars, answerVars, Submit, Fail,
       Restart, End, Open, Process, List, ReadGraph, ReadHotState, Verify
  <2> QED
    BY <1>7, <2>1
<1> QED
  BY <1>8, <1>9, <1>10, <1>11

LEMMA SharesReadStep ==
    ASSUME JobsInOrder, TasksShow, Answers, SharesSampled, SharesRead, [Next]_vars
    PROVE  SharesRead'
<1>1. /\ OfAJob(sample) /\ OfAJob(records) /\ OfAJob(hot) /\ Tracked(sample)
      /\ sample.job # 0 => GrownFrom(jobs, records, sample.job, sample.attempt, sample.gauge)
  BY DEF Answers, SharesSampled
<1>2. records.job # 0 => jobs'[records.job].width = jobs[records.job].width
  BY <1>1, JobsStep DEF OfAJob
<1>3. CASE UNCHANGED <<records, hot, pc>> /\ pc # "FAIL"
  BY <1>2, <1>3 DEF SharesRead, GrownFrom
<1>4. CASE UNCHANGED vars
  BY <1>4 DEF SharesRead, vars, answerVars, Passes, GraphIsKeyed, Covered, HotOwnerDominates,
     HotOwners
<1>5. CASE List \/ ReadGraph
  BY <1>5 DEF SharesRead, List, ReadGraph, answerVars
<1>6. CASE ReadRecords
  <2>1. hot' = hot /\ pc = "records" /\ pc' = "hot"
    BY <1>6 DEF ReadRecords
  <2> QED
    BY <2>1 DEF SharesRead
<1>7. CASE ReadHotState
  <2>1. /\ UNCHANGED <<jobs, records>> /\ pc' = "local"
        /\ hot' = [sample EXCEPT !.counted = Nothing, !.dominated = FALSE]
    BY <1>7 DEF ReadHotState
  <2>2. hot'.job = sample.job /\ hot'.attempt = sample.attempt /\ hot'.gauge = sample.gauge
    BY <1>1, <2>1 DEF OfAJob, IsSeries
  <2>3. sample.job = 0 => sample.attempt = 0
    BY <1>1 DEF Tracked
  <2> QED
    BY <1>1, <2>1, <2>2, <2>3 DEF SharesRead
<1>8. CASE Verify
  <2>1. /\ UNCHANGED <<jobs, found, records, hot>> /\ local' = recent /\ pc = "local"
        /\ pc' \in {"PASS", "FAIL"} /\ (pc' = "FAIL" => ~Passes(recent))
    BY <1>8 DEF Verify
  <2>2. Passes(local)' <=> Passes(recent)
    BY <2>1 DEF Passes, GraphIsKeyed, Covered, HotOwnerDominates, HotOwners
  <2> QED
    BY <2>1, <2>2 DEF SharesRead
<1>9. CASE Error
  BY <1>9 DEF SharesRead, Error, NoSeries
<1>10. CASE Tasks \/ Scrape
  <2>1. UNCHANGED <<records, hot, pc>>
    BY <1>10 DEF Tasks, Scrape, answerVars, Submit, Fail, Restart, End, Open, Process
  <2> QED
    BY <1>3, <1>4, <1>10, <2>1 DEF Next
<1> QED
  BY <1>4, <1>5, <1>6, <1>7, <1>8, <1>9, <1>10 DEF Next, Observer


THEOREM SharesInvariant == Spec => [](EvidenceInv /\ SharesInv)
<1>1. Init => SharesInv
  <2> SUFFICES ASSUME Init PROVE SharesInv
    OBVIOUS
  <2>1. /\ sample = NoSeries /\ records = NoSeries /\ hot = NoSeries /\ pc = "list"
        /\ jobs = <<>> /\ attempt = 0 /\ counted = Nothing /\ hotShare = 0
    BY DEF Init
  <2>2. SharesCounted
    BY <2>1 DEF SharesCounted, Last, Nothing
  <2>3. Tracked(NoSeries)
    BY <2>1 DEF Tracked, NoSeries, OwnerLeads, GrownFrom
  <2>4. SharesSampled
    BY <2>1, <2>3 DEF SharesSampled, NoSeries
  <2>5. SharesRead
    BY <2>1 DEF SharesRead, NoSeries
  <2> QED
    BY <2>2, <2>4, <2>5 DEF SharesInv
<1>2. EvidenceInv /\ SharesInv /\ [Next]_vars => SharesInv'
  BY SharesCountedStep, SharesSampledStep, SharesReadStep DEF EvidenceInv, SharesInv
<1> QED
  BY <1>1, <1>2, EvidenceInvariant, PTL DEF Spec

\* A restart makes the evidence start over but does no more: with all subtasks counted
\* and the gauges read in one attempt of the listed job, most records of tenant-hot and
\* bytes moved, verify_keyby of keyby_evidence.py passes, for any width, owner, number of
\* restarts and count that the attempt has written.
THEOREM DominatedJobPassesHolds == Spec => []DominatedJobPasses
<1>1. EvidenceInv /\ SharesInv => DominatedJobPasses
  <2> SUFFICES ASSUME EvidenceInv, SharesInv, pc = "FAIL",
                      jobs[found].width = Parallelism,
                      records.job = found, hot.attempt = records.attempt,
                      DOMAIN records.counted = Expected, records.dominated,
                      DOMAIN local = Expected, ShuffleIsLocal(local)
               PROVE  Passes(local)
    BY DEF DominatedJobPasses, SharesInv, SharesRead
  <2> DEFINE owner == Owner[Parallelism]
  <2>1. /\ Answers /\ Progress /\ SharesSampled /\ SharesRead
    BY DEF EvidenceInv, SharesInv
  <2>2. records.job # 0 /\ records.attempt > 0
    BY <2>1 DEF Progress, SharesSampled, Tracked
  <2>3. hot.job # 0 /\ GrownFrom(jobs, records, hot.job, hot.attempt, hot.gauge)
    BY <2>1, <2>2 DEF SharesRead
  <2>4. /\ hot.job = found /\ Expected \subseteq DOMAIN hot.gauge
        /\ hot.gauge[owner] > 0
    BY <2>2, <2>3 DEF GrownFrom
  <2>5. Owned(Parallelism, hot.gauge)
    BY <2>1, <2>3, <2>4 DEF Answers, OfAJob
  <2>6. /\ owner \in DOMAIN records.counted
        /\ 2 * records.counted[owner] > SumFunction(records.counted)
    BY <2>1, <2>2 DEF SharesSampled, Tracked, OwnerLeads
  <2>7. DOMAIN hot.gauge = Expected
    BY <2>4, <2>5 DEF Owned, Expected
  <2>8. HotOwners = {owner}
    BY <2>4, <2>5, <2>6, <2>7 DEF HotOwners, Owned
  <2>9. Cardinality({owner}) = 1
    BY FS_Singleton
  <2> QED
    BY <2>6, <2>7, <2>8, <2>9 DEF Passes, GraphIsKeyed, Covered, HotOwnerDominates
<1> QED
  BY <1>1, SharesInvariant, PTL
=============================================================================
