---------------------------- MODULE KeyByControl ----------------------------
(***************************************************************************)
(* The control plane of the one streaming job: the guarded commands of     *)
(* scripts/keyby_control.py, with the job guards of keyby_common.py, and   *)
(* the submit, deploy and rotate-credentials targets of the Makefile,      *)
(* against a Flink cluster without high availability.  Every command looks *)
(* at the cluster, acts later on what it saw, and may fail after any of    *)
(* its steps; jobs start, restart, fail and stop in the meantime.          *)
(*                                                                         *)
(* Jobs and savepoints are numbered as they come.  Jobs that a recreated   *)
(* JobManager has forgotten keep their number with state "GONE".           *)
(***************************************************************************)
EXTENDS Integers, Sequences, FiniteSets

CONSTANTS
    Operators,  \* terminals in which commands run
    Nobody,     \* not an operator
    Commands,   \* commands they use
    MaxJobs     \* bound: jobs ever submitted

Transitions == {"keyby-on", "keyby-off", "flink-reset"}
Stoppers == Transitions \cup {"keyby-savepoint"}
AllCommands == Stoppers \cup
    {"keyby-rebuild", "keyby-submit", "submit", "recover", "deploy",
     "rotate-credentials"}

ASSUME NobodyAssumption == Nobody \notin Operators
ASSUME CommandsAssumption == Commands \subseteq AllCommands
ASSUME MaxJobsAssumption == MaxJobs \in Nat

VARIABLES
    \* the Flink cluster
    up,          \* whether the JobManager answers
    jobs,        \* every job submitted so far
    savepoints,  \* every completed savepoint: the job it stopped, for whom, and
                 \* after how many submissions
    \* each operator's terminal
    pc,          \* the next step of the command that runs, or "idle"
    cmd,         \* that command
    target,      \* the job it found
    restore,     \* the restore command it prepares
    printed      \* the recovery command its terminal shows

clusterVars == <<up, jobs, savepoints>>
terminalVars == <<pc, cmd, target, restore, printed>>
vars == <<clusterVars, terminalVars>>

\* flink run: the savepoint it starts from, 0 for none; ENABLE_KEYBY_LAB; and
\* --allowNonRestoredState.
Restores == [from : Nat, keyBy : BOOLEAN, allow : BOOLEAN]
FromEarliest == [from |-> 0, keyBy |-> FALSE, allow |-> FALSE]

\* TERMINAL_JOB_STATES are not active, and forgotten jobs are not listed.
Terminal == {"FINISHED", "FAILED", "CANCELED", "SUSPENDED"}
Lost == {"GONE"}
Active == {j \in DOMAIN jobs : jobs[j].state \notin Terminal \cup Lost}

\* deployed: whether make deploy submitted it (for the properties only).
Job(lab, keyBy, from, state, deployed) ==
    [lab |-> lab, keyBy |-> keyBy, from |-> from, state |-> state,
     stopper |-> Nobody, deployed |-> deployed]

Init ==
    /\ up = TRUE
    /\ jobs \in {<<>>, <<Job(FALSE, FALSE, 0, "RUNNING", FALSE)>>}
    /\ savepoints = <<>>
    /\ pc = [o \in Operators |-> "idle"]
    /\ cmd = [o \in Operators |-> "submit"]
    /\ target = [o \in Operators |-> 0]
    /\ restore = [o \in Operators |-> FromEarliest]
    /\ printed = [o \in Operators |-> FromEarliest]

Go(o, next) == pc' = [pc EXCEPT ![o] = next]

-----------------------------------------------------------------------------
(* The cluster on its own.                                                 *)

SetState(j, state, stopper) ==
    jobs' = [jobs EXCEPT ![j].state = state, ![j].stopper = stopper]

JobComesUp(j) ==
    /\ jobs[j].state \in {"STARTING", "RESTARTING"}
    /\ SetState(j, "RUNNING", Nobody)
    /\ UNCHANGED <<up, savepoints, terminalVars>>

\* A failure aborts the stop that may be under way.
JobRestarts(j) ==
    /\ jobs[j].state = "RUNNING"
    /\ SetState(j, "RESTARTING", Nobody)
    /\ UNCHANGED <<up, savepoints, terminalVars>>

JobFails(j) ==
    /\ j \in Active
    /\ SetState(j, "FAILED", Nobody)
    /\ UNCHANGED <<up, savepoints, terminalVars>>

\* The drained savepoint completes, whether or not anybody still waits for it.
StopCompletes(j) ==
    /\ j \in Active /\ jobs[j].stopper # Nobody
    /\ savepoints' = Append(savepoints,
           [job |-> j, by |-> jobs[j].stopper, after |-> Len(jobs)])
    /\ SetState(j, "FINISHED", Nobody)
    /\ UNCHANGED <<up, terminalVars>>

Forgotten == [j \in DOMAIN jobs |->
                 [jobs[j] EXCEPT !.state = "GONE", !.stopper = Nobody]]

JobManagerLost ==
    /\ up /\ up' = FALSE
    /\ jobs' = Forgotten
    /\ UNCHANGED <<savepoints, terminalVars>>

-----------------------------------------------------------------------------
(* The guards.                                                             *)

NamedRunning == {j \in DOMAIN jobs : jobs[j].lab /\ jobs[j].state = "RUNNING"}

\* mutant: other active jobs do not count
OneNamed(j) == NamedRunning = {j}
\* mutant: any name will do
OfAnyName(j) == Active = {j} /\ jobs[j].state = "RUNNING"
\* require_exclusive_running_named_job
Exclusive(j) == NamedRunning = {j} /\ Active = {j}

Unchecked == TRUE  \* mutant: no guard
\* require_no_active_jobs, before the services are rebuilt
NoneBeforeRebuild == Active = {}
\* require_no_active_jobs, before a submission
NoneBeforeSubmit == Active = {}

-----------------------------------------------------------------------------
(* Beginning a command.  A guard that fails ends it without a trace.       *)

Begin(o, c, next) ==
    /\ pc[o] = "idle" /\ c \in Commands
    /\ cmd' = [cmd EXCEPT ![o] = c]
    /\ Go(o, next)

\* transition_pipeline and stop_with_savepoint find their job.
BeginStop(o, c) ==
    /\ up /\ c \in Stoppers
    /\ \E j \in DOMAIN jobs :
          /\ Exclusive(j)
          /\ target' = [target EXCEPT ![o] = j]
    /\ Begin(o, c, IF c \in Transitions THEN "plan" ELSE "stop")
    /\ UNCHANGED <<clusterVars, restore, printed>>

\* rebuild_flink
BeginRebuild(o) ==
    /\ Begin(o, "keyby-rebuild", "guard")
    /\ UNCHANGED <<clusterVars, target, restore, printed>>

BeginSubmission(o, c, command) ==
    /\ up /\ NoneBeforeSubmit
    /\ restore' = [restore EXCEPT ![o] = command]
    /\ Begin(o, c, "run")
    /\ UNCHANGED <<clusterVars, target, printed>>

\* submit_keyby, with a savepoint of the operator's choice
BeginKeyBySubmit(o) ==
    \E i \in DOMAIN savepoints :
        BeginSubmission(o, "keyby-submit",
                        [from |-> i, keyBy |-> TRUE, allow |-> FALSE])

\* make submit, by an operator who checked for an active job first
BeginSubmit(o) == BeginSubmission(o, "submit", FromEarliest)

\* the printed recovery command, under the same care
BeginRecovery(o) ==
    /\ printed[o] # FromEarliest
    /\ BeginSubmission(o, "recover", printed[o])

BeginDeploy(o) ==
    /\ Begin(o, "deploy", "up")
    /\ UNCHANGED <<clusterVars, target, restore, printed>>

BeginRotation(o) ==
    /\ Begin(o, "rotate-credentials", "force")
    /\ UNCHANGED <<clusterVars, target, restore, printed>>

-----------------------------------------------------------------------------
(* The steps of a command.                                                 *)

AmbientMode(current, c) == c = "keyby-on"  \* mutant: reset forgets the mode
Desired(current, c) == IF c = "flink-reset" THEN current ELSE c = "keyby-on"

\* job_keyby_enabled reads the mode from the plan of the job found; asking for
\* the mode that runs already is a no-op.
ReadPlan(o) ==
    LET current == jobs[target[o]].keyBy IN
    /\ pc[o] = "plan" /\ up /\ jobs[target[o]].state \notin Lost
    /\ restore' = [restore EXCEPT ![o].keyBy = Desired(current, cmd[o])]
    /\ Go(o, IF cmd[o] # "flink-reset" /\ current = restore'[o].keyBy
             THEN "idle" ELSE "stop")
    /\ UNCHANGED <<clusterVars, cmd, target, printed>>

\* flink stop --drain
RequestStop(o) ==
    LET j == target[o] IN
    /\ pc[o] = "stop" /\ up
    /\ jobs[j].state = "RUNNING" /\ jobs[j].stopper = Nobody
    /\ SetState(j, "RUNNING", o)
    /\ Go(o, "stopping")
    /\ UNCHANGED <<up, savepoints, cmd, target, restore, printed>>

\* mutant: the flag follows the new mode instead of the removed operator
AllowForKeyBy(current, desired) == desired /\ ~current
DiscardsState(current, desired) == current /\ ~desired

\* create_drained_savepoint returns the path of the completed savepoint, and a
\* transition prints how to recover before anything else can fail.
StopReturns(o) ==
    /\ pc[o] = "stopping"
    /\ \E i \in DOMAIN savepoints :
          /\ savepoints[i].job = target[o] /\ savepoints[i].by = o
          /\ LET keyBy == restore[o].keyBy
                 command == [from |-> i, keyBy |-> keyBy,
                             allow |-> DiscardsState(jobs[target[o]].keyBy, keyBy)]
             IN IF cmd[o] \in Transitions
                THEN /\ restore' = [restore EXCEPT ![o] = command]
                     /\ printed' = [printed EXCEPT ![o] = command]
                     /\ Go(o, "guard")
                ELSE Go(o, "idle") /\ UNCHANGED <<restore, printed>>
    /\ UNCHANGED <<clusterVars, cmd, target>>

\* rebuild_flink_services: the guard, then the build, then the two services.
Guard(o) ==
    /\ pc[o] = "guard" /\ up /\ NoneBeforeRebuild
    /\ Go(o, "recreate jobmanager")
    /\ UNCHANGED <<clusterVars, cmd, target, restore, printed>>

\* Minutes after the guard: docker compose build has run in between.
RecreateJobManager(o) ==
    /\ pc[o] = "recreate jobmanager"
    /\ up' = TRUE /\ jobs' = Forgotten
    /\ Go(o, "recreate taskmanager")
    /\ UNCHANGED <<savepoints, cmd, target, restore, printed>>

\* Tasks that ran are restarted.
RecreateTaskManager(o) ==
    /\ pc[o] = "recreate taskmanager"
    /\ jobs' = [j \in DOMAIN jobs |->
                   IF jobs[j].state = "RUNNING"
                   THEN [jobs[j] EXCEPT !.state = "RESTARTING", !.stopper = Nobody]
                   ELSE jobs[j]]
    /\ Go(o, IF cmd[o] \in Transitions THEN "check" ELSE "idle")
    /\ UNCHANGED <<up, savepoints, cmd, target, restore, printed>>

Check(o) ==
    /\ pc[o] = "check" /\ up /\ NoneBeforeSubmit
    /\ Go(o, "run")
    /\ UNCHANGED <<clusterVars, cmd, target, restore, printed>>

\* The job is accepted.
Submitted(o) ==
    Job(TRUE, restore[o].keyBy, restore[o].from, "STARTING", cmd[o] = "deploy")
Run(o) ==
    /\ pc[o] = "run" /\ up /\ Len(jobs) < MaxJobs
    /\ jobs' = Append(jobs, Submitted(o))
    /\ Go(o, "idle")
    /\ UNCHANGED <<up, savepoints, cmd, target, restore, printed>>

\* deploy: make build, then make up, in which Compose recreates the services
\* whose image has changed and starts those that are down.
Up(o) ==
    /\ pc[o] = "up" /\ up' = TRUE
    /\ \/ jobs' = Forgotten
       \/ up /\ UNCHANGED jobs
    /\ Go(o, "list")
    /\ UNCHANGED <<savepoints, cmd, target, restore, printed>>

\* flink list -r names a job that runs or restarts, not one that starts.
Listed == \E j \in DOMAIN jobs :
              jobs[j].lab /\ jobs[j].state \in {"RUNNING", "RESTARTING"}

\* Its status and its errors are dropped: a list that fails, for whatever
\* reason, is a list without the job.
ListRunning(o) ==
    /\ pc[o] = "list"
    /\ \/ /\ up /\ Listed
          /\ Go(o, "idle") /\ UNCHANGED restore
       \/ /\ Go(o, "run")
          /\ restore' = [restore EXCEPT ![o] = FromEarliest]
    /\ UNCHANGED <<clusterVars, cmd, target, printed>>

\* rotate-credentials: the passwords (Credentials), then docker compose up
\* --force-recreate, which ends whatever runs, then make submit unguarded.
ForceRecreate(o) ==
    /\ pc[o] = "force"
    /\ up' = TRUE /\ jobs' = Forgotten
    /\ Go(o, "run") /\ restore' = [restore EXCEPT ![o] = FromEarliest]
    /\ UNCHANGED <<savepoints, cmd, target, printed>>

\* LabError, or make's own error, at any step: the REST interface or Docker
\* fails, a guard does not hold, flink stop times out while Flink goes on.
Fails(o) ==
    /\ pc[o] # "idle"
    /\ Go(o, "idle")
    /\ UNCHANGED <<clusterVars, cmd, target, restore, printed>>

-----------------------------------------------------------------------------
BeginAny(o) ==
    \/ \E c \in Stoppers : BeginStop(o, c)
    \/ BeginRebuild(o) \/ BeginKeyBySubmit(o) \/ BeginSubmit(o)
    \/ BeginRecovery(o) \/ BeginDeploy(o) \/ BeginRotation(o)

Step(o) ==
    \/ ReadPlan(o) \/ RequestStop(o) \/ StopReturns(o)
    \/ Guard(o) \/ RecreateJobManager(o) \/ RecreateTaskManager(o)
    \/ Check(o) \/ Run(o) \/ Up(o) \/ ListRunning(o)
    \/ ForceRecreate(o) \/ Fails(o)

Cluster ==
    \/ \E j \in DOMAIN jobs :
          JobComesUp(j) \/ JobRestarts(j) \/ JobFails(j) \/ StopCompletes(j)
    \/ JobManagerLost

Next == Cluster \/ \E o \in Operators : BeginAny(o) \/ Step(o)

Spec == Init /\ [][Next]_vars

-----------------------------------------------------------------------------
(* Properties.                                                             *)

States == {"STARTING", "RUNNING", "RESTARTING"} \cup Terminal \cup Lost

\* Every variable has its type, references point to what exists, and commands
\* only find jobs that carry JOB_NAME.
TypeOK ==
    /\ up \in BOOLEAN
    /\ \A j \in DOMAIN jobs :
          /\ jobs[j].state \in States
          /\ jobs[j].from \in 0 .. Len(savepoints)
          /\ jobs[j].stopper # Nobody => jobs[j].state = "RUNNING"
    /\ \A i \in DOMAIN savepoints : savepoints[i].job \in DOMAIN jobs
    /\ cmd \in [Operators -> AllCommands]
    /\ \A o \in Operators : target[o] # 0 => jobs[target[o]].lab
    /\ restore \in [Operators -> Restores] /\ printed \in [Operators -> Restores]

\* One writer: two active jobs would store every record twice.  No command but
\* deploy ever submits a job next to an active one, in one terminal, although
\* any of them may fail half way, a stop may finish after its command has
\* timed out, and jobs come and go by themselves.
OneWriter ==
    [][\A o \in Operators : Run(o) /\ cmd[o] # "deploy" => Active = {}]_vars

\* A stop is only ever under way in what was the sole active job, even when the
\* cluster runs others (docstring of require_exclusive_running_named_job).
\* Commands may have failed and others followed before the stop completes; of
\* those, only a deploy can have put a job beside it, whose list of running jobs
\* failed (Makefile:200).
StopsOnlyTheSoleJob ==
    \A j \in DOMAIN jobs : jobs[j].stopper # Nobody =>
        \A k \in Active \ {j} : k > j /\ jobs[k].deployed

\* Rebuilding never ends a job: when the JobManager is recreated, minutes after
\* the guard was passed, there is no active job it could forget ("rebuild and
\* recreate only idle Flink services", Makefile:105).
RebuildsOnlyIdle ==
    [][\A o \in Operators : RecreateJobManager(o) => Active = {}]_vars

\* A transition continues the job it stopped: when it submits, no other job was
\* submitted since its savepoint, so that nothing is skipped or replayed, and a
\* reset comes back in the mode it found.
TransitionContinues ==
    [][\A o \in Operators :
          Run(o) /\ cmd[o] \in Transitions =>
              LET savepoint == savepoints[restore[o].from] IN
              /\ savepoint.after = Len(jobs)
              /\ cmd[o] = "flink-reset" =>
                     restore[o].keyBy = jobs[savepoint.job].keyBy]_vars

\* Flink accepts every restore command that is about to run, and keyed state is
\* given up exactly where the operator that owns it is removed: on the way
\* from the keyBy graph to the baseline, also through the recovery command.
RestoresWhatItCan ==
    \A o \in Operators :
        LET r == restore[o] IN
        pc[o] = "run" /\ r.from # 0 =>
            (r.allow <=> jobs[savepoints[r.from].job].keyBy /\ ~r.keyBy)

\* Deploying again is safe: it ends no job of the lab (docs/OPERATIONS.md:38).
DeployKeepsJobs ==
    [][\A o \in Operators : Up(o) =>
          {j \in Active : jobs[j].lab} \subseteq Active']_vars
=============================================================================
