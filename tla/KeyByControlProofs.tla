------------------------- MODULE KeyByControlProofs -------------------------
(* Proofs of the properties of job control. *)
EXTENDS KeyByControl, SequenceTheorems, TLAPS

-----------------------------------------------------------------------------
(* The inductive invariant, for any number of terminals.                   *)

Jobs == [lab : BOOLEAN, keyBy : BOOLEAN, from : Nat, state : States,
         stopper : Operators \cup {Nobody}, deployed : BOOLEAN]
Saved == [job : Nat, by : Operators, after : Nat]
Steps == {"idle", "plan", "stop", "stopping", "guard", "recreate jobmanager",
          "recreate taskmanager", "check", "run", "up", "list", "force"}

\* Every variable has its type in full; whatever refers to a savepoint or a job
\* refers to one that exists.
ShapeInv ==
    /\ up \in BOOLEAN /\ jobs \in Seq(Jobs) /\ savepoints \in Seq(Saved)
    /\ pc \in [Operators -> Steps] /\ cmd \in [Operators -> AllCommands]
    /\ target \in [Operators -> Nat]
    /\ restore \in [Operators -> Restores] /\ printed \in [Operators -> Restores]

ReferenceInv ==
    /\ \A j \in DOMAIN jobs :
          /\ jobs[j].from \in 0 .. Len(savepoints)
          /\ jobs[j].stopper # Nobody => jobs[j].state = "RUNNING"
    /\ \A i \in DOMAIN savepoints : savepoints[i].job \in DOMAIN jobs
    /\ \A o \in Operators :
          /\ restore[o].from \in 0 .. Len(savepoints)
          /\ printed[o].from \in 0 .. Len(savepoints)
          /\ target[o] \in 0 .. Len(jobs)
          /\ target[o] # 0 => jobs[target[o]].lab
          /\ pc[o] \in {"plan", "stop", "stopping"} => target[o] # 0

\* The restore command that has been prepared, and the one that is printed.
Restorable(r) ==
    r.from # 0 => (r.allow <=> jobs[savepoints[r.from].job].keyBy /\ ~r.keyBy)
AfterStop == {"guard", "recreate jobmanager", "recreate taskmanager", "check", "run"}
Prepared(o) ==
    pc[o] \in {"check", "run"} \/ (cmd[o] \in Transitions /\ pc[o] \in AfterStop)
RestoreInv ==
    \A o \in Operators : Restorable(printed[o]) /\ (Prepared(o) => Restorable(restore[o]))

ControlInv == ShapeInv /\ ReferenceInv /\ RestoreInv

-----------------------------------------------------------------------------
(* What one terminal can rely on.                                          *)

\* The cluster: a stop is only under way in what was the sole active job, which
\* carries JOB_NAME, and what a savepoint stopped never runs again.
ClusterInv ==
    /\ ~up => Active = {}
    /\ StopsOnlyTheSoleJob
    /\ \A j \in DOMAIN jobs : jobs[j].stopper # Nobody => jobs[j].lab
    /\ \A i \in DOMAIN savepoints : savepoints[i].job \notin Active

\* What a guard has found still holds where it is relied on.
GuardInv(o) ==
    /\ pc[o] \in {"plan", "stop"} => Active \subseteq {target[o]}
    /\ pc[o] = "run" /\ cmd[o] # "deploy" => Active = {}
    /\ pc[o] \in {"up", "list"} => cmd[o] = "deploy"
    /\ pc[o] = "force" => cmd[o] = "rotate-credentials"

\* A transition goes on from its own savepoint, the last thing that happened.
ContinueInv(o) ==
    /\ cmd[o] = "flink-reset" /\ pc[o] \in {"stop", "stopping"} =>
          restore[o].keyBy = jobs[target[o]].keyBy
    /\ pc[o] = "stopping" =>
          \A i \in DOMAIN savepoints :
              savepoints[i].job = target[o] => savepoints[i].after = Len(jobs)
    /\ cmd[o] \in Transitions /\ pc[o] \in AfterStop =>
          LET savepoint == savepoints[restore[o].from] IN
          /\ restore[o].from # 0 /\ savepoint.after = Len(jobs)
          /\ cmd[o] = "flink-reset" => restore[o].keyBy = jobs[savepoint.job].keyBy

TerminalInv(o) == ClusterInv /\ GuardInv(o) /\ ContinueInv(o)

\* Commands run in one terminal.
OneTerminal == \E o : Operators = {o}
SoleTerminalInv == ControlInv /\ \A o \in Operators : TerminalInv(o)

-----------------------------------------------------------------------------
(* The jobs under the steps of the cluster.                                *)

\* A step that submits nothing only changes how jobs fare.
Kept ==
    /\ jobs' \in Seq(Jobs) /\ Len(jobs') = Len(jobs)
    /\ \A k \in 1 .. Len(jobs) :
          /\ jobs'[k].lab = jobs[k].lab /\ jobs'[k].keyBy = jobs[k].keyBy
          /\ jobs'[k].from = jobs[k].from /\ jobs'[k].deployed = jobs[k].deployed
          /\ jobs'[k].stopper # Nobody => jobs'[k].state = "RUNNING"

LEMMA SetStateKeeps ==
    ASSUME ShapeInv, ReferenceInv, NEW j \in DOMAIN jobs, NEW state \in States,
           NEW stopper \in Operators \cup {Nobody}, SetState(j, state, stopper),
           stopper # Nobody => state = "RUNNING"
    PROVE  /\ Kept /\ jobs'[j].state = state /\ jobs'[j].stopper = stopper
           /\ \A k \in 1 .. Len(jobs) : k # j => jobs'[k] = jobs[k]
<1>1. jobs \in Seq(Jobs) /\ DOMAIN jobs = 1 .. Len(jobs)
  BY DEF ShapeInv
<1> DEFINE new == [jobs[j] EXCEPT !.state = state, !.stopper = stopper]
<1>2. jobs' = [jobs EXCEPT ![j] = new]
  BY DEF SetState
<1>3. jobs[j] \in Jobs
  BY <1>1
<1>4. /\ new \in Jobs /\ new.state = state /\ new.stopper = stopper
      /\ new.lab = jobs[j].lab /\ new.keyBy = jobs[j].keyBy /\ new.from = jobs[j].from
      /\ new.deployed = jobs[j].deployed
  BY <1>3 DEF Jobs
<1> HIDE DEF new
<1>5. jobs' \in Seq(Jobs) /\ Len(jobs') = Len(jobs)
  BY <1>1, <1>2, <1>4
<1> QED
  BY <1>1, <1>2, <1>4, <1>5 DEF Kept, ReferenceInv

LEMMA ForgottenKeeps ==
    ASSUME ShapeInv, jobs' = Forgotten
    PROVE  /\ Kept /\ Active' = {}
           /\ \A k \in 1 .. Len(jobs) : jobs'[k].stopper = Nobody /\ jobs'[k].state = "GONE"
<1>1. jobs \in Seq(Jobs) /\ DOMAIN jobs = 1 .. Len(jobs)
  BY DEF ShapeInv
<1> DEFINE gone(k) == [jobs[k] EXCEPT !.state = "GONE", !.stopper = Nobody]
<1>2. jobs' = [k \in 1 .. Len(jobs) |-> gone(k)]
  BY <1>1 DEF Forgotten
<1>3. ASSUME NEW k \in 1 .. Len(jobs)
      PROVE  /\ gone(k) \in Jobs /\ gone(k).state = "GONE" /\ gone(k).stopper = Nobody
             /\ gone(k).lab = jobs[k].lab /\ gone(k).keyBy = jobs[k].keyBy
             /\ gone(k).from = jobs[k].from /\ gone(k).deployed = jobs[k].deployed
  <2>1. jobs[k] \in Jobs
    BY <1>1
  <2> QED
    BY <2>1 DEF Jobs, States, Lost
<1> HIDE DEF gone
<1>4. jobs' \in Seq(Jobs) /\ Len(jobs') = Len(jobs) /\ DOMAIN jobs' = 1 .. Len(jobs)
  BY <1>1, <1>2, <1>3
<1> QED
  BY <1>2, <1>3, <1>4 DEF Kept, Active, Lost

LEMMA RestartsKeep ==
    ASSUME ShapeInv, ReferenceInv, NEW o, RecreateTaskManager(o)
    PROVE  /\ Kept /\ Active' = Active
           /\ \A k \in 1 .. Len(jobs) : jobs'[k].stopper = Nobody
<1>1. jobs \in Seq(Jobs) /\ DOMAIN jobs = 1 .. Len(jobs)
  BY DEF ShapeInv
<1> DEFINE new(k) == IF jobs[k].state = "RUNNING"
                     THEN [jobs[k] EXCEPT !.state = "RESTARTING", !.stopper = Nobody]
                     ELSE jobs[k]
<1>2. jobs' = [k \in 1 .. Len(jobs) |-> new(k)]
  BY <1>1 DEF RecreateTaskManager
<1>3. ASSUME NEW k \in 1 .. Len(jobs)
      PROVE  /\ new(k) \in Jobs /\ new(k).stopper = Nobody
             /\ new(k).state \in Terminal \cup Lost <=> jobs[k].state \in Terminal \cup Lost
             /\ new(k).lab = jobs[k].lab /\ new(k).keyBy = jobs[k].keyBy
             /\ new(k).from = jobs[k].from /\ new(k).deployed = jobs[k].deployed
  <2>1. jobs[k] \in Jobs /\ (jobs[k].stopper # Nobody => jobs[k].state = "RUNNING")
    BY <1>1 DEF ReferenceInv
  <2> QED
    BY <2>1 DEF Jobs, States, Lost, Terminal
<1> HIDE DEF new
<1>4. jobs' \in Seq(Jobs) /\ Len(jobs') = Len(jobs) /\ DOMAIN jobs' = 1 .. Len(jobs)
  BY <1>1, <1>2, <1>3
<1> QED
  BY <1>1, <1>2, <1>3, <1>4 DEF Kept, Active

LEMMA UnchangedKeeps ==
    ASSUME ShapeInv, ReferenceInv, UNCHANGED jobs
    PROVE  Kept /\ Active' = Active
BY DEF ShapeInv, ReferenceInv, Kept, Active

\* What a submission adds.
LEMMA RunAdds ==
    ASSUME ShapeInv, ReferenceInv, NEW o \in Operators, Run(o)
    PROVE  /\ jobs' \in Seq(Jobs) /\ Len(jobs') = Len(jobs) + 1
           /\ \A k \in 1 .. Len(jobs) : jobs'[k] = jobs[k]
           /\ jobs'[Len(jobs) + 1] = Submitted(o)
<1>1. jobs \in Seq(Jobs) /\ restore[o] \in Restores /\ (cmd[o] = "deploy") \in BOOLEAN
  BY DEF ShapeInv
<1>2. Submitted(o) \in Jobs
  BY <1>1 DEF Submitted, Job, Jobs, Restores, States
<1>3. jobs' = Append(jobs, Submitted(o))
  BY DEF Run
<1> QED
  BY <1>1, <1>2, <1>3, AppendProperties

-----------------------------------------------------------------------------
(* The inductive invariant holds, whatever the terminals do.               *)

\* The part of ReferenceInv about the cluster.
ClusterReferences ==
    /\ \A j \in DOMAIN jobs :
          /\ jobs[j].from \in 0 .. Len(savepoints)
          /\ jobs[j].stopper # Nobody => jobs[j].state = "RUNNING"
    /\ \A i \in DOMAIN savepoints : savepoints[i].job \in DOMAIN jobs

\* What was restorable stays so.
RestorablesStay ==
    \A r \in Restores :
        r.from \in 0 .. Len(savepoints) /\ Restorable(r) => Restorable(r)'

LEMMA KeptReferences ==
    ASSUME ShapeInv, ReferenceInv, Kept, UNCHANGED savepoints
    PROVE  /\ ClusterReferences' /\ RestorablesStay
           /\ \A k \in 1 .. Len(jobs) : jobs[k].lab => jobs'[k].lab
<1>1. DOMAIN jobs = 1 .. Len(jobs) /\ DOMAIN jobs' = 1 .. Len(jobs)
  BY DEF ShapeInv, Kept
<1>2. ClusterReferences'
  BY <1>1 DEF ShapeInv, ReferenceInv, Kept, ClusterReferences
<1>3. ASSUME NEW r \in Restores, r.from \in 0 .. Len(savepoints), Restorable(r)
      PROVE  Restorable(r)'
  <2>1. CASE r.from = 0
    BY <2>1 DEF Restorable
  <2>2. CASE r.from # 0
    <3>1. r.from \in DOMAIN savepoints
      BY <1>3, <2>2 DEF ShapeInv
    <3>2. savepoints[r.from].job \in 1 .. Len(jobs)
      BY <1>1, <3>1 DEF ReferenceInv
    <3> QED
      BY <1>3, <3>2 DEF Restorable, Kept
  <2> QED
    BY <2>1, <2>2
<1> QED
  BY <1>2, <1>3 DEF Kept, RestorablesStay

LEMMA InitControlInv == Init => ControlInv
<1> SUFFICES ASSUME Init PROVE ControlInv
  OBVIOUS
<1>1. Job(FALSE, FALSE, 0, "RUNNING", FALSE) \in Jobs
  BY DEF Job, Jobs, States
<1>2. jobs \in Seq(Jobs)
  <2>1. ASSUME NEW job \in Jobs PROVE <<job>> \in Seq(Jobs)
    OBVIOUS
  <2>2. <<>> \in Seq(Jobs)
    OBVIOUS
  <2> QED
    BY <1>1, <2>1, <2>2 DEF Init
<1>3. FromEarliest \in Restores
  BY DEF FromEarliest, Restores
<1>4. ShapeInv
  BY <1>2, <1>3 DEF Init, ShapeInv, Steps, AllCommands, Stoppers
<1>5. ReferenceInv
  BY DEF Init, ReferenceInv, FromEarliest, Job
<1>6. RestoreInv
  BY DEF Init, RestoreInv, Restorable, Prepared, AfterStop, FromEarliest
<1> QED
  BY <1>4, <1>5, <1>6 DEF ControlInv

\* Steps of the cluster alone.
LEMMA ClusterControl ==
    ASSUME ControlInv, Kept, UNCHANGED <<savepoints, terminalVars>>, up' \in BOOLEAN
    PROVE  ControlInv'
<1> USE DEF terminalVars
<1>1. /\ ClusterReferences' /\ RestorablesStay
      /\ \A k \in 1 .. Len(jobs) : jobs[k].lab => jobs'[k].lab
  BY KeptReferences DEF ControlInv
<1>2. ShapeInv'
  BY DEF ControlInv, ShapeInv, Kept
<1>3. ReferenceInv'
  <2>1. ASSUME NEW o \in Operators
        PROVE  /\ restore[o].from \in 0 .. Len(savepoints)
               /\ printed[o].from \in 0 .. Len(savepoints)
               /\ target[o] \in 0 .. Len(jobs') /\ (target[o] # 0 => jobs'[target[o]].lab)
               /\ pc[o] \in {"plan", "stop", "stopping"} => target[o] # 0
    <3>1. /\ target[o] \in 0 .. Len(jobs) /\ (target[o] # 0 => jobs[target[o]].lab)
          /\ Len(jobs) \in Nat /\ Len(jobs') = Len(jobs)
      BY DEF ControlInv, ShapeInv, ReferenceInv, Kept
    <3> QED
      BY <1>1, <3>1 DEF ControlInv, ReferenceInv
  <2> QED
    BY <1>1, <2>1 DEF ReferenceInv, ClusterReferences
<1>4. RestoreInv'
  <2>1. ASSUME NEW o \in Operators
        PROVE  /\ printed[o] \in Restores /\ printed[o].from \in 0 .. Len(savepoints)
               /\ restore[o] \in Restores /\ restore[o].from \in 0 .. Len(savepoints)
    BY <2>1 DEF ControlInv, ShapeInv, ReferenceInv
  <2>2. ASSUME NEW o \in Operators PROVE Restorable(printed[o])'
    <3>1. Restorable(printed[o])
      BY DEF ControlInv, RestoreInv
    <3> QED
      BY <1>1, <2>1, <3>1 DEF RestorablesStay, Restorable
  <2>3. ASSUME NEW o \in Operators, Prepared(o)' PROVE Restorable(restore[o])'
    <3>1. Restorable(restore[o])
      BY <2>3 DEF ControlInv, RestoreInv, Prepared
    <3> QED
      BY <1>1, <2>1, <3>1 DEF RestorablesStay, Restorable
  <2> QED
    BY <2>2, <2>3 DEF RestoreInv
<1> QED
  BY <1>2, <1>3, <1>4 DEF ControlInv

LEMMA StopCompletesControl ==
    ASSUME ControlInv, NEW j \in DOMAIN jobs, StopCompletes(j)
    PROVE  ControlInv'
<1> USE DEF terminalVars
<1>1. Kept
  BY SetStateKeeps DEF ControlInv, StopCompletes, States, Terminal
<1> DEFINE saved == [job |-> j, by |-> jobs[j].stopper, after |-> Len(jobs)]
<1>2. DOMAIN jobs = 1 .. Len(jobs) /\ DOMAIN jobs' = 1 .. Len(jobs)
  BY <1>1 DEF ControlInv, ShapeInv, Kept
<1>3. saved \in Saved
  <2>1. jobs[j] \in Jobs
    BY DEF ControlInv, ShapeInv
  <2> QED
    BY <1>2, <2>1 DEF Saved, Jobs, StopCompletes, ControlInv, ShapeInv
<1>4. savepoints' = Append(savepoints, saved)
  BY DEF StopCompletes
<1>5. /\ savepoints' \in Seq(Saved) /\ Len(savepoints') = Len(savepoints) + 1
      /\ \A i \in 1 .. Len(savepoints) : savepoints'[i] = savepoints[i]
      /\ savepoints'[Len(savepoints) + 1].job = j
  BY <1>3, <1>4, AppendProperties DEF ControlInv, ShapeInv
<1> HIDE DEF saved
<1>6. ShapeInv'
  BY <1>1, <1>5 DEF ControlInv, ShapeInv, StopCompletes, Kept
<1>7. ReferenceInv'
  <2>1. ClusterReferences'
    <3>1. ASSUME NEW k \in DOMAIN jobs'
          PROVE  jobs'[k].from \in 0 .. Len(savepoints') /\ jobs[k].from = jobs'[k].from
      BY <1>1, <1>2, <1>5 DEF ControlInv, ShapeInv, ReferenceInv, Kept
    <3>2. \A k \in DOMAIN jobs' : jobs'[k].stopper # Nobody => jobs'[k].state = "RUNNING"
      BY <1>1, <1>2 DEF Kept
    <3>3. ASSUME NEW i \in DOMAIN savepoints' PROVE savepoints'[i].job \in DOMAIN jobs'
      <4>1. i \in 1 .. Len(savepoints) + 1
        BY <1>5 DEF ControlInv, ShapeInv
      <4>2. CASE i = Len(savepoints) + 1
        BY <1>2, <1>5, <4>2
      <4>3. CASE i \in 1 .. Len(savepoints)
        BY <1>2, <1>5, <4>3 DEF ControlInv, ShapeInv, ReferenceInv
      <4> QED
        BY <4>1, <4>2, <4>3 DEF ControlInv, ShapeInv
    <3> QED
      BY <3>1, <3>2, <3>3 DEF ClusterReferences
  <2>2. ASSUME NEW o \in Operators
        PROVE  /\ restore[o].from \in 0 .. Len(savepoints')
               /\ printed[o].from \in 0 .. Len(savepoints')
    BY <1>5 DEF ControlInv, ShapeInv, ReferenceInv
  <2>3. ASSUME NEW o \in Operators
        PROVE  /\ target[o] \in 0 .. Len(jobs')
               /\ target[o] # 0 => jobs'[target[o]].lab
    <3>1. target[o] \in Nat /\ target[o] \in 0 .. Len(jobs) /\ Len(jobs) \in Nat
      BY DEF ControlInv, ShapeInv, ReferenceInv
    <3>2. target[o] # 0 => target[o] \in 1 .. Len(jobs) /\ jobs[target[o]].lab
      BY <3>1 DEF ControlInv, ReferenceInv
    <3> QED
      BY <1>1, <3>1, <3>2 DEF Kept
  <2> QED
    BY <2>1, <2>2, <2>3 DEF ControlInv, ReferenceInv, ClusterReferences, StopCompletes
<1>8. ASSUME NEW r \in Restores, r.from \in 0 .. Len(savepoints), Restorable(r)
      PROVE  Restorable(r)'
  <2>1. CASE r.from # 0
    <3>1. r.from \in 1 .. Len(savepoints)
      BY <1>8, <2>1 DEF ControlInv, ShapeInv
    <3>2. savepoints[r.from].job \in 1 .. Len(jobs)
      BY <1>2, <3>1 DEF ControlInv, ShapeInv, ReferenceInv
    <3> QED
      BY <1>1, <1>5, <1>8, <3>1, <3>2 DEF Restorable, Kept
  <2> QED
    BY <2>1 DEF Restorable
<1>9. RestoreInv'
  <2>1. ASSUME NEW o \in Operators
        PROVE  /\ printed[o] \in Restores /\ printed[o].from \in 0 .. Len(savepoints)
               /\ restore[o] \in Restores /\ restore[o].from \in 0 .. Len(savepoints)
               /\ pc' = pc /\ cmd' = cmd /\ restore' = restore /\ printed' = printed
    BY <2>1 DEF ControlInv, ShapeInv, ReferenceInv, StopCompletes
  <2>2. ASSUME NEW o \in Operators PROVE Restorable(printed[o])'
    <3>1. Restorable(printed[o])
      BY DEF ControlInv, RestoreInv
    <3> QED
      BY <1>8, <2>1, <3>1 DEF Restorable
  <2>3. ASSUME NEW o \in Operators, Prepared(o)' PROVE Restorable(restore[o])'
    <3>1. Restorable(restore[o])
      BY <2>1, <2>3 DEF ControlInv, RestoreInv, Prepared
    <3> QED
      BY <1>8, <2>1, <3>1 DEF Restorable
  <2> QED
    BY <2>2, <2>3 DEF RestoreInv
<1> QED
  BY <1>6, <1>7, <1>9 DEF ControlInv

\* Steps of a terminal that submit nothing.
LEMMA TerminalControl ==
    ASSUME ControlInv, Kept, UNCHANGED savepoints, up' \in BOOLEAN,
           NEW o \in Operators, NEW step \in Steps, NEW c \in AllCommands,
           NEW j \in 0 .. Len(jobs), NEW r \in Restores, NEW s \in Restores,
           pc' = [pc EXCEPT ![o] = step], cmd' = [cmd EXCEPT ![o] = c],
           target' = [target EXCEPT ![o] = j],
           restore' = [restore EXCEPT ![o] = r], printed' = [printed EXCEPT ![o] = s],
           j # 0 => jobs[j].lab, step \in {"plan", "stop", "stopping"} => j # 0,
           r.from \in 0 .. Len(savepoints), s.from \in 0 .. Len(savepoints),
           Restorable(s),
           step \in {"check", "run"} \/ (c \in Transitions /\ step \in AfterStop)
               => Restorable(r)
    PROVE  ControlInv'
<1>1. /\ ClusterReferences' /\ RestorablesStay
      /\ \A k \in 1 .. Len(jobs) : jobs[k].lab => jobs'[k].lab
  BY KeptReferences DEF ControlInv
<1>2. ShapeInv'
  BY DEF ControlInv, ShapeInv, Kept
<1>3. ReferenceInv'
  <2>1. ASSUME NEW p \in Operators
        PROVE  /\ restore'[p].from \in 0 .. Len(savepoints)
               /\ printed'[p].from \in 0 .. Len(savepoints)
    BY DEF ControlInv, ShapeInv, ReferenceInv
  <2>2. ASSUME NEW p \in Operators
        PROVE  /\ target'[p] \in 0 .. Len(jobs)
               /\ target'[p] # 0 => jobs'[target'[p]].lab
               /\ pc'[p] \in {"plan", "stop", "stopping"} => target'[p] # 0
    <3>1. target'[p] = (IF p = o THEN j ELSE target[p])
      BY DEF ControlInv, ShapeInv
    <3>2. pc'[p] = (IF p = o THEN step ELSE pc[p])
      BY DEF ControlInv, ShapeInv
    <3>3. target'[p] \in 0 .. Len(jobs) /\ Len(jobs) \in Nat
      BY <3>1 DEF ControlInv, ShapeInv, ReferenceInv
    <3>4. target'[p] # 0 => target'[p] \in 1 .. Len(jobs) /\ jobs[target'[p]].lab
      BY <3>1, <3>3 DEF ControlInv, ReferenceInv
    <3> QED
      BY <1>1, <3>1, <3>2, <3>3, <3>4 DEF ControlInv, ReferenceInv
  <2> QED
    BY <1>1, <2>1, <2>2 DEF ReferenceInv, ClusterReferences, Kept
<1>4. RestoreInv'
  <2>1. ASSUME NEW p \in Operators PROVE Restorable(printed[p])'
    <3>1. /\ printed'[p] \in Restores /\ printed'[p].from \in 0 .. Len(savepoints)
          /\ Restorable(printed'[p])
      BY DEF ControlInv, ShapeInv, ReferenceInv, RestoreInv
    <3> QED
      BY <1>1, <3>1 DEF RestorablesStay, Restorable
  <2>2. ASSUME NEW p \in Operators, Prepared(p)' PROVE Restorable(restore[p])'
    <3>1. /\ restore'[p] \in Restores /\ restore'[p].from \in 0 .. Len(savepoints)
          /\ Restorable(restore'[p])
      BY <2>2 DEF ControlInv, ShapeInv, ReferenceInv, RestoreInv, Prepared
    <3> QED
      BY <1>1, <3>1 DEF RestorablesStay, Restorable
  <2> QED
    BY <2>1, <2>2 DEF RestoreInv
<1> QED
  BY <1>2, <1>3, <1>4 DEF ControlInv

\* What a terminal holds already.
LEMMA TerminalHolds ==
    ASSUME ControlInv, NEW o \in Operators
    PROVE  /\ cmd[o] \in AllCommands /\ target[o] \in 0 .. Len(jobs)
           /\ target[o] # 0 => jobs[target[o]].lab
           /\ pc[o] \in {"plan", "stop", "stopping"} => target[o] # 0
           /\ restore[o] \in Restores /\ restore[o].from \in 0 .. Len(savepoints)
           /\ printed[o] \in Restores /\ printed[o].from \in 0 .. Len(savepoints)
           /\ Restorable(printed[o]) /\ (Prepared(o) => Restorable(restore[o]))
           /\ cmd = [cmd EXCEPT ![o] = cmd[o]] /\ target = [target EXCEPT ![o] = target[o]]
           /\ restore = [restore EXCEPT ![o] = restore[o]]
           /\ printed = [printed EXCEPT ![o] = printed[o]]
BY DEF ControlInv, ShapeInv, ReferenceInv, RestoreInv

\* Steps that leave the terminal's job and restore command as they are.
LEMMA TerminalMoves ==
    ASSUME ControlInv, Kept, UNCHANGED <<savepoints, target, restore, printed>>,
           up' \in BOOLEAN, NEW o \in Operators, NEW step \in Steps, NEW c \in AllCommands,
           pc' = [pc EXCEPT ![o] = step], cmd' = [cmd EXCEPT ![o] = c],
           step \in {"plan", "stop", "stopping"} => target[o] # 0,
           step \in {"check", "run"} \/ (c \in Transitions /\ step \in AfterStop)
               => Restorable(restore[o])
    PROVE  ControlInv'
<1> DEFINE j == target[o]  r == restore[o]  s == printed[o]
<1>1. /\ j \in 0 .. Len(jobs) /\ r \in Restores /\ s \in Restores
      /\ j # 0 => jobs[j].lab
      /\ r.from \in 0 .. Len(savepoints) /\ s.from \in 0 .. Len(savepoints)
      /\ Restorable(s)
  BY TerminalHolds
<1>2. /\ target' = [target EXCEPT ![o] = j] /\ restore' = [restore EXCEPT ![o] = r]
      /\ printed' = [printed EXCEPT ![o] = s]
  BY TerminalHolds
<1>3. /\ step \in {"plan", "stop", "stopping"} => j # 0
      /\ step \in {"check", "run"} \/ (c \in Transitions /\ step \in AfterStop)
             => Restorable(r)
  OBVIOUS
<1> HIDE DEF j, r, s
<1> QED
  BY <1>1, <1>2, <1>3, TerminalControl

\* Steps that prepare a restore command.
LEMMA TerminalPrepares ==
    ASSUME ControlInv, Kept, UNCHANGED <<savepoints, cmd, target>>, up' \in BOOLEAN,
           NEW o \in Operators, NEW step \in Steps, step \notin {"plan", "stopping"},
           NEW r \in Restores, NEW s \in Restores, pc' = [pc EXCEPT ![o] = step],
           restore' = [restore EXCEPT ![o] = r], printed' = [printed EXCEPT ![o] = s],
           step = "stop" => target[o] # 0,
           r.from \in 0 .. Len(savepoints), s.from \in 0 .. Len(savepoints),
           Restorable(s), step \in {"idle", "stop"} \/ Restorable(r)
    PROVE  ControlInv'
<1> DEFINE c == cmd[o]  j == target[o]
<1>1. /\ c \in AllCommands /\ j \in 0 .. Len(jobs)
      /\ j # 0 => jobs[j].lab
      /\ cmd' = [cmd EXCEPT ![o] = c] /\ target' = [target EXCEPT ![o] = j]
  BY TerminalHolds
<1>2. /\ step \in {"plan", "stop", "stopping"} => j # 0
      /\ step \in {"check", "run"} \/ (c \in Transitions /\ step \in AfterStop)
             => Restorable(r)
  BY DEF AfterStop
<1> HIDE DEF c, j
<1> QED
  BY <1>1, <1>2, TerminalControl

LEMMA EarliestRestorable ==
    FromEarliest \in Restores /\ FromEarliest.from = 0 /\ Restorable(FromEarliest)
BY DEF FromEarliest, Restores, Restorable

LEMMA BeginControl ==
    ASSUME ControlInv, NEW o \in Operators, BeginAny(o)
    PROVE  ControlInv'
<1> USE DEF clusterVars, Begin, Go
<1>0. Kept \/ ~UNCHANGED jobs
  BY UnchangedKeeps DEF ControlInv
<1>1. ASSUME NEW c \in Stoppers, BeginStop(o, c) PROVE ControlInv'
  <2>1. PICK j \in DOMAIN jobs : Exclusive(j) /\ target' = [target EXCEPT ![o] = j]
    BY <1>1 DEF BeginStop
  <2>2. j \in 0 .. Len(jobs) /\ j # 0 /\ jobs[j].lab
    BY <2>1 DEF Exclusive, NamedRunning, ControlInv, ShapeInv
  <2>3. /\ Kept /\ up' \in BOOLEAN /\ c \in AllCommands
        /\ (IF c \in Transitions THEN "plan" ELSE "stop") \in {"plan", "stop"}
    BY <1>0, <1>1 DEF BeginStop, ControlInv, ShapeInv, AllCommands
  <2> QED
    BY <1>1, <2>1, <2>2, <2>3, TerminalHolds, TerminalControl DEF BeginStop, Steps, AfterStop
<1>2. CASE BeginRebuild(o)
  <2>1. Kept /\ up' \in BOOLEAN /\ "keyby-rebuild" \in AllCommands \ Transitions
    BY <1>0, <1>2 DEF BeginRebuild, ControlInv, ShapeInv, AllCommands, Transitions
  <2>2. /\ pc' = [pc EXCEPT ![o] = "guard"] /\ cmd' = [cmd EXCEPT ![o] = "keyby-rebuild"]
        /\ "guard" \in Steps \ {"plan", "stop", "stopping", "check", "run"}
    BY <1>2 DEF BeginRebuild, Steps
  <2> QED
    BY <1>2, <2>1, <2>2, TerminalMoves DEF BeginRebuild
<1>3. ASSUME NEW c \in AllCommands, NEW r \in Restores, r.from \in 0 .. Len(savepoints),
             Restorable(r), BeginSubmission(o, c, r)
      PROVE  ControlInv'
  <2>1. Kept /\ up' \in BOOLEAN
    BY <1>0, <1>3 DEF BeginSubmission, ControlInv, ShapeInv
  <2> QED
    BY <1>3, <2>1, TerminalHolds, TerminalControl DEF BeginSubmission, Steps
<1>4. CASE BeginKeyBySubmit(o)
  <2>1. PICK i \in DOMAIN savepoints :
            BeginSubmission(o, "keyby-submit", [from |-> i, keyBy |-> TRUE, allow |-> FALSE])
    BY <1>4 DEF BeginKeyBySubmit
  <2>2. i \in Nat /\ i \in 0 .. Len(savepoints)
    BY DEF ControlInv, ShapeInv
  <2> QED
    BY <1>3, <2>1, <2>2 DEF AllCommands, Restores, Restorable
<1>5. CASE BeginSubmit(o)
  <2>1. 0 \in 0 .. Len(savepoints) /\ "submit" \in AllCommands
    BY DEF ControlInv, ShapeInv, AllCommands
  <2> QED
    BY <1>3, <1>5, <2>1, EarliestRestorable DEF BeginSubmit
<1>6. CASE BeginRecovery(o)
  BY <1>3, <1>6, TerminalHolds DEF BeginRecovery, AllCommands
<1>7. CASE BeginDeploy(o)
  <2>1. Kept /\ up' \in BOOLEAN /\ "deploy" \in AllCommands \ Transitions
    BY <1>0, <1>7 DEF BeginDeploy, ControlInv, ShapeInv, AllCommands, Transitions
  <2>2. /\ pc' = [pc EXCEPT ![o] = "up"] /\ cmd' = [cmd EXCEPT ![o] = "deploy"]
        /\ "up" \in Steps \ {"plan", "stop", "stopping", "check", "run"}
    BY <1>7 DEF BeginDeploy, Steps
  <2> QED
    BY <1>7, <2>1, <2>2, TerminalMoves DEF BeginDeploy
<1>8. CASE BeginRotation(o)
  <2>1. Kept /\ up' \in BOOLEAN /\ "rotate-credentials" \in AllCommands \ Transitions
    BY <1>0, <1>8 DEF BeginRotation, ControlInv, ShapeInv, AllCommands, Transitions
  <2>2. /\ pc' = [pc EXCEPT ![o] = "force"] /\ cmd' = [cmd EXCEPT ![o] = "rotate-credentials"]
        /\ "force" \in Steps \ {"plan", "stop", "stopping", "check", "run"}
    BY <1>8 DEF BeginRotation, Steps
  <2> QED
    BY <1>8, <2>1, <2>2, TerminalMoves DEF BeginRotation
<1> QED
  BY <1>1, <1>2, <1>4, <1>5, <1>6, <1>7, <1>8 DEF BeginAny

LEMMA StepControl ==
    ASSUME ControlInv, NEW o \in Operators, Step(o)
    PROVE  ControlInv'
<1> USE DEF clusterVars, Go
<1> DEFINE Moves(step) ==
        /\ Kept /\ UNCHANGED <<savepoints, cmd, target, restore, printed>> /\ up' \in BOOLEAN
        /\ pc' = [pc EXCEPT ![o] = step] /\ step \in Steps
<1>0. /\ UNCHANGED jobs => Kept
      /\ up \in BOOLEAN /\ cmd[o] \in AllCommands /\ cmd = [cmd EXCEPT ![o] = cmd[o]]
      /\ restore[o] \in Restores /\ printed[o] \in Restores
  BY UnchangedKeeps, TerminalHolds DEF ControlInv, ShapeInv
<1>m. ASSUME NEW step, Moves(step), step \in {"plan", "stop", "stopping"} => target[o] # 0,
             step \in {"check", "run"} \/ (cmd[o] \in Transitions /\ step \in AfterStop)
                 => Prepared(o)
      PROVE  ControlInv'
  <2>1. Prepared(o) => Restorable(restore[o])
    BY TerminalHolds
  <2>2. cmd' = [cmd EXCEPT ![o] = cmd[o]]
    BY <1>0, <1>m
  <2> QED
    BY <1>0, <1>m, <2>1, <2>2, TerminalMoves
<1> HIDE DEF Moves
<1>1. CASE ReadPlan(o)
  <2> DEFINE r == [restore[o] EXCEPT !.keyBy = Desired(jobs[target[o]].keyBy, cmd[o])]
             step == pc'[o]
  <2>1. target[o] # 0 /\ target[o] \in DOMAIN jobs /\ jobs[target[o]] \in Jobs
    BY <1>1, TerminalHolds DEF ReadPlan, ControlInv, ShapeInv
  <2>2. r \in Restores /\ r.from = restore[o].from
    BY <1>0, <2>1 DEF Desired, Restores, Jobs
  <2>3. /\ step \in {"idle", "stop"} /\ pc' = [pc EXCEPT ![o] = step]
        /\ restore' = [restore EXCEPT ![o] = r]
    BY <1>1 DEF ReadPlan, ControlInv, ShapeInv
  <2>4. Kept /\ UNCHANGED <<savepoints, up, cmd, target, printed>>
    BY <1>0, <1>1 DEF ReadPlan
  <2> HIDE DEF r, step
  <2> QED
    <3>1. /\ printed[o].from \in 0 .. Len(savepoints) /\ Restorable(printed[o])
          /\ r.from \in 0 .. Len(savepoints) /\ printed' = [printed EXCEPT ![o] = printed[o]]
          /\ step \in Steps \ {"plan", "stopping"} /\ up' \in BOOLEAN
      BY <1>0, <2>2, <2>3, <2>4, TerminalHolds DEF Steps
    <3> QED
      BY <1>0, <2>1, <2>2, <2>3, <2>4, <3>1, TerminalPrepares
<1>2. CASE RequestStop(o)
  <2>1. target[o] # 0 /\ target[o] \in DOMAIN jobs
    BY <1>2, TerminalHolds DEF RequestStop, ControlInv, ShapeInv
  <2>2. Kept
    BY <1>2, <2>1, SetStateKeeps DEF RequestStop, ControlInv, States
  <2>3. Moves("stopping")
    BY <1>0, <1>2, <2>2 DEF Moves, RequestStop, Steps
  <2> QED
    BY <1>m, <2>1, <2>3 DEF AfterStop
<1>3. CASE StopReturns(o)
  <2>1. PICK i \in DOMAIN savepoints :
            /\ savepoints[i].job = target[o] /\ savepoints[i].by = o
            /\ LET keyBy == restore[o].keyBy
                   command == [from |-> i, keyBy |-> keyBy,
                               allow |-> DiscardsState(jobs[target[o]].keyBy, keyBy)]
               IN IF cmd[o] \in Transitions
                  THEN /\ restore' = [restore EXCEPT ![o] = command]
                       /\ printed' = [printed EXCEPT ![o] = command]
                       /\ pc' = [pc EXCEPT ![o] = "guard"]
                  ELSE pc' = [pc EXCEPT ![o] = "idle"] /\ UNCHANGED <<restore, printed>>
    BY <1>3 DEF StopReturns
  <2> DEFINE command == [from |-> i, keyBy |-> restore[o].keyBy,
                         allow |-> DiscardsState(jobs[target[o]].keyBy, restore[o].keyBy)]
  <2>2. Kept /\ UNCHANGED <<savepoints, up, cmd, target>>
    BY <1>0, <1>3 DEF StopReturns
  <2>3. CASE cmd[o] \in Transitions
    <3>1. /\ target[o] \in DOMAIN jobs /\ jobs[target[o]] \in Jobs
          /\ i \in Nat /\ i \in 0 .. Len(savepoints) /\ i # 0
      BY <2>1 DEF ControlInv, ShapeInv, ReferenceInv
    <3>2. command \in Restores /\ command.from = i /\ Restorable(command)
      BY <1>0, <2>1, <3>1 DEF DiscardsState, Restores, Jobs, Restorable
    <3>3. /\ restore' = [restore EXCEPT ![o] = command] /\ "guard" \in Steps \ {"plan", "stopping", "stop"}
          /\ printed' = [printed EXCEPT ![o] = command] /\ pc' = [pc EXCEPT ![o] = "guard"]
      BY <2>1, <2>3 DEF Steps
    <3> HIDE DEF command
    <3> QED
      BY <1>0, <2>2, <3>1, <3>2, <3>3, TerminalPrepares
  <2>4. CASE cmd[o] \notin Transitions
    <3>1. Moves("idle")
      BY <1>0, <2>1, <2>2, <2>4 DEF Moves, Steps
    <3> QED
      BY <1>m, <3>1, <2>4
  <2> QED
    BY <2>3, <2>4
<1>4. CASE Guard(o)
  <2>1. Moves("recreate jobmanager")
    BY <1>0, <1>4 DEF Moves, Guard, Steps
  <2> QED
    BY <1>m, <1>4, <2>1 DEF Prepared, AfterStop, Guard
<1>5. CASE RecreateJobManager(o)
  <2>1. Moves("recreate taskmanager")
    BY <1>5, ForgottenKeeps DEF Moves, RecreateJobManager, Steps, ControlInv
  <2> QED
    BY <1>m, <1>5, <2>1 DEF Prepared, AfterStop, RecreateJobManager
<1>6. CASE RecreateTaskManager(o)
  <2> DEFINE step == IF cmd[o] \in Transitions THEN "check" ELSE "idle"
  <2>1. Moves(step)
    BY <1>0, <1>6, RestartsKeep DEF Moves, RecreateTaskManager, Steps, ControlInv
  <2>2. CASE cmd[o] \in Transitions
    BY <1>m, <1>6, <2>1, <2>2 DEF Prepared, AfterStop, RecreateTaskManager
  <2>3. CASE cmd[o] \notin Transitions
    BY <1>m, <2>1, <2>3
  <2> QED
    BY <2>2, <2>3
<1>7. CASE Check(o)
  <2>1. Moves("run")
    BY <1>0, <1>7 DEF Moves, Check, Steps
  <2> QED
    BY <1>m, <1>7, <2>1 DEF Prepared, Check
<1>8. CASE Run(o)
  <2>1. /\ jobs \in Seq(Jobs) /\ jobs' \in Seq(Jobs) /\ Len(jobs') = Len(jobs) + 1
        /\ Len(jobs) \in Nat /\ DOMAIN jobs = 1 .. Len(jobs)
        /\ \A k \in 1 .. Len(jobs) : jobs'[k] = jobs[k]
        /\ jobs'[Len(jobs) + 1] = Submitted(o)
    <3>1. jobs \in Seq(Jobs)
      BY DEF ControlInv, ShapeInv
    <3>2. ShapeInv /\ ReferenceInv
      BY DEF ControlInv
    <3>3. /\ jobs' \in Seq(Jobs) /\ Len(jobs') = Len(jobs) + 1
          /\ \A k \in 1 .. Len(jobs) : jobs'[k] = jobs[k]
          /\ jobs'[Len(jobs) + 1] = Submitted(o)
      BY <1>8, <3>2, RunAdds
    <3> QED
      BY <3>1, <3>3
  <2>2. ShapeInv'
    BY <1>8, <2>1 DEF ControlInv, ShapeInv, Run, Steps
  <2>3. ClusterReferences'
    <3>1. ASSUME NEW k \in DOMAIN jobs'
          PROVE  /\ jobs'[k].from \in 0 .. Len(savepoints)
                 /\ jobs'[k].stopper # Nobody => jobs'[k].state = "RUNNING"
      <4>1. CASE k = Len(jobs) + 1
        BY <2>1, <4>1, TerminalHolds DEF Submitted, Job
      <4>2. CASE k \in 1 .. Len(jobs)
        BY <2>1, <4>2 DEF ControlInv, ReferenceInv
      <4> QED
        BY <2>1, <4>1, <4>2
    <3>2. \A i \in DOMAIN savepoints : savepoints[i].job \in DOMAIN jobs'
      BY <2>1 DEF ControlInv, ReferenceInv
    <3> QED
      BY <1>8, <3>1, <3>2 DEF ClusterReferences, Run
  <2>4. ReferenceInv'
    <3>1. ASSUME NEW p \in Operators
          PROVE  /\ target[p] \in 0 .. Len(jobs')
                 /\ target[p] # 0 => jobs'[target[p]].lab
                 /\ pc'[p] \in {"plan", "stop", "stopping"} => target[p] # 0
      <4>1. /\ target[p] \in 0 .. Len(jobs)
            /\ target[p] # 0 => target[p] \in 1 .. Len(jobs) /\ jobs[target[p]].lab
        BY <2>1 DEF ControlInv, ReferenceInv
      <4> QED
        <5>1. pc'[p] \in {"plan", "stop", "stopping"} => pc[p] \in {"plan", "stop", "stopping"}
          BY <1>8 DEF ControlInv, ShapeInv, Run
        <5>2. pc[p] \in {"plan", "stop", "stopping"} => target[p] # 0
          BY DEF ControlInv, ReferenceInv
        <5> QED
          BY <2>1, <4>1, <5>1, <5>2
    <3> QED
      BY <1>8, <2>3, <3>1 DEF ReferenceInv, ClusterReferences, Run, ControlInv
  <2>5. RestoreInv'
    <3>1. ASSUME NEW r \in Restores, r.from \in 0 .. Len(savepoints), Restorable(r)
          PROVE  Restorable(r)'
      <4>1. CASE r.from # 0
        <5>1. r.from \in DOMAIN savepoints
          BY <3>1, <4>1 DEF ControlInv, ShapeInv
        <5>2. savepoints[r.from].job \in 1 .. Len(jobs)
          BY <2>1, <5>1 DEF ControlInv, ReferenceInv
        <5> QED
          BY <1>8, <2>1, <3>1, <5>2 DEF Restorable, Run
      <4> QED
        BY <4>1 DEF Restorable
    <3>2. ASSUME NEW p \in Operators PROVE Restorable(printed[p])'
      BY <1>8, <3>1, TerminalHolds DEF Run, Restorable
    <3>3. ASSUME NEW p \in Operators, Prepared(p)' PROVE Restorable(restore[p])'
      <4>1. Prepared(p)
        BY <1>8, <3>3 DEF Prepared, Run, ControlInv, ShapeInv, AfterStop
      <4> QED
        BY <1>8, <3>1, <4>1, TerminalHolds DEF Run, Restorable
    <3> QED
      BY <3>2, <3>3 DEF RestoreInv
  <2> QED
    BY <2>2, <2>4, <2>5 DEF ControlInv
<1>9. CASE Up(o)
  <2>1. Kept
    BY <1>0, <1>9, ForgottenKeeps DEF Up, ControlInv
  <2>2. Moves("list")
    BY <1>9, <2>1 DEF Moves, Up, Steps
  <2> QED
    BY <1>m, <2>2 DEF AfterStop
<1>10. CASE ListRunning(o)
  <2>1. UNCHANGED <<up, jobs, savepoints, cmd, target, printed>>
    BY <1>10 DEF ListRunning
  <2>2. CASE pc' = [pc EXCEPT ![o] = "idle"] /\ UNCHANGED restore
    <3>1. Moves("idle")
      BY <1>0, <2>1, <2>2 DEF Moves, Steps
    <3> QED
      BY <1>m, <3>1 DEF AfterStop
  <2>3. CASE pc' = [pc EXCEPT ![o] = "run"] /\ restore' = [restore EXCEPT ![o] = FromEarliest]
    <3>1. /\ 0 \in 0 .. Len(savepoints) /\ "run" \in Steps \ {"plan", "stopping", "stop"}
          /\ printed' = [printed EXCEPT ![o] = printed[o]]
          /\ printed[o].from \in 0 .. Len(savepoints) /\ Restorable(printed[o])
      <4>1. Len(savepoints) \in Nat
        BY DEF ControlInv, ShapeInv
      <4> QED
        BY <2>1, <4>1, TerminalHolds DEF Steps
    <3> QED
      BY <1>0, <2>1, <2>3, <3>1, EarliestRestorable, TerminalPrepares
  <2> QED
    BY <1>10, <2>2, <2>3 DEF ListRunning
<1>11. CASE ForceRecreate(o)
  <2>1. /\ Kept /\ up' \in BOOLEAN /\ UNCHANGED <<savepoints, cmd, target, printed>>
        /\ pc' = [pc EXCEPT ![o] = "run"] /\ restore' = [restore EXCEPT ![o] = FromEarliest]
    BY <1>11, ForgottenKeeps DEF ForceRecreate, ControlInv
  <2>2. /\ 0 \in 0 .. Len(savepoints) /\ "run" \in Steps \ {"plan", "stopping", "stop"}
        /\ printed' = [printed EXCEPT ![o] = printed[o]]
        /\ printed[o].from \in 0 .. Len(savepoints) /\ Restorable(printed[o])
    <3>1. Len(savepoints) \in Nat
      BY DEF ControlInv, ShapeInv
    <3> QED
      BY <2>1, <3>1, TerminalHolds DEF Steps
  <2> QED
    BY <1>0, <2>1, <2>2, EarliestRestorable, TerminalPrepares
<1>12. CASE Fails(o)
  <2>1. Moves("idle")
    BY <1>0, <1>12 DEF Moves, Fails, Steps
  <2> QED
    BY <1>m, <2>1 DEF AfterStop
<1> QED
  BY <1>1, <1>2, <1>3, <1>4, <1>5, <1>6, <1>7, <1>8, <1>9, <1>10, <1>11, <1>12 DEF Step

LEMMA NextControlInv == ControlInv /\ [Next]_vars => ControlInv'
<1> SUFFICES ASSUME ControlInv, [Next]_vars PROVE ControlInv'
  OBVIOUS
<1>1. ASSUME NEW j \in DOMAIN jobs, JobComesUp(j) \/ JobRestarts(j) \/ JobFails(j)
      PROVE  ControlInv'
  <2>1. Kept
    BY <1>1, SetStateKeeps
    DEF ControlInv, JobComesUp, JobRestarts, JobFails, States, Terminal
  <2> QED
    BY <1>1, <2>1, ClusterControl DEF JobComesUp, JobRestarts, JobFails, ControlInv, ShapeInv
<1>2. ASSUME NEW j \in DOMAIN jobs, StopCompletes(j) PROVE ControlInv'
  BY <1>2, StopCompletesControl
<1>3. CASE JobManagerLost
  BY <1>3, ForgottenKeeps, ClusterControl DEF JobManagerLost, ControlInv
<1>4. ASSUME NEW o \in Operators, BeginAny(o) \/ Step(o) PROVE ControlInv'
  BY <1>4, BeginControl, StepControl
<1>5. CASE UNCHANGED vars
  BY <1>5, UnchangedKeeps, ClusterControl DEF vars, clusterVars, ControlInv, ShapeInv
<1> QED
  BY <1>1, <1>2, <1>3, <1>4, <1>5 DEF Next, Cluster

\* The strengthening of the two properties below, for any number of terminals.
THEOREM ControlInvariant == Spec => []ControlInv
<1>1. Init => ControlInv
  BY InitControlInv
<1>2. ControlInv /\ [Next]_vars => ControlInv'
  BY NextControlInv
<1> QED
  BY <1>1, <1>2, PTL DEF Spec

\* Every variable has its type, references point to what exists, and commands
\* only find jobs that carry JOB_NAME.
THEOREM ControlTypeCorrect == Spec => []TypeOK
<1>1. ControlInv => TypeOK
  <2> SUFFICES ASSUME ControlInv PROVE TypeOK
    OBVIOUS
  <2>1. ASSUME NEW j \in DOMAIN jobs PROVE jobs[j].state \in States
    <3>1. jobs[j] \in Jobs
      BY DEF ControlInv, ShapeInv
    <3> QED
      BY <3>1 DEF Jobs
  <2> QED
    BY <2>1 DEF ControlInv, ShapeInv, ReferenceInv, TypeOK
<1> QED
  BY <1>1, ControlInvariant, PTL

\* Flink accepts every restore command that is about to run, and keyed state is
\* given up exactly where the operator that owns it is removed, whatever the
\* commands in the other terminals do.
THEOREM RestoresWhatItCanHolds == Spec => []RestoresWhatItCan
<1>1. ControlInv => RestoresWhatItCan
  BY DEF ControlInv, RestoreInv, Prepared, Restorable, RestoresWhatItCan
<1> QED
  BY <1>1, ControlInvariant, PTL

-----------------------------------------------------------------------------
(* In one terminal, what the guards have found stays true.                 *)

LEMMA StopperIsActive ==
    ASSUME ControlInv, NEW k \in DOMAIN jobs, jobs[k].stopper # Nobody
    PROVE  k \in Active
BY DEF ControlInv, ReferenceInv, Active, Terminal, Lost

\* Steps that start no job and request no stop.
LEMMA ClusterStays ==
    ASSUME ControlInv, ClusterInv, Kept, UNCHANGED savepoints,
           Active' \subseteq Active, ~up' => Active' = {},
           \A k \in 1 .. Len(jobs) : jobs'[k].stopper # Nobody => jobs[k].stopper # Nobody
    PROVE  ClusterInv'
<1>1. DOMAIN jobs = 1 .. Len(jobs) /\ DOMAIN jobs' = 1 .. Len(jobs)
  BY DEF ControlInv, ShapeInv, Kept
<1>2. Active \subseteq 1 .. Len(jobs)
  BY <1>1 DEF Active
<1>3. ASSUME NEW k \in DOMAIN jobs', jobs'[k].stopper # Nobody
      PROVE  jobs'[k].lab /\ \A m \in Active' \ {k} : m > k /\ jobs'[m].deployed
  <2>1. jobs[k].lab /\ \A m \in Active \ {k} : m > k /\ jobs[m].deployed
    BY <1>1, <1>3 DEF ClusterInv, StopsOnlyTheSoleJob
  <2> QED
    BY <1>1, <1>2, <1>3, <2>1 DEF Kept
<1>4. StopsOnlyTheSoleJob' /\ \A k \in DOMAIN jobs' : jobs'[k].stopper # Nobody => jobs'[k].lab
  BY <1>3 DEF StopsOnlyTheSoleJob
<1>5. \A i \in DOMAIN savepoints' : savepoints'[i].job \notin Active'
  BY DEF ClusterInv
<1> QED
  BY <1>4, <1>5 DEF ClusterInv

\* What the terminal knows survives what the cluster does on its own.
LEMMA KnowledgeStays ==
    ASSUME ControlInv, NEW o \in Operators, TerminalInv(o), Kept,
           UNCHANGED terminalVars, Active' \subseteq Active,
           \A k \in 1 .. Len(jobs) : jobs'[k].stopper # Nobody => jobs[k].stopper # Nobody,
           \A i \in DOMAIN savepoints : savepoints'[i] = savepoints[i],
           \A i \in DOMAIN savepoints' :
               i \in DOMAIN savepoints \/ savepoints'[i].after = Len(jobs)
    PROVE  GuardInv(o)' /\ ContinueInv(o)'
<1> USE DEF terminalVars, TerminalInv
<1>1. DOMAIN jobs = 1 .. Len(jobs) /\ DOMAIN jobs' = 1 .. Len(jobs) /\ Len(jobs') = Len(jobs)
  BY DEF ControlInv, ShapeInv, Kept
<1>2. GuardInv(o)'
  BY <1>1 DEF GuardInv
<1>3. pc[o] \in {"stop", "stopping"} => jobs'[target[o]].keyBy = jobs[target[o]].keyBy
  <2>1. target[o] \in 0 .. Len(jobs) /\ (pc[o] \in {"stop", "stopping"} => target[o] # 0)
    BY TerminalHolds
  <2> QED
    BY <1>1, <2>1 DEF Kept, ControlInv, ShapeInv
<1>4. restore[o].from # 0 =>
          /\ savepoints'[restore[o].from] = savepoints[restore[o].from]
          /\ jobs'[savepoints[restore[o].from].job].keyBy
                 = jobs[savepoints[restore[o].from].job].keyBy
  <2>1. restore[o].from # 0 => restore[o].from \in DOMAIN savepoints
    BY TerminalHolds DEF ControlInv, ShapeInv
  <2>2. restore[o].from # 0 => savepoints[restore[o].from].job \in 1 .. Len(jobs)
    BY <1>1, <2>1 DEF ControlInv, ReferenceInv
  <2> QED
    BY <2>1, <2>2 DEF Kept
<1>5. ContinueInv(o)'
  BY <1>1, <1>3, <1>4 DEF ContinueInv
<1> QED
  BY <1>2, <1>5

LEMMA InitTerminalInv ==
    ASSUME NEW o \in Operators, Init
    PROVE  TerminalInv(o)
<1>1. \A j \in DOMAIN jobs : jobs[j].stopper = Nobody
  BY DEF Init, Job
<1> QED
  BY <1>1 DEF Init, TerminalInv, ClusterInv, StopsOnlyTheSoleJob, GuardInv, ContinueInv, AfterStop

LEMMA ClusterTerminal ==
    ASSUME ControlInv, NEW o \in Operators, TerminalInv(o), Cluster
    PROVE  TerminalInv(o)'
<1> USE DEF TerminalInv
<1>0. ShapeInv /\ ReferenceInv /\ DOMAIN jobs = 1 .. Len(jobs)
  BY DEF ControlInv, ShapeInv
<1>1. ASSUME Kept, UNCHANGED <<savepoints, terminalVars>>, Active' \subseteq Active,
             ~up' => Active' = {},
             \A k \in 1 .. Len(jobs) : jobs'[k].stopper # Nobody => jobs[k].stopper # Nobody
      PROVE  TerminalInv(o)'
  BY <1>1, ClusterStays, KnowledgeStays
<1>2. ASSUME NEW j \in DOMAIN jobs, NEW state \in States, SetState(j, state, Nobody), j \in Active
      PROVE  /\ Kept /\ Active' \subseteq Active /\ (state \in Terminal => j \notin Active')
             /\ \A k \in 1 .. Len(jobs) :
                   jobs'[k].stopper # Nobody => jobs[k].stopper # Nobody
  <2>1. /\ Kept /\ jobs'[j].state = state /\ jobs'[j].stopper = Nobody
        /\ \A k \in 1 .. Len(jobs) : k # j => jobs'[k] = jobs[k]
    BY <1>0, <1>2, SetStateKeeps
  <2>2. DOMAIN jobs' = 1 .. Len(jobs)
    BY <2>1 DEF Kept
  <2> QED
    BY <1>0, <1>2, <2>1, <2>2 DEF Active
<1>3. ASSUME NEW j \in DOMAIN jobs, JobComesUp(j) \/ JobRestarts(j) \/ JobFails(j)
      PROVE  TerminalInv(o)'
  <2>1. j \in Active
    BY <1>3 DEF JobComesUp, JobRestarts, JobFails, Active, Terminal, Lost
  <2>2. PICK state \in States : SetState(j, state, Nobody)
    BY <1>3 DEF JobComesUp, JobRestarts, JobFails, States, Terminal
  <2>3. up' = up /\ UNCHANGED <<savepoints, terminalVars>>
    BY <1>3 DEF JobComesUp, JobRestarts, JobFails
  <2>4. up
    BY <2>1 DEF ClusterInv
  <2> QED
    BY <1>1, <1>2, <2>1, <2>2, <2>3, <2>4
<1>4. ASSUME NEW j \in DOMAIN jobs, StopCompletes(j) PROVE TerminalInv(o)'
  <2>1. j \in Active /\ "FINISHED" \in Terminal \cap States /\ SetState(j, "FINISHED", Nobody)
    BY <1>4 DEF StopCompletes, Terminal, States
  <2>2. /\ Kept /\ Active' \subseteq Active /\ j \notin Active'
        /\ \A k \in 1 .. Len(jobs) : jobs'[k].stopper # Nobody => jobs[k].stopper # Nobody
    BY <1>2, <2>1
  <2> DEFINE saved == [job |-> j, by |-> jobs[j].stopper, after |-> Len(jobs)]
  <2>3. /\ savepoints' = Append(savepoints, saved) /\ up' = up /\ UNCHANGED terminalVars
        /\ savepoints \in Seq(Saved)
    BY <1>0, <1>4 DEF StopCompletes, ShapeInv
  <2>4. saved.job = j /\ saved.after = Len(jobs)
    OBVIOUS
  <2> HIDE DEF saved
  <2>5. /\ \A i \in DOMAIN savepoints : savepoints'[i] = savepoints[i]
        /\ \A i \in DOMAIN savepoints' : i \in DOMAIN savepoints \/ savepoints'[i] = saved
    BY <2>3
  <2>6. GuardInv(o)' /\ ContinueInv(o)'
    BY <2>2, <2>3, <2>4, <2>5, KnowledgeStays
  <2>7. ASSUME NEW k \in DOMAIN jobs', jobs'[k].stopper # Nobody
        PROVE  jobs'[k].lab /\ \A m \in Active' \ {k} : m > k /\ jobs'[m].deployed
    <3>1. k \in 1 .. Len(jobs) /\ jobs[k].stopper # Nobody
      BY <2>2, <2>7 DEF Kept
    <3>2. jobs[k].lab /\ \A m \in Active \ {k} : m > k /\ jobs[m].deployed
      BY <1>0, <3>1 DEF ClusterInv, StopsOnlyTheSoleJob
    <3>3. Active \subseteq 1 .. Len(jobs)
      BY <1>0 DEF Active
    <3> QED
      BY <2>2, <3>1, <3>2, <3>3 DEF Kept
  <2>8. \A i \in DOMAIN savepoints' : savepoints'[i].job \notin Active'
    BY <2>2, <2>4, <2>5 DEF ClusterInv
  <2>9. up
    BY <2>1 DEF ClusterInv
  <2>10. StopsOnlyTheSoleJob' /\ \A k \in DOMAIN jobs' : jobs'[k].stopper # Nobody => jobs'[k].lab
    BY <2>7 DEF StopsOnlyTheSoleJob
  <2>11. ClusterInv'
    BY <2>3, <2>8, <2>9, <2>10 DEF ClusterInv
  <2> QED
    BY <2>6, <2>11
<1>5. CASE JobManagerLost
  <2>1. Kept /\ Active' = {} /\ UNCHANGED <<savepoints, terminalVars>>
    BY <1>0, <1>5, ForgottenKeeps DEF JobManagerLost
  <2>2. \A k \in 1 .. Len(jobs) : jobs'[k].stopper # Nobody => jobs[k].stopper # Nobody
    BY <1>0, <1>5, ForgottenKeeps DEF JobManagerLost
  <2> QED
    BY <1>1, <2>1, <2>2
<1> QED
  BY <1>3, <1>4, <1>5 DEF Cluster

LEMMA BeginTerminal ==
    ASSUME ControlInv, NEW o \in Operators, TerminalInv(o), BeginAny(o)
    PROVE  TerminalInv(o)'
<1> USE DEF clusterVars, Begin, Go, TerminalInv
<1>0. ShapeInv /\ ReferenceInv /\ ClusterInv /\ pc \in [Operators -> Steps]
      /\ cmd \in [Operators -> AllCommands]
  BY DEF ControlInv, ShapeInv
<1>1. UNCHANGED <<up, jobs, savepoints>>
  BY DEF BeginAny, BeginStop, BeginRebuild, BeginKeyBySubmit, BeginSubmit, BeginRecovery,
         BeginSubmission, BeginDeploy, BeginRotation
<1>2. ClusterInv' /\ Active' = Active
  BY <1>1 DEF ClusterInv, StopsOnlyTheSoleJob, Active
<1>3. ASSUME NEW c \in Stoppers, BeginStop(o, c) PROVE TerminalInv(o)'
  <2>1. /\ pc'[o] = (IF c \in Transitions THEN "plan" ELSE "stop") /\ cmd'[o] = c
        /\ Active = {target'[o]}
    BY <1>0, <1>3 DEF BeginStop, Exclusive, ControlInv, ShapeInv
  <2>2. pc'[o] = "stop" => c \notin Transitions
    BY <2>1
  <2> QED
    BY <1>2, <2>1, <2>2 DEF GuardInv, ContinueInv, AfterStop, Transitions
<1>4. ASSUME NEW c \in AllCommands \ Transitions, pc'[o] = "run", cmd'[o] = c, Active = {}
      PROVE  TerminalInv(o)'
  BY <1>1, <1>2, <1>4 DEF GuardInv, ContinueInv, Transitions
<1>5. ASSUME NEW c \in AllCommands \ Transitions, NEW r, BeginSubmission(o, c, r)
      PROVE  TerminalInv(o)'
  BY <1>0, <1>4, <1>5 DEF BeginSubmission, NoneBeforeSubmit
<1>6. CASE BeginKeyBySubmit(o)
  BY <1>5, <1>6 DEF BeginKeyBySubmit, AllCommands, Transitions
<1>7. CASE BeginSubmit(o)
  BY <1>5, <1>7 DEF BeginSubmit, AllCommands, Transitions
<1>8. CASE BeginRecovery(o)
  BY <1>5, <1>8 DEF BeginRecovery, AllCommands, Transitions
<1>9. CASE BeginRebuild(o)
  <2>1. pc'[o] = "guard" /\ cmd'[o] = "keyby-rebuild"
    BY <1>0, <1>9 DEF BeginRebuild
  <2> QED
    BY <1>2, <2>1 DEF GuardInv, ContinueInv, Transitions
<1>10. CASE BeginDeploy(o)
  <2>1. pc'[o] = "up" /\ cmd'[o] = "deploy"
    BY <1>0, <1>10 DEF BeginDeploy
  <2> QED
    BY <1>2, <2>1 DEF GuardInv, ContinueInv, Transitions
<1>11. CASE BeginRotation(o)
  <2>1. pc'[o] = "force" /\ cmd'[o] = "rotate-credentials"
    BY <1>0, <1>11 DEF BeginRotation
  <2> QED
    BY <1>2, <2>1 DEF GuardInv, ContinueInv, Transitions
<1> QED
  BY <1>3, <1>6, <1>7, <1>8, <1>9, <1>10, <1>11 DEF BeginAny

LEMMA StepTerminal ==
    ASSUME ControlInv, NEW o \in Operators, TerminalInv(o), Step(o)
    PROVE  TerminalInv(o)'
<1> USE DEF clusterVars, Go, TerminalInv
<1>0. /\ ShapeInv /\ ReferenceInv /\ ClusterInv /\ GuardInv(o) /\ ContinueInv(o)
      /\ pc \in [Operators -> Steps] /\ restore \in [Operators -> Restores]
      /\ DOMAIN jobs = 1 .. Len(jobs) /\ Len(jobs) \in Nat
      /\ target[o] \in 0 .. Len(jobs)
      /\ pc[o] \in {"plan", "stop", "stopping"} => target[o] \in 1 .. Len(jobs)
  BY TerminalHolds DEF ControlInv, ShapeInv
\* The savepoint of the restore command, and the job that it stopped.
<1>s. restore[o].from # 0 =>
          /\ restore[o].from \in DOMAIN savepoints
          /\ savepoints[restore[o].from].job \in 1 .. Len(jobs)
  BY <1>0, TerminalHolds DEF ShapeInv, ReferenceInv
<1>u. UNCHANGED <<up, jobs, savepoints>> => ClusterInv' /\ Active' = Active /\ Kept
  BY UnchangedKeeps DEF ControlInv, ClusterInv, StopsOnlyTheSoleJob, Active
\* A transition goes on.
<1>c. ASSUME Kept, UNCHANGED <<savepoints, cmd, target, restore>>,
             pc[o] \in AfterStop, pc'[o] \in AfterStop \cup {"idle"}
      PROVE  ContinueInv(o)'
  <2>1. restore[o].from # 0 => jobs'[savepoints[restore[o].from].job].keyBy
                                   = jobs[savepoints[restore[o].from].job].keyBy
    BY <1>s, <1>c DEF Kept
  <2>2. Len(jobs') = Len(jobs)
    BY <1>c DEF Kept
  <2> QED
    BY <1>0, <1>c, <2>1, <2>2 DEF ContinueInv, AfterStop
<1>f. ASSUME jobs' = Forgotten, UNCHANGED savepoints
      PROVE  /\ Kept /\ Active' = {} /\ ClusterInv'
  <2>1. /\ Kept /\ Active' = {}
        /\ \A k \in 1 .. Len(jobs) : jobs'[k].stopper = Nobody
    BY <1>0, <1>f, ForgottenKeeps
  <2>2. DOMAIN jobs' = 1 .. Len(jobs)
    BY <2>1 DEF Kept
  <2> QED
    BY <2>1, <2>2 DEF ClusterInv, StopsOnlyTheSoleJob
<1>i. pc'[o] = "idle" => GuardInv(o)' /\ ContinueInv(o)'
  BY DEF GuardInv, ContinueInv, AfterStop
<1>1. CASE ReadPlan(o)
  <2>1. /\ pc'[o] \in {"idle", "stop"} /\ UNCHANGED <<up, jobs, savepoints, cmd, target>>
        /\ restore'[o].keyBy = Desired(jobs[target[o]].keyBy, cmd[o])
        /\ Active \subseteq {target[o]}
    <3>1. restore[o] \in Restores
      BY <1>0
    <3> QED
      BY <1>0, <1>1, <3>1 DEF ReadPlan, GuardInv, Restores
  <2>2. GuardInv(o)'
    BY <1>u, <2>1 DEF GuardInv
  <2>3. ContinueInv(o)'
    BY <2>1 DEF ContinueInv, AfterStop, Desired
  <2> QED
    BY <1>u, <2>1, <2>2, <2>3
<1>2. CASE RequestStop(o)
  <2>1. /\ target[o] \in DOMAIN jobs /\ target[o] \in Active /\ Active = {target[o]}
        /\ jobs[target[o]].lab /\ up' = up /\ up
        /\ UNCHANGED <<savepoints, cmd, target, restore>> /\ pc'[o] = "stopping"
    BY <1>0, <1>2 DEF RequestStop, GuardInv, Active, Terminal, Lost, ReferenceInv
  <2>2. /\ Kept /\ jobs'[target[o]].state = "RUNNING"
        /\ \A k \in 1 .. Len(jobs) : k # target[o] => jobs'[k] = jobs[k]
    BY <1>0, <1>2, <2>1, SetStateKeeps DEF RequestStop, States
  <2>3. DOMAIN jobs' = 1 .. Len(jobs) /\ Len(jobs') = Len(jobs)
    BY <2>2 DEF Kept
  <2>4. Active' = Active
    BY <1>0, <2>1, <2>2, <2>3 DEF Active, Terminal, Lost
  <2>5. \A k \in DOMAIN jobs' : jobs'[k].stopper # Nobody => k = target[o]
    BY <1>0, <2>1, <2>2, <2>3, StopperIsActive
  <2>6. ClusterInv'
    BY <1>0, <2>1, <2>2, <2>3, <2>4, <2>5 DEF ClusterInv, StopsOnlyTheSoleJob, Kept
  <2>7. ContinueInv(o)'
    <3>1. \A i \in DOMAIN savepoints : savepoints[i].job # target[o]
      BY <1>0, <2>1 DEF ClusterInv
    <3>2. jobs'[target[o]].keyBy = jobs[target[o]].keyBy
      BY <1>0, <2>1, <2>2 DEF Kept
    <3> QED
      BY <1>0, <1>2, <2>1, <3>1, <3>2 DEF ContinueInv, AfterStop, RequestStop
  <2> QED
    BY <2>1, <2>6, <2>7 DEF GuardInv
<1>3. CASE StopReturns(o)
  <2>1. /\ pc[o] = "stopping" /\ UNCHANGED <<up, jobs, savepoints, cmd, target>>
        /\ pc' = [pc EXCEPT ![o] = IF cmd[o] \in Transitions THEN "guard" ELSE "idle"]
    BY <1>3 DEF StopReturns
  <2>2. CASE cmd[o] \in Transitions
    <3>1. PICK i \in DOMAIN savepoints :
              /\ savepoints[i].job = target[o]
              /\ restore' = [restore EXCEPT ![o] =
                     [from |-> i, keyBy |-> restore[o].keyBy,
                      allow |-> DiscardsState(jobs[target[o]].keyBy, restore[o].keyBy)]]
      BY <1>3, <2>2 DEF StopReturns
    <3>2. /\ restore'[o].from = i /\ restore'[o].keyBy = restore[o].keyBy /\ i # 0
          /\ pc'[o] = "guard"
      BY <1>0, <2>1, <2>2, <3>1 DEF ShapeInv
    <3>3. ContinueInv(o)'
      BY <1>0, <2>1, <3>1, <3>2 DEF ContinueInv, AfterStop
    <3> QED
      BY <1>u, <2>1, <3>2, <3>3 DEF GuardInv
  <2>3. CASE cmd[o] \notin Transitions
    BY <1>0, <1>i, <1>u, <2>1, <2>3
  <2> QED
    BY <2>2, <2>3
<1>4. CASE Guard(o)
  <2>1. /\ pc[o] = "guard" /\ pc'[o] = "recreate jobmanager" /\ Active = {}
        /\ UNCHANGED <<up, jobs, savepoints, cmd, target, restore>>
    BY <1>0, <1>4 DEF Guard, NoneBeforeRebuild
  <2>2. ContinueInv(o)'
    BY <1>c, <1>u, <2>1 DEF AfterStop
  <2> QED
    BY <1>u, <2>1, <2>2 DEF GuardInv
<1>5. CASE RecreateJobManager(o)
  <2>1. /\ pc[o] = "recreate jobmanager" /\ pc'[o] = "recreate taskmanager"
        /\ jobs' = Forgotten /\ UNCHANGED <<savepoints, cmd, target, restore>>
    BY <1>0, <1>5 DEF RecreateJobManager
  <2>2. ContinueInv(o)'
    BY <1>c, <1>f, <2>1 DEF AfterStop
  <2> QED
    BY <1>f, <2>1, <2>2 DEF GuardInv
<1>6. CASE RecreateTaskManager(o)
  <2>1. /\ pc[o] = "recreate taskmanager" /\ pc'[o] \in {"check", "idle"} /\ up' = up
        /\ UNCHANGED <<savepoints, cmd, target, restore>>
    BY <1>0, <1>6 DEF RecreateTaskManager
  <2>2. /\ Kept /\ Active' = Active
        /\ \A k \in 1 .. Len(jobs) : jobs'[k].stopper = Nobody
    BY <1>0, <1>6, RestartsKeep
  <2>3. ContinueInv(o)'
    BY <1>c, <2>1, <2>2 DEF AfterStop
  <2>4. ClusterInv'
    BY <1>0, <2>1, <2>2, ClusterStays DEF ClusterInv
  <2> QED
    BY <2>1, <2>3, <2>4 DEF GuardInv
<1>7. CASE Check(o)
  <2>1. /\ pc[o] = "check" /\ pc'[o] = "run" /\ Active = {}
        /\ UNCHANGED <<up, jobs, savepoints, cmd, target, restore>>
    BY <1>0, <1>7 DEF Check, NoneBeforeSubmit
  <2>2. ContinueInv(o)'
    BY <1>c, <1>u, <2>1 DEF AfterStop
  <2> QED
    BY <1>u, <2>1, <2>2 DEF GuardInv
<1>8. CASE Run(o)
  <2>1. /\ pc[o] = "run" /\ pc'[o] = "idle" /\ up /\ up' = up /\ UNCHANGED savepoints
    BY <1>0, <1>8 DEF Run
  <2>2. /\ Len(jobs') = Len(jobs) + 1 /\ DOMAIN jobs' = 1 .. Len(jobs) + 1
        /\ \A k \in 1 .. Len(jobs) : jobs'[k] = jobs[k]
        /\ jobs'[Len(jobs) + 1].stopper = Nobody
        /\ jobs'[Len(jobs) + 1].deployed = (cmd[o] = "deploy")
    <3>1. /\ jobs' \in Seq(Jobs) /\ Len(jobs') = Len(jobs) + 1
          /\ \A k \in 1 .. Len(jobs) : jobs'[k] = jobs[k]
          /\ jobs'[Len(jobs) + 1] = Submitted(o)
      BY <1>0, <1>8, RunAdds
    <3> QED
      BY <3>1 DEF Submitted, Job
  <2>3. Active' \subseteq Active \cup {Len(jobs) + 1}
    BY <1>0, <2>2 DEF Active
  <2>5. ASSUME NEW k \in DOMAIN jobs', jobs'[k].stopper # Nobody
        PROVE  jobs'[k].lab /\ \A m \in Active' \ {k} : m > k /\ jobs'[m].deployed
    <3>1. k \in 1 .. Len(jobs) /\ jobs[k].stopper # Nobody /\ jobs'[k] = jobs[k]
      BY <1>0, <2>2, <2>5
    <3>2. k \in Active
      BY <1>0, <3>1, StopperIsActive
    <3>3. jobs'[Len(jobs) + 1].deployed
      BY <1>0, <2>1, <2>2, <3>2 DEF GuardInv
    <3>4. jobs[k].lab /\ \A m \in Active \ {k} : m > k /\ jobs[m].deployed
      BY <1>0, <3>1 DEF ClusterInv, StopsOnlyTheSoleJob
    <3>5. Active \subseteq 1 .. Len(jobs)
      BY <1>0 DEF Active
    <3> QED
      BY <1>0, <2>2, <2>3, <3>1, <3>3, <3>4, <3>5
  <2>6. StopsOnlyTheSoleJob' /\ \A k \in DOMAIN jobs' : jobs'[k].stopper # Nobody => jobs'[k].lab
    BY <2>5 DEF StopsOnlyTheSoleJob
  <2>4. \A i \in DOMAIN savepoints : savepoints[i].job \notin Active'
    <3> SUFFICES ASSUME NEW i \in DOMAIN savepoints PROVE savepoints[i].job \notin Active'
      OBVIOUS
    <3>1. savepoints[i].job \in 1 .. Len(jobs) /\ savepoints[i].job \notin Active
      BY <1>0 DEF ClusterInv, ReferenceInv
    <3> QED
      BY <1>0, <2>2, <3>1 DEF Active
  <2> QED
    BY <1>i, <2>1, <2>4, <2>6 DEF ClusterInv
<1>9. CASE Up(o)
  <2>1. /\ pc'[o] = "list" /\ cmd'[o] = "deploy" /\ up' = TRUE /\ UNCHANGED savepoints
    BY <1>0, <1>9 DEF Up, GuardInv
  <2>2. ClusterInv'
    <3>1. CASE jobs' = Forgotten
      BY <1>f, <2>1, <3>1
    <3>2. CASE up /\ UNCHANGED jobs
      BY <1>0, <1>u, <2>1, <3>2 DEF ShapeInv
    <3> QED
      BY <1>9, <3>1, <3>2 DEF Up
  <2> QED
    BY <2>1, <2>2 DEF GuardInv, ContinueInv, Transitions
<1>10. CASE ListRunning(o)
  <2>1. /\ pc'[o] \in {"idle", "run"} /\ cmd'[o] = "deploy"
        /\ UNCHANGED <<up, jobs, savepoints>>
    BY <1>0, <1>10 DEF ListRunning, GuardInv
  <2> QED
    BY <1>i, <1>u, <2>1 DEF GuardInv, ContinueInv, Transitions
<1>11. CASE ForceRecreate(o)
  <2>1. /\ pc'[o] = "run" /\ cmd'[o] = "rotate-credentials"
        /\ jobs' = Forgotten /\ UNCHANGED savepoints
    BY <1>0, <1>11 DEF ForceRecreate, GuardInv
  <2> QED
    BY <1>f, <2>1 DEF GuardInv, ContinueInv, Transitions
<1>12. CASE Fails(o)
  BY <1>0, <1>i, <1>u, <1>12 DEF Fails
<1> QED
  BY <1>1, <1>2, <1>3, <1>4, <1>5, <1>6, <1>7, <1>8, <1>9, <1>10, <1>11, <1>12 DEF Step

LEMMA NextTerminalInv ==
    ASSUME NEW o, Operators = {o}, ControlInv, TerminalInv(o), [Next]_vars
    PROVE  TerminalInv(o)'
<1>1. CASE Cluster
  BY <1>1, ClusterTerminal
<1>2. CASE BeginAny(o) \/ Step(o)
  BY <1>2, BeginTerminal, StepTerminal
<1>3. CASE UNCHANGED vars
  <2>1. Kept /\ Active' = Active
    BY <1>3, UnchangedKeeps DEF vars, clusterVars, ControlInv
  <2>2. UNCHANGED <<up, jobs, savepoints, terminalVars>> /\ DOMAIN jobs = 1 .. Len(jobs)
    BY <1>3 DEF vars, clusterVars, ControlInv, ShapeInv
  <2>3. ClusterInv'
    BY <2>1, <2>2 DEF TerminalInv, ClusterInv, StopsOnlyTheSoleJob
  <2> QED
    BY <2>1, <2>2, <2>3, KnowledgeStays DEF TerminalInv
<1> QED
  BY <1>1, <1>2, <1>3 DEF Next

\* The strengthening of the three properties below.
THEOREM SoleTerminalInvariant ==
    ASSUME OneTerminal
    PROVE  Spec => []SoleTerminalInv
<1>1. Init => SoleTerminalInv
  BY InitControlInv, InitTerminalInv DEF SoleTerminalInv
<1>2. SoleTerminalInv /\ [Next]_vars => SoleTerminalInv'
  BY NextControlInv, NextTerminalInv DEF OneTerminal, SoleTerminalInv
<1> QED
  BY <1>1, <1>2, PTL DEF Spec

\* In one terminal, a stop is only ever under way in what was the sole active job,
\* however commands fail half way; only a deploy can have put another beside it.
THEOREM StopsOnlyTheSoleJobHolds ==
    ASSUME OneTerminal
    PROVE  Spec => []StopsOnlyTheSoleJob
<1>1. SoleTerminalInv => StopsOnlyTheSoleJob
  BY DEF OneTerminal, SoleTerminalInv, TerminalInv, ClusterInv
<1> QED
  BY <1>1, SoleTerminalInvariant, PTL

\* In one terminal, no command but deploy ever submits a job next to an active
\* one.
THEOREM OneWriterHolds ==
    ASSUME OneTerminal
    PROVE  Spec => OneWriter
<1> DEFINE Alone == \A o \in Operators : Run(o) /\ cmd[o] # "deploy" => Active = {}
<1>1. SoleTerminalInv /\ [Next]_vars => [Alone]_vars
  BY DEF SoleTerminalInv, TerminalInv, GuardInv, Run
<1> QED
  BY <1>1, SoleTerminalInvariant, PTL DEF Spec, OneWriter

\* In one terminal, a transition continues the job it stopped: nothing was
\* submitted since its savepoint, and a reset comes back in the mode it found.
THEOREM TransitionContinuesHolds ==
    ASSUME OneTerminal
    PROVE  Spec => TransitionContinues
<1> DEFINE Continues ==
        \A o \in Operators :
           Run(o) /\ cmd[o] \in Transitions =>
               LET savepoint == savepoints[restore[o].from] IN
               /\ savepoint.after = Len(jobs)
               /\ cmd[o] = "flink-reset" =>
                      restore[o].keyBy = jobs[savepoint.job].keyBy
<1>1. SoleTerminalInv /\ [Next]_vars => [Continues]_vars
  BY DEF SoleTerminalInv, TerminalInv, ContinueInv, AfterStop, Run
<1> QED
  BY <1>1, SoleTerminalInvariant, PTL DEF Spec, TransitionContinues
=============================================================================
