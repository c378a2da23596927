------------------------- MODULE RunnerSafetyProofs -------------------------
(***************************************************************************)
(* What goroutines, containers and agents really do, for every plan, any   *)
(* number of deployments, agents, retries and restarts.                    *)
(*                                                                         *)
(* The properties relate the world to the tables, and hold because of what *)
(* a goroutine knows at each point: that every run of its deployment is    *)
(* settled unless it is polling one, that its deployment has not been      *)
(* handed to anybody else, that the namespace of its container is          *)
(* recorded.  Sound says this of one deployment, and is inductive together *)
(* with the invariant of the tables.  A step of one deployment makes the   *)
(* others bystanders: at most the queue admits them.                       *)
(***************************************************************************)
EXTENDS RunnerProofs

JobType == [pc : Pc, step : 0..(Len(Plan) + 1), attempt : 1..(MaxRetries + 1),
            known : BOOLEAN, tied : BOOLEAN, cancelled : BOOLEAN, operator : BOOLEAN,
            remote : {"no", "needed", "sent"},
            want : Terminal \cup {"none"}, wins : BOOLEAN]

Typing ==
    /\ server \in {"down", "listening", "up", "draining", "stopping"}
    /\ restarts \in 0..MaxRestarts /\ localErr \in BOOLEAN
    /\ job \in [Deployment -> JobType]
    /\ retry \in [Deployment -> Completion \cup {NoRetry}]
    /\ resume \in [Deployment -> 1..(Len(Plan) + 1)]
    /\ container \in SUBSET Deployment
    /\ working \in SUBSET (Deployment \X Agent)
    /\ outcome \in [Deployment -> [Agent -> Outcome]]

Settled(d) == \A a \in Agent : run[d][a] \in {"none", "succeeded"}
Local == {"loop", "attempt", "exec", "capture", "pause", "check", "checking"}
InStep == {"attempt", "exec", "capture", "pause", "poll"}
Past == {"running"} \cup Terminal
Gate == {"pending", "publishing_artifact", "awaiting_artifact_approval"}

\* An agent executes only what the tables say it may be executing.
AgentsKnown(d) ==
    \A a \in Agent : <<d, a>> \in working =>
        /\ run[d][a] \in Unresolved \ {"claimed"}
        /\ outcome[d][a] \in {"none", "cleanup_unconfirmed"}

\* Outside a remote step, and wherever one may begin, all runs are settled.
Quiet(d) ==
    (\/ job[d].pc \in Local \/ d \in container \/ status[d] \in Gate
     \/ job[d].pc = "save" /\ job[d].want = "succeeded"
     \/ retry[d].want = "succeeded") => Settled(d)

\* Where the deployment and the goroutine stand while there is one.
Standing(d) ==
    job[d].pc # "none" =>
        /\ status[d] \in Past \cup {"publishing_artifact"}
        /\ status[d] = "publishing_artifact" => job[d].pc \in {"pause", "save"}
        /\ job[d].step >= 1
        /\ job[d].pc \in InStep => job[d].step <= Len(Plan)
        /\ job[d].pc \in {"check", "checking"} => job[d].step = Len(Plan) + 1
        /\ job[d].pc = "save" => job[d].want # "none"
        /\ job[d].pc = "save" /\ job[d].want = "succeeded" =>
              /\ job[d].wins /\ job[d].step = Len(Plan) + 1
              /\ status[d] \in Past /\ d \notin container

\* And while there is a container.
Contained(d) ==
    d \in container =>
        /\ status[d] \in Past
        /\ job[d].pc \in {"none", "exec", "checking", "save"}
        /\ job[d].pc = "save" => job[d].want = "cleanup_unconfirmed" /\ ~job[d].wins
        /\ retry[d].want # "succeeded"

\* A success left to the background is that of a goroutine that is gone.
Retried(d) ==
    retry[d].want = "succeeded" => job[d].pc = "none" /\ status[d] \in Past

Sound(d) == AgentsKnown(d) /\ Quiet(d) /\ Standing(d) /\ Contained(d) /\ Retried(d)

JInv == Typing /\ IInv /\ \A d \in Deployment : Sound(d)

-----------------------------------------------------------------------------
(* The tables.                                                             *)

\* The advance admits queued deployments and does nothing else to a status.
Admitted(d, st) == status'[d] = st[d] \/ (st[d] = "queued" /\ status'[d] = "pending")

LEMMA Advanced ==
    ASSUME NEW E, NEW st \in [Deployment -> Status], NEW rn, NEW cl, Commit(E, st, rn, cl)
    PROVE  /\ \A d \in Deployment : Admitted(d, st)
           /\ run' = rn /\ cleanup' = cl
BY DEF Commit, AdvanceStatus, Oldest, QueuedIn, Admitted

\* A step of another deployment: the queue may admit this one.
Bystander(d) ==
    /\ Admitted(d, status) /\ run'[d] = run[d] /\ cleanup'[d] = cleanup[d]
    /\ job'[d] = job[d] /\ retry'[d] = retry[d] /\ outcome'[d] = outcome[d]
    /\ (d \in container') <=> (d \in container)
    /\ \A a \in Agent : (<<d, a>> \in working') <=> (<<d, a>> \in working)

LEMMA EarlyIsIdle ==
    ASSUME JInv, NEW d \in Deployment, status[d] \in Early \cup {"pending", "awaiting_artifact_approval"}
    PROVE  /\ job[d].pc = "none" /\ d \notin container /\ retry[d].want # "succeeded"
           /\ Settled(d)
<1>1. Sound(d)
  BY DEF JInv
<1>2. status[d] \notin Past \cup {"publishing_artifact"}
  BY DEF Early, Past, Terminal
<1>3. Settled(d)
  BY <1>1 DEF JInv, IInv, TypeOK, Sound, Quiet, Gate, Settled
<1>. QED
  BY <1>1, <1>2, <1>3 DEF Sound, Standing, Contained, Retried

LEMMA BystanderSound ==
    ASSUME JInv, NEW d \in Deployment, Bystander(d)
    PROVE  Sound(d)'
<1>1. Sound(d)
  BY DEF JInv
<1>2. Settled(d)' <=> Settled(d)
  BY DEF Settled, Bystander
<1>3. CASE status'[d] = status[d]
  BY <1>1, <1>2, <1>3 DEF Sound, AgentsKnown, Quiet, Standing, Contained, Retried, Bystander
<1>4. CASE status[d] = "queued" /\ status'[d] = "pending"
  <2>1. job[d].pc = "none" /\ d \notin container /\ retry[d].want # "succeeded" /\ Settled(d)
    BY <1>4, EarlyIsIdle DEF Early
  <2>. QED
    BY <1>1, <1>2, <2>1
       DEF Sound, AgentsKnown, Quiet, Standing, Contained, Retried, Bystander, Local
<1>. QED
  BY <1>3, <1>4 DEF Bystander, Admitted

\* So a step of one deployment is sound if it is for that one.
Others(x) == \A d \in Deployment : d # x => Bystander(d)

LEMMA StepOf ==
    ASSUME JInv, NEW x \in Deployment, Others(x), Typing', IInv', Sound(x)'
    PROVE  JInv'
BY BystanderSound DEF JInv, Others

-----------------------------------------------------------------------------
(* What the goroutine of x does to its own record.                         *)

JobOnly(x) ==
    /\ job' \in [Deployment -> JobType]
    /\ \A d \in Deployment : d # x => job'[d] = job[d]

LEMMA LenPlan == Len(Plan) \in Nat
BY PlanAssumption

LEMMA Ranges == 1 \in 1..(MaxRetries + 1) /\ 0 \in 0..(Len(Plan) + 1)
BY LenPlan, BoundAssumption

LEMMA Saves ==
    ASSUME Typing, NEW x \in Deployment, NEW want \in Terminal, NEW wins \in BOOLEAN,
           Save(x, want, wins)
    PROVE  /\ JobOnly(x)
           /\ job'[x].pc = "save" /\ job'[x].step = job[x].step
           /\ job'[x].want = want /\ job'[x].wins = wins
<1>. DEFINE new == [job[x] EXCEPT !.pc = "save", !.want = want, !.wins = wins,
                                  !.attempt = 1, !.operator = FALSE, !.remote = "no"]
<1>1. job[x] \in JobType /\ job \in [Deployment -> JobType]
  BY DEF Typing
<1>2. new \in JobType
  BY <1>1, Ranges DEF JobType, Pc
<1>3. new.pc = "save" /\ new.step = job[x].step /\ new.want = want /\ new.wins = wins
  BY <1>1 DEF JobType
<1>4. job' = [job EXCEPT ![x] = new]
  BY DEF Save, Becomes
<1>. HIDE DEF new
<1>. QED
  BY <1>1, <1>2, <1>3, <1>4 DEF JobOnly

LEMMA Goes ==
    ASSUME Typing, NEW x \in Deployment, NEW pc \in Pc, GoTo(x, pc)
    PROVE  /\ JobOnly(x)
           /\ job'[x].pc = pc /\ job'[x].step = job[x].step
<1>. DEFINE new == [job[x] EXCEPT !.pc = pc]
<1>1. job[x] \in JobType /\ job \in [Deployment -> JobType]
  BY DEF Typing
<1>2. new \in JobType /\ new.pc = pc /\ new.step = job[x].step
  BY <1>1 DEF JobType
<1>4. job' = [job EXCEPT ![x] = new]
  BY DEF GoTo, Becomes
<1>. HIDE DEF new
<1>. QED
  BY <1>1, <1>2, <1>4 DEF JobOnly

LEMMA Loops ==
    ASSUME Typing, NEW x \in Deployment, job[x].step <= Len(Plan), NextLoop(x)
    PROVE  /\ JobOnly(x)
           /\ job'[x].pc = "loop" /\ job'[x].step = job[x].step + 1
<1>. DEFINE new == [job[x] EXCEPT !.pc = "loop", !.step = @ + 1, !.attempt = 1,
                                  !.operator = FALSE, !.remote = "no"]
<1>1. job[x] \in JobType /\ job \in [Deployment -> JobType]
  BY DEF Typing
<1>0. job[x].step + 1 \in 0..(Len(Plan) + 1)
  BY <1>1, LenPlan DEF JobType
<1>2. new \in JobType
  BY <1>0, <1>1, Ranges DEF JobType, Pc
<1>3. new.pc = "loop" /\ new.step = job[x].step + 1
  BY <1>1 DEF JobType
<1>4. job' = [job EXCEPT ![x] = new]
  BY DEF NextLoop, Becomes
<1>. HIDE DEF new
<1>. QED
  BY <1>1, <1>2, <1>3, <1>4 DEF JobOnly

LEMMA NoJobType ==
    ASSUME NEW k \in BOOLEAN
    PROVE  /\ [NoJob EXCEPT !.known = k] \in JobType /\ [NoJob EXCEPT !.known = k].pc = "none"
           /\ NoJob \in JobType /\ NoJob.pc = "none"
BY Ranges DEF NoJob, JobType, Pc

LEMMA Leaves ==
    ASSUME Typing, NEW x \in Deployment, Returns(x) \/ Becomes(x, NoJob)
    PROVE  JobOnly(x) /\ job'[x].pc = "none"
<1>1. job[x] \in JobType /\ job \in [Deployment -> JobType] /\ job[x].known \in BOOLEAN
  BY DEF Typing, JobType
<1>2. PICK new \in JobType : new.pc = "none" /\ job' = [job EXCEPT ![x] = new]
  BY <1>1, NoJobType DEF Returns, Becomes
<1>. QED
  BY <1>1, <1>2 DEF JobOnly

\* The flags of the goroutine change while it stays where it is.
SamePlace(x) ==
    /\ job'[x].pc = job[x].pc /\ job'[x].step = job[x].step
    /\ job'[x].want = job[x].want /\ job'[x].wins = job[x].wins

LEMMA Flags ==
    ASSUME Typing, NEW x \in Deployment, NEW r \in {"no", "needed", "sent"},
           \/ Becomes(x, [job[x] EXCEPT !.remote = r])
           \/ Becomes(x, [job[x] EXCEPT !.operator = TRUE, !.remote = r])
           \/ Becomes(x, [job[x] EXCEPT !.cancelled = TRUE])
           \/ job' = [job EXCEPT ![x].known = FALSE]
    PROVE  JobOnly(x) /\ SamePlace(x)
<1>1. job[x] \in JobType /\ job \in [Deployment -> JobType]
  BY DEF Typing
<1>2. ASSUME NEW new,
             \/ new = [job[x] EXCEPT !.remote = r]
             \/ new = [job[x] EXCEPT !.operator = TRUE, !.remote = r]
             \/ new = [job[x] EXCEPT !.cancelled = TRUE]
             \/ new = [job[x] EXCEPT !.known = FALSE]
      PROVE  /\ new \in JobType /\ new.pc = job[x].pc /\ new.step = job[x].step
             /\ new.want = job[x].want /\ new.wins = job[x].wins
  BY <1>1, <1>2 DEF JobType
<1>3. PICK new : /\ \/ new = [job[x] EXCEPT !.remote = r]
                    \/ new = [job[x] EXCEPT !.operator = TRUE, !.remote = r]
                    \/ new = [job[x] EXCEPT !.cancelled = TRUE]
                    \/ new = [job[x] EXCEPT !.known = FALSE]
                 /\ job' = [job EXCEPT ![x] = new]
  BY DEF Becomes
<1>. QED
  BY <1>1, <1>2, <1>3 DEF JobOnly, SamePlace

-----------------------------------------------------------------------------
(* What the transactions of x do to the rows of x, and to the others'.     *)

TableStep(x) ==
    \A d \in Deployment : d # x =>
        Admitted(d, status) /\ run'[d] = run[d] /\ cleanup'[d] = cleanup[d]

LEMMA TablesSame ==
    ASSUME NEW x \in Deployment, UNCHANGED vars
    PROVE  /\ TableStep(x)
           /\ status'[x] = status[x] /\ run'[x] = run[x] /\ cleanup'[x] = cleanup[x]
BY DEF TableStep, Admitted, vars

LEMMA SetStatus ==
    ASSUME IInv, NEW x \in Deployment, NEW value \in Status, NEW cl,
           \A d \in Deployment : d # x => cl[d] = cleanup[d],
           DeploymentTx(x, Set(x, value), run, cl)
    PROVE  /\ TableStep(x) /\ run' = run /\ cleanup' = cl
           /\ status'[x] = value \/ (value = "queued" /\ status'[x] = "pending")
<1>1. status \in [Deployment -> Status]
  BY DEF IInv, TypeOK
<1>2. /\ Set(x, value) \in [Deployment -> Status] /\ Set(x, value)[x] = value
      /\ \A d \in Deployment : d # x => Set(x, value)[d] = status[d]
  BY <1>1 DEF Set
<1>3. (\A d \in Deployment : Admitted(d, Set(x, value))) /\ run' = run /\ cleanup' = cl
  BY <1>2, Advanced DEF DeploymentTx
<1>. QED
  BY <1>2, <1>3 DEF Admitted, TableStep

LEMMA Starts ==
    ASSUME IInv, NEW x \in Deployment, StartLocal(x)
    PROVE  /\ TableStep(x) /\ run' = run /\ cleanup' = cleanup
           /\ status[x] \in {"queued", "pending"} /\ status'[x] = "running"
<1>. DEFINE st == AdvanceStatus(EnvScopes(x), status, run, cleanup)
<1>1. \A d \in Deployment : st[d] = status[d] \/ (status[d] = "queued" /\ st[d] = "pending")
  BY DEF AdvanceStatus, Oldest, QueuedIn
<1>2. st[x] = "pending" /\ status' = [st EXCEPT ![x] = "running"] /\ UNCHANGED <<run, cleanup>>
  BY DEF StartLocal
<1>3. st \in [Deployment -> {st[d] : d \in Deployment}]
  BY DEF AdvanceStatus
<1>. HIDE DEF st
<1>. QED
  BY <1>1, <1>2, <1>3 DEF TableStep, Admitted

LEMMA Records ==
    ASSUME IInv, NEW x \in Deployment, RecordNamespace(x)
    PROVE  /\ TableStep(x) /\ run' = run
           /\ status[x] = "running" /\ status' = status /\ cleanup'[x] = "namespace"
BY DEF RecordNamespace, TableStep, Admitted, IInv, TypeOK

LEMMA Gates ==
    ASSUME IInv, NEW x \in Deployment, NEW st, GateStep(x, st)
    PROVE  /\ TableStep(x) /\ run' = run /\ cleanup' = cleanup
           /\ <<status[x], st>> \in GateEdge /\ status'[x] = st
<1>1. st \in Status /\ st # "queued"
  BY DEF GateStep, GateEdge, Status, Executing, Terminal
<1>. QED
  BY <1>1, SetStatus DEF GateStep

\* A completion of a deployment that has started leaves it terminal.
LEMMA Completes ==
    ASSUME IInv, NEW x \in Deployment, NEW want, NEW clean, Complete(x, want, clean)
    PROVE  /\ TableStep(x) /\ run' = run
           /\ status[x] \notin {"none", "pending_approval"}
           /\ want \in {"succeeded", "failed", "cancelled", "cleanup_unconfirmed"}
           /\ cleanup' = CompletedCleanup(x, want, clean)
           /\ \/ status'[x] = CompletedStatus(x, want)
              \/ status[x] = "queued" /\ status'[x] = "pending"
<1>0. /\ status[x] \notin {"none", "pending_approval"}
      /\ want \in {"succeeded", "failed", "cancelled", "cleanup_unconfirmed"}
      /\ DeploymentTx(x, Set(x, CompletedStatus(x, want)), run, CompletedCleanup(x, want, clean))
  BY DEF Complete
<1>1. status[x] \in Status /\ cleanup \in [Deployment -> CleanupMark]
  BY DEF IInv, TypeOK
<1>2. CompletedStatus(x, want) \in Status
  BY <1>0, <1>1 DEF CompletedStatus, Status, Terminal
<1>3. \A d \in Deployment : d # x => CompletedCleanup(x, want, clean)[d] = cleanup[d]
  BY <1>1 DEF CompletedCleanup
<1>4. CompletedStatus(x, want) = "queued" => status[x] = "queued"
  BY <1>0 DEF CompletedStatus
<1>5. /\ TableStep(x) /\ run' = run /\ cleanup' = CompletedCleanup(x, want, clean)
      /\ status'[x] = CompletedStatus(x, want)
         \/ (CompletedStatus(x, want) = "queued" /\ status'[x] = "pending")
  BY <1>0, <1>2, <1>3, SetStatus
<1>. QED
  BY <1>0, <1>4, <1>5

\* The transactions about the runs of x.
LEMMA SetRuns ==
    ASSUME IInv, NEW x \in Deployment, NEW new \in [Agent -> RunState],
           status[x] \notin Early,
           DeploymentTx(x, status, [run EXCEPT ![x] = new], cleanup)
    PROVE  /\ TableStep(x) /\ cleanup' = cleanup
           /\ status'[x] = status[x] /\ run'[x] = new
<1>1. status \in [Deployment -> Status] /\ run \in [Deployment -> [Agent -> RunState]]
  BY DEF IInv, TypeOK
<1>2. /\ \A d \in Deployment : Admitted(d, status)
      /\ run' = [run EXCEPT ![x] = new] /\ cleanup' = cleanup
  BY <1>1, Advanced DEF DeploymentTx
<1>. QED
  BY <1>1, <1>2 DEF Admitted, TableStep, Early

LEMMA HasRun ==
    ASSUME IInv, NEW x \in Deployment, NEW a \in Agent, run[x][a] # "none"
    PROVE  status[x] \notin Early
BY DEF IInv, TypeOK

LEMMA SetOneRun ==
    ASSUME IInv, NEW x \in Deployment, NEW a \in Agent, NEW value \in RunState,
           run[x][a] # "none",
           \/ DeploymentTx(x, status, SetRun(x, a, value), cleanup)
           \/ run' = SetRun(x, a, value) /\ UNCHANGED <<status, cleanup>>
    PROVE  /\ TableStep(x) /\ cleanup' = cleanup
           /\ status'[x] = status[x] /\ run'[x][a] = value
           /\ \A b \in Agent : b # a => run'[x][b] = run[x][b]
<1>1. run \in [Deployment -> [Agent -> RunState]] /\ run[x] \in [Agent -> RunState]
  BY DEF IInv, TypeOK
<1>2. SetRun(x, a, value) = [run EXCEPT ![x] = [run[x] EXCEPT ![a] = value]]
  BY DEF SetRun
<1>3. [run[x] EXCEPT ![a] = value] \in [Agent -> RunState]
  BY <1>1
<1>4. CASE DeploymentTx(x, status, SetRun(x, a, value), cleanup)
  <2>1. /\ TableStep(x) /\ cleanup' = cleanup /\ status'[x] = status[x]
        /\ run'[x] = [run[x] EXCEPT ![a] = value]
    BY <1>2, <1>3, <1>4, HasRun, SetRuns
  <2>. QED
    BY <1>1, <2>1
<1>5. CASE run' = SetRun(x, a, value) /\ UNCHANGED <<status, cleanup>>
  <2>1. run' = [run EXCEPT ![x] = [run[x] EXCEPT ![a] = value]]
    BY <1>2, <1>5
  <2>. QED
    BY <1>1, <1>5, <2>1 DEF TableStep, Admitted
<1>. QED
  BY <1>4, <1>5

-----------------------------------------------------------------------------
(* The goroutine of x.                                                     *)

\* A step that concerns x: it keeps the types and leaves x sound.
Step(x) == Others(x) /\ Typing' /\ Sound(x)'

WorldStep(x) ==
    /\ UNCHANGED <<server, restarts, localErr, working, outcome>>
    /\ resume' \in [Deployment -> 1..(Len(Plan) + 1)]
    /\ container' \in SUBSET Deployment
    /\ \A d \in Deployment : d # x => (d \in container' <=> d \in container)

LEMMA Kept ==
    ASSUME Typing, NEW x \in Deployment, TableStep(x), JobOnly(x), WorldStep(x),
           retry' \in [Deployment -> Completion \cup {NoRetry}],
           \A d \in Deployment : d # x => retry'[d] = retry[d]
    PROVE  Others(x) /\ Typing'
<1>1. Others(x)
  BY DEF Others, Bystander, TableStep, JobOnly, WorldStep
<1>2. Typing'
  BY DEF Typing, JobOnly, WorldStep
<1>. QED
  BY <1>1, <1>2

\* Where the goroutine may arrive in a step that keeps the runs.
LEMMA Arrives ==
    ASSUME JInv, NEW x \in Deployment, TableStep(x), JobOnly(x), WorldStep(x),
           retry' = retry, run'[x] = run[x],
           job[x].pc # "none",
           (\/ job'[x].pc \in Local \/ x \in container' \/ status'[x] \in Gate
            \/ job'[x].pc = "save" /\ job'[x].want = "succeeded") => Settled(x),
           Standing(x)',
           x \in container' =>
               /\ status'[x] \in Past
               /\ job'[x].pc \in {"none", "exec", "checking", "save"}
               /\ job'[x].pc = "save" => job'[x].want = "cleanup_unconfirmed" /\ ~job'[x].wins
    PROVE  Step(x)
<1>0. Typing /\ Sound(x)
  BY DEF JInv
<1>1. Others(x) /\ Typing'
  BY <1>0, Kept DEF Typing
<1>2. retry'[x].want # "succeeded"
  BY <1>0 DEF Sound, Retried
<1>3. Settled(x)' <=> Settled(x)
  BY DEF Settled
<1>4. AgentsKnown(x)'
  BY <1>0 DEF Sound, AgentsKnown, WorldStep
<1>5. Quiet(x)'
  BY <1>2, <1>3 DEF Quiet
<1>6. Contained(x)' /\ Retried(x)'
  BY <1>2 DEF Contained, Retried
<1>. QED
  BY <1>1, <1>4, <1>5, <1>6 DEF Step, Sound

\* What is known of a goroutine that is about to make a step.
LEMMA Known ==
    ASSUME JInv, NEW x \in Deployment
    PROVE  /\ Typing /\ IInv /\ Sound(x)
           /\ job[x].pc \in Local => Settled(x)
           /\ job[x].pc \notin {"none", "exec", "checking", "save"} => x \notin container
           /\ job[x].pc \notin {"none", "pause", "save"} => status[x] \in Past
           /\ status[x] \in Gate \/ x \in container => Settled(x)
           /\ job[x].pc # "none" => job[x].step >= 1
           /\ job[x].pc \in InStep => job[x].step <= Len(Plan)
           /\ job[x].step \in Nat /\ job[x].step <= Len(Plan) + 1
<1>1. Typing /\ IInv /\ Sound(x)
  BY DEF JInv
<1>2. job[x].step \in 0..(Len(Plan) + 1)
  BY <1>1 DEF Typing, JobType
<1>3. job[x].step \in Nat /\ job[x].step <= Len(Plan) + 1
  BY <1>2, LenPlan
<1>4. Standing(x) /\ Contained(x) /\ Quiet(x)
  BY <1>1 DEF Sound
<1>5. job[x].pc \notin {"none", "pause", "save"} => status[x] \in Past
  BY <1>4 DEF Standing
<1>6. /\ job[x].pc # "none" => job[x].step >= 1
      /\ job[x].pc \in InStep => job[x].step <= Len(Plan)
  BY <1>4 DEF Standing, InStep
<1>7. job[x].pc \notin {"none", "exec", "checking", "save"} => x \notin container
  BY <1>4 DEF Contained
<1>8. /\ job[x].pc \in Local => Settled(x)
      /\ status[x] \in Gate \/ x \in container => Settled(x)
  BY <1>4 DEF Quiet
<1>. QED
  BY <1>1, <1>3, <1>5, <1>6, <1>7, <1>8

LEMMA SaveStep ==
    ASSUME JInv, NEW x \in Deployment, NEW want \in Terminal, NEW wins \in BOOLEAN,
           want # "succeeded", job[x].pc # "none", Save(x, want, wins),
           UNCHANGED vars, WorldStep(x), retry' = retry,
           x \in container' => x \in container /\ want = "cleanup_unconfirmed" /\ ~wins
    PROVE  Step(x)
<1>0. Typing /\ IInv /\ Sound(x)
  BY Known
<1>1. /\ JobOnly(x) /\ job'[x].pc = "save" /\ job'[x].step = job[x].step
      /\ job'[x].want = want /\ job'[x].wins = wins
  BY <1>0, Saves
<1>2. /\ TableStep(x) /\ status'[x] = status[x] /\ run'[x] = run[x]
  BY TablesSame
<1>3. Standing(x)'
  BY <1>0, <1>1, <1>2 DEF Sound, Standing, InStep, Terminal
<1>4. x \in container => status[x] \in Past /\ Settled(x)
  BY <1>0 DEF Sound, Contained, Quiet
<1>5. status[x] \in Gate => Settled(x)
  BY <1>0 DEF Sound, Quiet
<1>6. "save" \notin Local
  BY DEF Local
<1>. QED
  BY <1>1, <1>2, <1>3, <1>4, <1>5, <1>6, Arrives

LEMMA LeaveStep ==
    ASSUME JInv, NEW x \in Deployment, job[x].pc # "none", Returns(x) \/ Becomes(x, NoJob),
           TableStep(x), run'[x] = run[x], WorldStep(x), retry' = retry,
           x \in container' => x \in container /\ status'[x] \in Past,
           status'[x] \in Gate => Settled(x)
    PROVE  Step(x)
<1>0. Typing /\ IInv /\ Sound(x)
  BY Known
<1>1. JobOnly(x) /\ job'[x].pc = "none"
  BY <1>0, Leaves
<1>2. Standing(x)'
  BY <1>1 DEF Standing
<1>3. x \in container => Settled(x)
  BY <1>0 DEF Sound, Quiet
<1>6. "none" \notin Local
  BY DEF Local
<1>. QED
  BY <1>1, <1>2, <1>3, <1>6, Arrives

\* The goroutine moves on within its deployment, all of whose runs are settled.
LEMMA MoveStep ==
    ASSUME JInv, NEW x \in Deployment, job[x].pc # "none", JobOnly(x),
           job'[x].pc \in Local, job'[x].step >= 1,
           job'[x].pc \in InStep => job'[x].step <= Len(Plan),
           job'[x].pc \in {"check", "checking"} => job'[x].step = Len(Plan) + 1,
           TableStep(x), run'[x] = run[x], WorldStep(x), retry' = retry, Settled(x),
           x \in container' => job'[x].pc \in {"exec", "checking"},
           status'[x] \in Past \/ (status'[x] = "publishing_artifact" /\ job'[x].pc = "pause")
    PROVE  Step(x)
<1>0. job'[x].pc \notin {"none", "save"}
  BY DEF Local
<1>1. Standing(x)'
  BY <1>0 DEF Standing, Past, Terminal
<1>2. x \in container' => status'[x] \in Past
  BY DEF Past, Terminal
<1>. QED
  BY <1>0, <1>1, <1>2, Arrives

LEMMA HostStep ==
    ASSUME Typing, NEW x \in Deployment, HostUnchanged
    PROVE  WorldStep(x) /\ retry' = retry /\ container' = container
BY DEF Typing, HostUnchanged, WorldUnchanged, WorldStep

\* A local step, from its namespace to the removal of its container.
LEMMA AttemptFailsStep ==
    ASSUME JInv, NEW x \in Deployment, job[x].pc \in {"attempt", "exec"}, AttemptFails(x),
           UNCHANGED vars, WorldStep(x), retry' = retry, x \notin container'
    PROVE  Step(x)
<1>0. /\ Typing /\ IInv /\ Sound(x) /\ Settled(x) /\ status[x] \in Past
      /\ job[x].step >= 1 /\ job[x].step <= Len(Plan)
  BY Known DEF Local, InStep
<1>1. TableStep(x) /\ status'[x] = status[x] /\ run'[x] = run[x]
  BY TablesSame
<1>2. ASSUME NEW want \in Terminal, NEW wins \in BOOLEAN, want # "succeeded", Save(x, want, wins)
      PROVE  Step(x)
  BY <1>2, SaveStep
<1>3. CASE Returns(x)
  BY <1>0, <1>1, <1>3, LeaveStep
<1>4. CASE /\ job[x].attempt <= MaxRetries
           /\ Becomes(x, [job[x] EXCEPT !.pc = "attempt", !.attempt = @ + 1])
  <2>. DEFINE new == [job[x] EXCEPT !.pc = "attempt", !.attempt = @ + 1]
  <2>1. job \in [Deployment -> JobType] /\ job[x] \in JobType
    BY <1>0 DEF Typing
  <2>2. job[x].attempt + 1 \in 1..(MaxRetries + 1)
    BY <1>4, <2>1, BoundAssumption DEF JobType
  <2>3. new \in JobType /\ new.pc = "attempt" /\ new.step = job[x].step
    BY <2>1, <2>2 DEF JobType, Pc
  <2>4. job' = [job EXCEPT ![x] = new]
    BY <1>4 DEF Becomes
  <2>. HIDE DEF new
  <2>5. JobOnly(x) /\ job'[x].pc = "attempt" /\ job'[x].step = job[x].step
    BY <2>1, <2>3, <2>4 DEF JobOnly
  <2>. QED
    BY <1>0, <1>1, <2>5, MoveStep DEF Local
<1>. QED
  BY <1>2, <1>3, <1>4 DEF AttemptFails, Terminal

LEMMA LocalSteps ==
    ASSUME JInv, NEW x \in Deployment,
           \/ BeginLocal(x) \/ StartAttempt(x) \/ NoAttempt(x) \/ AttemptUnclean(x)
           \/ \E ok \in BOOLEAN : AttemptEnds(x, ok)
    PROVE  Step(x)
<1>0. Typing /\ IInv /\ Sound(x)
  BY Known
<1>1. ASSUME BeginLocal(x) PROVE Step(x)
  <2>0. /\ job[x].pc = "loop" /\ job[x].step <= Len(Plan) /\ HostUnchanged
    BY <1>1 DEF BeginLocal, At, InPlan
  <2>1. Settled(x) /\ x \notin container /\ status[x] \in Past /\ job[x].step >= 1
    BY <2>0, Known DEF Local
  <2>2. WorldStep(x) /\ retry' = retry /\ container' = container
    BY <1>0, <2>0, HostStep
  <2>3. CASE RecordNamespace(x) /\ GoTo(x, "attempt")
    <3>1. /\ TableStep(x) /\ run'[x] = run[x] /\ status'[x] = status[x]
      BY <1>0, <2>3, Records
    <3>2. JobOnly(x) /\ job'[x].pc = "attempt" /\ job'[x].step = job[x].step
      BY <1>0, <2>3, Goes DEF Pc
    <3>. QED
      BY <2>0, <2>1, <2>2, <3>1, <3>2, MoveStep DEF Local
  <2>4. CASE UNCHANGED vars /\ Returns(x)
    BY <2>0, <2>1, <2>2, <2>4, LeaveStep, TablesSame
  <2>5. CASE /\ UNCHANGED vars
             /\ Save(x, "cleanup_unconfirmed", FALSE) \/ Save(x, "failed", TRUE)
    BY <2>0, <2>1, <2>2, <2>5, SaveStep DEF Terminal
  <2>. QED
    BY <1>1, <2>3, <2>4, <2>5 DEF BeginLocal, TablesUnchanged
<1>2. ASSUME StartAttempt(x) PROVE Step(x)
  <2>1. /\ job[x].pc = "attempt" /\ container' = container \cup {x} /\ GoTo(x, "exec")
        /\ UNCHANGED vars /\ retry' = retry /\ WorldUnchanged
    BY <1>2 DEF StartAttempt, At, TablesUnchanged
  <2>2. WorldStep(x)
    BY <1>0, <2>1 DEF WorldUnchanged, WorldStep, Typing
  <2>3. Settled(x) /\ status[x] \in Past /\ job[x].step >= 1 /\ job[x].step <= Len(Plan)
    BY <2>1, Known DEF Local, InStep
  <2>4. JobOnly(x) /\ job'[x].pc = "exec" /\ job'[x].step = job[x].step
    BY <1>0, <2>1, Goes DEF Pc
  <2>5. TableStep(x) /\ status'[x] = status[x] /\ run'[x] = run[x]
    BY <2>1, TablesSame
  <2>. QED
    BY <2>1, <2>2, <2>3, <2>4, <2>5, MoveStep DEF Local
<1>3. ASSUME NoAttempt(x) PROVE Step(x)
  <2>1. job[x].pc = "attempt" /\ UNCHANGED vars /\ HostUnchanged
    BY <1>3 DEF NoAttempt, At, TablesUnchanged
  <2>2. WorldStep(x) /\ retry' = retry /\ x \notin container'
    BY <1>0, <2>1, HostStep, Known
  <2>. QED
    BY <1>3, <2>1, <2>2, AttemptFailsStep, SaveStep DEF NoAttempt, Terminal
<1>4. ASSUME AttemptUnclean(x) PROVE Step(x)
  <2>1. /\ job[x].pc = "exec" /\ UNCHANGED vars /\ HostUnchanged
        /\ Save(x, "cleanup_unconfirmed", FALSE)
    BY <1>4 DEF AttemptUnclean, At, TablesUnchanged
  <2>2. WorldStep(x) /\ retry' = retry /\ container' = container
    BY <1>0, <2>1, HostStep
  <2>. QED
    BY <2>1, <2>2, SaveStep DEF Terminal
<1>5. ASSUME NEW ok \in BOOLEAN, AttemptEnds(x, ok) PROVE Step(x)
  <2>1. /\ job[x].pc = "exec" /\ UNCHANGED vars /\ container' = container \ {x}
        /\ retry' = retry /\ WorldUnchanged
        /\ AttemptFails(x) \/ GoTo(x, "capture") \/ NextLoop(x)
    BY <1>5 DEF AttemptEnds, At, TablesUnchanged
  <2>2. WorldStep(x) /\ x \notin container'
    BY <1>0, <2>1 DEF WorldUnchanged, WorldStep, Typing
  <2>3. /\ Settled(x) /\ status[x] \in Past /\ job[x].step >= 1 /\ job[x].step <= Len(Plan)
        /\ job[x].step \in Nat
    BY <2>1, Known DEF Local, InStep
  <2>4. TableStep(x) /\ status'[x] = status[x] /\ run'[x] = run[x]
    BY <2>1, TablesSame
  <2>5. CASE AttemptFails(x)
    BY <2>1, <2>2, <2>5, AttemptFailsStep
  <2>6. CASE GoTo(x, "capture")
    <3>1. JobOnly(x) /\ job'[x].pc = "capture" /\ job'[x].step = job[x].step
      BY <1>0, <2>6, Goes DEF Pc
    <3>. QED
      BY <2>1, <2>2, <2>3, <2>4, <3>1, MoveStep DEF Local
  <2>7. CASE NextLoop(x)
    <3>1. JobOnly(x) /\ job'[x].pc = "loop" /\ job'[x].step = job[x].step + 1
      BY <1>0, <2>3, <2>7, Loops
    <3>2. job'[x].step >= 1 /\ job'[x].pc \in Local /\ job'[x].pc \notin InStep
      BY <2>3, <3>1 DEF Local, InStep
    <3>. QED
      BY <2>1, <2>2, <2>3, <2>4, <3>1, <3>2, MoveStep
  <2>. QED
    BY <2>1, <2>5, <2>6, <2>7
<1>. QED
  BY <1>1, <1>2, <1>3, <1>4, <1>5

\* The gate, and the remote step.
LEMMA GateSteps ==
    ASSUME JInv, NEW x \in Deployment, CaptureGate(x) \/ PauseGate(x)
    PROVE  Step(x)
<1>0. Typing /\ IInv /\ Sound(x)
  BY Known
<1>1. ASSUME CaptureGate(x) PROVE Step(x)
  <2>0. job[x].pc = "capture" /\ HostUnchanged
    BY <1>1 DEF CaptureGate, At
  <2>1. /\ Settled(x) /\ x \notin container /\ job[x].step >= 1 /\ job[x].step <= Len(Plan)
    BY <2>0, Known DEF Local, InStep
  <2>2. WorldStep(x) /\ retry' = retry /\ container' = container
    BY <1>0, <2>0, HostStep
  <2>3. CASE GateStep(x, "publishing_artifact") /\ GoTo(x, "pause")
    <3>1. TableStep(x) /\ run'[x] = run[x] /\ status'[x] = "publishing_artifact"
      BY <1>0, <2>3, Gates
    <3>2. JobOnly(x) /\ job'[x].pc = "pause" /\ job'[x].step = job[x].step
      BY <1>0, <2>3, Goes DEF Pc
    <3>. QED
      BY <2>0, <2>1, <2>2, <3>1, <3>2, MoveStep DEF Local
  <2>4. CASE /\ Save(x, IF job[x].cancelled THEN "cancelled" ELSE "failed", ~job[x].cancelled)
             /\ UNCHANGED vars
    <3>1. Save(x, "cancelled", FALSE) \/ Save(x, "failed", TRUE)
      <4>1. job[x].cancelled \in BOOLEAN
        BY <1>0 DEF Typing, JobType
      <4>. QED
        BY <2>4, <4>1
    <3>. QED
      BY <2>0, <2>1, <2>2, <2>4, <3>1, SaveStep DEF Terminal
  <2>. QED
    BY <1>1, <2>3, <2>4 DEF CaptureGate, TablesUnchanged
<1>2. ASSUME PauseGate(x) PROVE Step(x)
  <2>0. /\ job[x].pc = "pause"
        /\ UNCHANGED <<server, restarts, localErr, retry, container, working, outcome>>
    BY <1>2 DEF PauseGate, At
  <2>1. /\ Settled(x) /\ x \notin container /\ job[x].step >= 1 /\ job[x].step <= Len(Plan)
        /\ job[x].step \in Nat
    BY <2>0, Known DEF Local, InStep
  <2>2. CASE /\ GateStep(x, "awaiting_artifact_approval") /\ Becomes(x, NoJob)
             /\ resume' = [resume EXCEPT ![x] = job[x].step + 1]
    <3>1. TableStep(x) /\ run'[x] = run[x]
      BY <1>0, <2>2, Gates
    <3>2. job[x].step + 1 \in 1..(Len(Plan) + 1)
      BY <2>1, LenPlan
    <3>3. resume' \in [Deployment -> 1..(Len(Plan) + 1)]
      BY <1>0, <2>2, <3>2 DEF Typing
    <3>4. WorldStep(x)
      BY <1>0, <2>0, <3>3 DEF WorldStep, Typing
    <3>. QED
      BY <2>0, <2>1, <2>2, <3>1, <3>4, LeaveStep
  <2>3. CASE /\ Save(x, "cancelled", FALSE) \/ Save(x, "failed", TRUE)
             /\ UNCHANGED vars /\ UNCHANGED resume
    <3>1. WorldStep(x)
      BY <1>0, <2>0, <2>3 DEF WorldStep, Typing
    <3>. QED
      BY <2>0, <2>1, <2>3, <3>1, SaveStep DEF Terminal
  <2>. QED
    BY <1>2, <2>2, <2>3 DEF PauseGate, TablesUnchanged
<1>. QED
  BY <1>1, <1>2

\* A goroutine that polls, or is about to: its deployment is not for others.
LEMMA NotQuiet ==
    ASSUME JInv, NEW x \in Deployment, job[x].pc \in {"loop", "poll"}
    PROVE  /\ x \notin container /\ retry[x].want # "succeeded"
           /\ status[x] \in Past /\ status[x] \notin Gate
<1>1. Sound(x) /\ x \notin container /\ status[x] \in Past
  BY Known
<1>. QED
  BY <1>1 DEF Sound, Retried, Past, Gate, Terminal

LEMMA PollsOn ==
    ASSUME JInv, NEW x \in Deployment, TableStep(x), JobOnly(x), HostUnchanged,
           job[x].pc \in {"loop", "poll"}, job'[x].pc = "poll",
           job'[x].step >= 1, job'[x].step <= Len(Plan),
           status'[x] = status[x], AgentsKnown(x)'
    PROVE  Step(x)
<1>0. Typing /\ IInv /\ Sound(x)
  BY Known
<1>1. WorldStep(x) /\ retry' = retry /\ container' = container
  BY <1>0, HostStep
<1>2. Others(x) /\ Typing'
  BY <1>0, <1>1, Kept DEF Typing
<1>3. /\ x \notin container /\ retry[x].want # "succeeded"
      /\ status[x] \in Past /\ status[x] \notin Gate
  BY NotQuiet
<1>4. Standing(x)'
  BY <1>3 DEF Standing, Past, Terminal
<1>5. Quiet(x)' /\ Contained(x)' /\ Retried(x)'
  BY <1>1, <1>3 DEF Quiet, Contained, Retried, Local
<1>. QED
  BY <1>2, <1>4, <1>5 DEF Step, Sound

LEMMA RemoteSteps ==
    ASSUME JInv, NEW x \in Deployment,
           \/ \E As \in SUBSET Agent : QueueStep(x, As)
           \/ SendCancel(x) \/ Poll(x) \/ PollTimeout(x) \/ PollCancelled(x)
    PROVE  Step(x)
<1>0. Typing /\ IInv /\ Sound(x) /\ run \in [Deployment -> [Agent -> RunState]]
  BY Known DEF IInv, TypeOK
<1>1. ASSUME NEW As \in SUBSET Agent, QueueStep(x, As) PROVE Step(x)
  <2>0. job[x].pc = "loop" /\ HostUnchanged /\ job[x].step <= Len(Plan)
    BY <1>1 DEF QueueStep, At, InPlan
  <2>1. /\ Settled(x) /\ x \notin container /\ job[x].step >= 1
    BY <2>0, Known DEF Local
  <2>2. WorldStep(x) /\ retry' = retry /\ container' = container
    BY <1>0, <2>0, HostStep
  <2>3. CASE QueueRuns(x, As) /\ GoTo(x, "poll")
    <3>. DEFINE new == [a \in Agent |-> IF a \in As THEN "waiting" ELSE "none"]
    <3>1. new \in [Agent -> RunState]
      BY DEF RunState, Active
    <3>2. status[x] = "running" /\ DeploymentTx(x, status, [run EXCEPT ![x] = new], cleanup)
      BY <2>3 DEF QueueRuns
    <3>3. TableStep(x) /\ status'[x] = status[x]
      BY <1>0, <3>1, <3>2, SetRuns DEF Early
    <3>4. JobOnly(x) /\ job'[x].pc = "poll" /\ job'[x].step = job[x].step
      BY <1>0, <2>3, Goes DEF Pc
    <3>5. AgentsKnown(x)'
      <4>1. \A a \in Agent : <<x, a>> \notin working
        BY <1>0, <2>1 DEF Sound, AgentsKnown, Settled, Unresolved, OnAgent
      <4>. QED
        BY <2>2, <4>1 DEF AgentsKnown, WorldStep
    <3>. QED
      BY <2>0, <2>1, <3>3, <3>4, <3>5, PollsOn
  <2>4. CASE Save(x, "failed", FALSE) /\ UNCHANGED vars
    BY <2>0, <2>1, <2>2, <2>4, SaveStep DEF Terminal
  <2>. QED
    BY <1>1, <2>3, <2>4 DEF QueueStep, TablesUnchanged
<1>2. ASSUME NEW r \in {"no", "needed", "sent"}, job[x].pc = "poll", HostUnchanged, UNCHANGED vars,
             \/ Becomes(x, [job[x] EXCEPT !.remote = r])
             \/ Becomes(x, [job[x] EXCEPT !.operator = TRUE, !.remote = r])
      PROVE  Step(x)
  <2>1. JobOnly(x) /\ SamePlace(x)
    BY <1>0, <1>2, Flags
  <2>2. TableStep(x) /\ status'[x] = status[x] /\ run'[x] = run[x]
    BY <1>2, TablesSame
  <2>3. AgentsKnown(x)'
    BY <1>0, <1>2, <2>2 DEF Sound, AgentsKnown, HostUnchanged, WorldUnchanged
  <2>4. job[x].step >= 1 /\ job[x].step <= Len(Plan)
    BY <1>2, Known DEF InStep
  <2>. QED
    BY <1>2, <2>1, <2>2, <2>3, <2>4, PollsOn DEF SamePlace
<1>3. ASSUME SendCancel(x) PROVE Step(x)
  <2>1. /\ job[x].pc = "poll" /\ HostUnchanged /\ RequestCancel(x)
        /\ Becomes(x, [job[x] EXCEPT !.remote = "sent"])
    BY <1>3 DEF SendCancel, At
  <2>2. JobOnly(x) /\ SamePlace(x)
    BY <1>0, <2>1, Flags
  <2>3. /\ TableStep(x) /\ status'[x] = status[x]
        /\ \A a \in Agent : run'[x][a] = Cancelling(run[x][a])
    BY <1>0, <2>1 DEF RequestCancel, TableStep, Admitted
  <2>4. AgentsKnown(x)'
    BY <1>0, <2>1, <2>3 DEF Sound, AgentsKnown, HostUnchanged, WorldUnchanged, Cancelling,
                           Unresolved, OnAgent
  <2>5. job[x].step >= 1 /\ job[x].step <= Len(Plan)
    BY <2>1, Known DEF InStep
  <2>. QED
    BY <2>1, <2>2, <2>3, <2>4, <2>5, PollsOn DEF SamePlace
<1>4. ASSUME Poll(x) PROVE Step(x)
  <2>1. job[x].pc = "poll" /\ HostUnchanged /\ UNCHANGED vars
    BY <1>4 DEF Poll, At, TablesUnchanged
  <2>2. WorldStep(x) /\ retry' = retry /\ container' = container
    BY <1>0, <2>1, HostStep
  <2>3. /\ x \notin container /\ job[x].step >= 1 /\ job[x].step <= Len(Plan)
        /\ status[x] \in Past /\ job[x].step \in Nat
    BY <2>1, Known DEF InStep
  <2>4. ASSUME NEW want \in Terminal, want # "succeeded", Save(x, want, FALSE) PROVE Step(x)
    BY <2>1, <2>2, <2>3, <2>4, SaveStep
  <2>5. CASE AllSucceeded(x) /\ NextLoop(x)
    <3>1. JobOnly(x) /\ job'[x].pc = "loop" /\ job'[x].step = job[x].step + 1
      BY <1>0, <2>3, <2>5, Loops
    <3>2. job'[x].step >= 1 /\ job'[x].pc \in Local /\ job'[x].pc \notin InStep
      BY <2>3, <3>1 DEF Local, InStep
    <3>3. Settled(x)
      BY <2>5 DEF AllSucceeded, StatesOf, Settled
    <3>. QED
      BY <2>1, <2>2, <2>3, <3>1, <3>2, <3>3, MoveStep, TablesSame
  <2>6. CASE Becomes(x, [job[x] EXCEPT !.remote = "needed"])
    BY <1>2, <2>1, <2>6
  <2>. QED
    BY <1>4, <2>4, <2>5, <2>6 DEF Poll, StepDone, Terminal
<1>5. ASSUME PollTimeout(x) PROVE Step(x)
  BY <1>2, <1>5 DEF PollTimeout, At, TablesUnchanged
<1>6. ASSUME PollCancelled(x) PROVE Step(x)
  <2>1. /\ job[x].pc = "poll" /\ HostUnchanged /\ UNCHANGED vars
        /\ Becomes(x, [job[x] EXCEPT !.operator = TRUE,
                                     !.remote = IF @ = "no" THEN "needed" ELSE @])
    BY <1>6 DEF PollCancelled, At, TablesUnchanged
  <2>2. job[x].remote \in {"no", "needed", "sent"}
    BY <1>0 DEF Typing, JobType
  <2>3. PICK r \in {"no", "needed", "sent"} :
          Becomes(x, [job[x] EXCEPT !.operator = TRUE, !.remote = r])
    BY <2>1, <2>2
  <2>. QED
    BY <1>2, <2>1, <2>3
<1>. QED
  BY <1>1, <1>3, <1>4, <1>5, <1>6

\* The loop's early ends, the check, and the success it may decide.
LEMMA SucceedStep ==
    ASSUME JInv, NEW x \in Deployment, job[x].pc \in {"loop", "checking"},
           job[x].step = Len(Plan) + 1, Save(x, "succeeded", TRUE),
           UNCHANGED vars, WorldStep(x), retry' = retry, x \notin container'
    PROVE  Step(x)
<1>0. Typing /\ IInv /\ Sound(x) /\ Settled(x) /\ status[x] \in Past /\ job[x].step >= 1
  BY Known DEF Local
<1>1. /\ JobOnly(x) /\ job'[x].pc = "save" /\ job'[x].step = job[x].step
      /\ job'[x].want = "succeeded" /\ job'[x].wins = TRUE
  BY <1>0, Saves DEF Terminal
<1>2. /\ TableStep(x) /\ status'[x] = status[x] /\ run'[x] = run[x]
  BY TablesSame
<1>3. Standing(x)'
  BY <1>0, <1>1, <1>2 DEF Standing, InStep, Past, Terminal
<1>. QED
  BY <1>0, <1>1, <1>2, <1>3, Arrives

LEMMA CheckFailsStep ==
    ASSUME JInv, NEW x \in Deployment, job[x].pc \in {"check", "checking"}, CheckFails(x),
           UNCHANGED vars, WorldStep(x), retry' = retry, x \notin container'
    PROVE  Step(x)
<1>1. Save(x, "cancelled", FALSE) \/ Save(x, "failed", FALSE) \/ Save(x, "failed", TRUE)
  BY DEF CheckFails
<1>. QED
  BY <1>1, SaveStep DEF Terminal

LEMMA CheckSteps ==
    ASSUME JInv, NEW x \in Deployment,
           \/ PrepareFails(x) \/ LoopCancelled(x) \/ BeginCheck(x) \/ RunCheck(x) \/ CheckUnclean(x)
           \/ \E ok \in BOOLEAN : CheckEnds(x, ok)
    PROVE  Step(x)
<1>0. Typing /\ IInv /\ Sound(x)
  BY Known
<1>1. ASSUME PrepareFails(x) \/ LoopCancelled(x) PROVE Step(x)
  <2>1. /\ job[x].pc = "loop" /\ UNCHANGED vars /\ HostUnchanged
        /\ Save(x, "failed", TRUE) \/ Save(x, "cancelled", FALSE)
    BY <1>1 DEF PrepareFails, LoopCancelled, At, TablesUnchanged
  <2>2. WorldStep(x) /\ retry' = retry /\ x \notin container'
    BY <1>0, <2>1, HostStep, Known
  <2>. QED
    BY <2>1, <2>2, SaveStep DEF Terminal
<1>2. ASSUME BeginCheck(x) PROVE Step(x)
  <2>0. job[x].pc = "loop" /\ ~InPlan(x) /\ HostUnchanged
    BY <1>2 DEF BeginCheck, At
  <2>1. /\ Settled(x) /\ x \notin container /\ status[x] \in Past /\ job[x].step >= 1
        /\ job[x].step \in Nat /\ job[x].step <= Len(Plan) + 1
    BY <2>0, Known DEF Local
  <2>2. job[x].step = Len(Plan) + 1
    BY <2>0, <2>1, LenPlan DEF InPlan
  <2>3. WorldStep(x) /\ retry' = retry /\ container' = container
    BY <1>0, <2>0, HostStep
  <2>4. CASE Save(x, "succeeded", TRUE) /\ UNCHANGED vars
    BY <2>0, <2>1, <2>2, <2>3, <2>4, SucceedStep
  <2>5. CASE GoTo(x, "checking") /\ UNCHANGED vars
    <3>1. JobOnly(x) /\ job'[x].pc = "checking" /\ job'[x].step = job[x].step
      BY <1>0, <2>5, Goes DEF Pc
    <3>. QED
      BY <2>0, <2>1, <2>2, <2>3, <2>5, <3>1, MoveStep, TablesSame DEF Local, InStep
  <2>6. CASE RecordNamespace(x) /\ GoTo(x, "check")
    <3>1. JobOnly(x) /\ job'[x].pc = "check" /\ job'[x].step = job[x].step
      BY <1>0, <2>6, Goes DEF Pc
    <3>2. /\ TableStep(x) /\ run'[x] = run[x] /\ status'[x] = status[x]
      BY <1>0, <2>6, Records
    <3>. QED
      BY <2>0, <2>1, <2>2, <2>3, <3>1, <3>2, MoveStep DEF Local, InStep
  <2>7. CASE Save(x, "cleanup_unconfirmed", FALSE) /\ UNCHANGED vars
    BY <2>0, <2>1, <2>3, <2>7, SaveStep DEF Terminal
  <2>. QED
    BY <1>2, <2>4, <2>5, <2>6, <2>7 DEF BeginCheck, TablesUnchanged
<1>3. ASSUME RunCheck(x) PROVE Step(x)
  <2>1. /\ job[x].pc = "check" /\ UNCHANGED vars /\ retry' = retry /\ WorldUnchanged
        /\ \/ container' = container \cup {x} /\ GoTo(x, "checking")
           \/ container' = container /\ CheckFails(x)
    BY <1>3 DEF RunCheck, At, TablesUnchanged
  <2>2. WorldStep(x)
    BY <1>0, <2>1 DEF WorldUnchanged, WorldStep, Typing
  <2>3. Settled(x) /\ status[x] \in Past /\ x \notin container /\ job[x].step >= 1
    BY <2>1, Known DEF Local
  <2>4. job[x].step = Len(Plan) + 1
    BY <1>0, <2>1 DEF Sound, Standing
  <2>5. CASE container' = container \cup {x} /\ GoTo(x, "checking")
    <3>1. JobOnly(x) /\ job'[x].pc = "checking" /\ job'[x].step = job[x].step
      BY <1>0, <2>5, Goes DEF Pc
    <3>. QED
      BY <2>1, <2>2, <2>3, <2>4, <3>1, MoveStep, TablesSame DEF Local, InStep
  <2>. QED
    BY <2>1, <2>2, <2>3, <2>5, CheckFailsStep
<1>4. ASSUME NEW ok \in BOOLEAN, CheckEnds(x, ok) PROVE Step(x)
  <2>1. /\ job[x].pc = "checking" /\ UNCHANGED vars /\ retry' = retry /\ WorldUnchanged
        /\ container' = container \ {x}
        /\ CheckFails(x) \/ Save(x, "cancelled", FALSE) \/ Save(x, "succeeded", TRUE)
    BY <1>4 DEF CheckEnds, At, TablesUnchanged
  <2>2. WorldStep(x) /\ x \notin container'
    BY <1>0, <2>1 DEF WorldUnchanged, WorldStep, Typing
  <2>3. job[x].step = Len(Plan) + 1
    BY <1>0, <2>1 DEF Sound, Standing
  <2>. QED
    BY <2>1, <2>2, <2>3, CheckFailsStep, SaveStep, SucceedStep DEF Terminal
<1>5. ASSUME CheckUnclean(x) PROVE Step(x)
  <2>1. /\ job[x].pc = "checking" /\ UNCHANGED vars /\ HostUnchanged
        /\ Save(x, "cleanup_unconfirmed", FALSE)
    BY <1>5 DEF CheckUnclean, At, TablesUnchanged
  <2>2. WorldStep(x) /\ retry' = retry /\ container' = container
    BY <1>0, <2>1, HostStep
  <2>. QED
    BY <2>1, <2>2, SaveStep DEF Terminal
<1>. QED
  BY <1>1, <1>2, <1>3, <1>4, <1>5

\* Completion.  What a goroutine wants is terminal, and a success is wanted
\* only of a deployment that stands where Standing says.
LEMMA WantedType ==
    ASSUME JInv, NEW x \in Deployment, job[x].pc = "save", NEW clean \in BOOLEAN
    PROVE  /\ Wanted(x, clean) \in Terminal
           /\ Wanted(x, clean) = "succeeded" => job[x].want = "succeeded"
<1>1. job[x] \in JobType /\ job[x].want # "none"
  BY DEF JInv, Typing, Sound, Standing
<1>2. job[x].want \in Terminal
  BY <1>1 DEF JobType
<1>. QED
  BY <1>2 DEF Wanted, Terminal

LEMMA CompletedPast ==
    ASSUME NEW x \in Deployment, status[x] \in Past \cup {"publishing_artifact"},
           NEW want \in {"succeeded", "failed", "cancelled", "cleanup_unconfirmed"}
    PROVE  CompletedStatus(x, want) \in Terminal
BY DEF CompletedStatus, Past, Terminal, Executing

LEMMA PersistSteps ==
    ASSUME JInv, NEW x \in Deployment, NEW clean \in BOOLEAN,
           Persist(x, clean) \/ PersistFails(x, clean)
    PROVE  Step(x)
<1>0. Typing /\ IInv /\ Sound(x)
  BY Known
<1>1. job[x].pc = "save" /\ Becomes(x, NoJob)
  BY DEF Persist, PersistFails, At
<1>2. ASSUME Persist(x, clean) PROVE Step(x)
  <2>1. Complete(x, Wanted(x, clean), clean) /\ HostUnchanged
    BY <1>2 DEF Persist
  <2>2. WorldStep(x) /\ retry' = retry /\ container' = container
    BY <1>0, <2>1, HostStep
  <2>3. status[x] \in Past \cup {"publishing_artifact"}
    BY <1>0, <1>1 DEF Sound, Standing
  <2>4. /\ TableStep(x) /\ run' = run
        /\ Wanted(x, clean) \in {"succeeded", "failed", "cancelled", "cleanup_unconfirmed"}
        /\ \/ status'[x] = CompletedStatus(x, Wanted(x, clean))
           \/ status[x] = "queued" /\ status'[x] = "pending"
    BY <1>0, <2>1, Completes
  <2>5. status'[x] \in Terminal
    BY <2>3, <2>4, CompletedPast DEF Past, Terminal
  <2>6. status'[x] \in Past /\ status'[x] \notin Gate
    BY <2>5 DEF Past, Gate, Terminal
  <2>. QED
    BY <1>1, <2>2, <2>4, <2>6, LeaveStep
<1>3. ASSUME PersistFails(x, clean) PROVE Step(x)
  <2>. DEFINE new == [want |-> Wanted(x, clean), clean |-> clean,
                      wins |-> clean /\ job[x].wins /\ job[x].tied]
  <2>1. /\ UNCHANGED vars /\ WorldUnchanged /\ container' = container
        /\ retry' = retry \/ retry' = [retry EXCEPT ![x] = new]
    BY <1>3 DEF PersistFails, TablesUnchanged
  <2>2. new.want = Wanted(x, clean) /\ new \in Completion
    <3>1. job[x].wins \in BOOLEAN /\ job[x].tied \in BOOLEAN
      BY <1>0 DEF Typing, JobType
    <3>. QED
      BY <1>1, <3>1, WantedType DEF Completion
  <2>. HIDE DEF new
  <2>3. JobOnly(x) /\ job'[x].pc = "none"
    BY <1>0, <1>1, Leaves
  <2>4. WorldStep(x)
    BY <1>0, <2>1 DEF WorldUnchanged, WorldStep, Typing
  <2>5. TableStep(x) /\ status'[x] = status[x] /\ run'[x] = run[x]
    BY <2>1, TablesSame
  <2>6. /\ retry' \in [Deployment -> Completion \cup {NoRetry}]
        /\ \A d \in Deployment : d # x => retry'[d] = retry[d]
        /\ retry'[x] = retry[x] \/ retry'[x] = new
    BY <1>0, <2>1, <2>2 DEF Typing
  <2>7. Others(x) /\ Typing'
    BY <1>0, <2>3, <2>4, <2>5, <2>6, Kept
  <2>8. retry'[x].want = "succeeded" =>
          job[x].want = "succeeded" /\ status[x] \in Past /\ x \notin container /\ Settled(x)
    <3>1. retry[x].want # "succeeded"
      BY <1>0, <1>1 DEF Sound, Retried
    <3>2. retry'[x].want = "succeeded" => job[x].want = "succeeded"
      BY <1>1, <2>2, <2>6, <3>1, WantedType
    <3>. QED
      BY <1>0, <1>1, <3>2 DEF Sound, Standing, Quiet
  <2>9. Settled(x)' <=> Settled(x)
    BY <2>5 DEF Settled
  <2>10. AgentsKnown(x)' /\ Standing(x)' /\ Retried(x)'
    BY <1>0, <2>1, <2>3, <2>5, <2>8 DEF Sound, AgentsKnown, Standing, Retried, WorldUnchanged
  <2>11. Quiet(x)' /\ Contained(x)'
    BY <1>0, <1>1, <2>1, <2>3, <2>5, <2>8, <2>9 DEF Sound, Quiet, Contained, Local
  <2>. QED
    BY <2>7, <2>10, <2>11 DEF Step, Sound
<1>. QED
  BY <1>2, <1>3

\* The background retry: the goroutine, if there is one again, stays put.
LEMMA RetryStep ==
    ASSUME JInv, NEW x \in Deployment, RetryCompletion(x)
    PROVE  Step(x)
<1>0. Typing /\ IInv /\ Sound(x)
  BY Known
<1>1. /\ retry' = [retry EXCEPT ![x] = NoRetry] /\ WorldUnchanged /\ container' = container
      /\ \/ /\ Complete(x, retry[x].want, retry[x].clean)
            /\ job' = [job EXCEPT ![x].known = FALSE]
         \/ UNCHANGED vars /\ UNCHANGED job
  BY DEF RetryCompletion, TablesUnchanged
<1>2. /\ retry' \in [Deployment -> Completion \cup {NoRetry}] /\ retry'[x].want # "succeeded"
      /\ \A d \in Deployment : d # x => retry'[d] = retry[d]
  BY <1>0, <1>1 DEF Typing, NoRetry
<1>3. WorldStep(x)
  BY <1>0, <1>1 DEF WorldUnchanged, WorldStep, Typing
<1>4. JobOnly(x) /\ SamePlace(x)
  <2>1. job' = job => JobOnly(x) /\ SamePlace(x)
    BY <1>0 DEF JobOnly, SamePlace, Typing
  <2>. QED
    BY <1>0, <1>1, <2>1, Flags
<1>5. /\ TableStep(x) /\ run'[x] = run[x]
      /\ \/ status'[x] = status[x]
         \/ status[x] = "queued" /\ status'[x] = "pending"
         \/ status'[x] \in Terminal
  <2>1. CASE UNCHANGED vars
    BY <2>1, TablesSame
  <2>2. CASE Complete(x, retry[x].want, retry[x].clean)
    <3>. DEFINE want == retry[x].want
    <3>1. /\ TableStep(x) /\ run' = run /\ status[x] \notin {"none", "pending_approval"}
          /\ want \in {"succeeded", "failed", "cancelled", "cleanup_unconfirmed"}
          /\ \/ status'[x] = CompletedStatus(x, want)
             \/ status[x] = "queued" /\ status'[x] = "pending"
      BY <1>0, <2>2, Completes
    <3>2. CASE status[x] = "queued"
      BY <3>1, <3>2 DEF CompletedStatus, Terminal
    <3>3. CASE status[x] # "queued"
      BY <3>1, <3>3 DEF CompletedStatus, Terminal
    <3>. QED
      BY <3>2, <3>3
  <2>. QED
    BY <1>1, <2>1, <2>2
<1>6. Others(x) /\ Typing'
  BY <1>0, <1>2, <1>3, <1>4, <1>5, Kept
<1>7. Settled(x)' <=> Settled(x)
  BY <1>5 DEF Settled
<1>8. AgentsKnown(x)'
  BY <1>0, <1>3, <1>5 DEF Sound, AgentsKnown, WorldStep
<1>9. CASE status'[x] = status[x]
  BY <1>0, <1>1, <1>2, <1>4, <1>6, <1>7, <1>8, <1>9
     DEF Step, Sound, Quiet, Standing, Contained, Retried, SamePlace
<1>10. CASE status[x] = "queued" /\ status'[x] = "pending"
  <2>1. job[x].pc = "none" /\ x \notin container /\ Settled(x)
    BY <1>10, EarlyIsIdle DEF Early
  <2>. QED
    BY <1>1, <1>2, <1>4, <1>6, <1>7, <1>8, <2>1
       DEF Step, Sound, Quiet, Standing, Contained, Retried, SamePlace
<1>11. CASE status'[x] \in Terminal
  <2>1. status'[x] \in Past /\ status'[x] \notin Gate /\ status'[x] # "publishing_artifact"
    BY <1>11 DEF Past, Gate, Terminal
  <2>. QED
    BY <1>0, <1>1, <1>2, <1>4, <1>6, <1>7, <1>8, <2>1
       DEF Step, Sound, Quiet, Standing, Contained, Retried, SamePlace
<1>. QED
  BY <1>5, <1>9, <1>10, <1>11

\* A deployment nobody executes: it is launched, or ends without that.
LEMMA LaunchStep ==
    ASSUME JInv, NEW x \in Deployment, NEW tied \in BOOLEAN, Launch(x, tied)
    PROVE  Step(x)
<1>. DEFINE new == [NoJob EXCEPT !.pc = "loop", !.step = resume[x], !.known = TRUE, !.tied = tied]
<1>0. Typing /\ IInv /\ Sound(x)
  BY Known
<1>1. StartLocal(x) /\ HostUnchanged /\ job' = [job EXCEPT ![x] = new]
  BY DEF Launch, Becomes
<1>2. /\ TableStep(x) /\ run' = run /\ cleanup' = cleanup
      /\ status[x] \in {"queued", "pending"} /\ status'[x] = "running"
  BY <1>0, <1>1, Starts
<1>3. Settled(x) /\ x \notin container /\ retry[x].want # "succeeded"
  BY <1>2, EarlyIsIdle DEF Early
<1>4. resume[x] \in 1..(Len(Plan) + 1)
  BY <1>0 DEF Typing
<1>5. resume[x] \in 0..(Len(Plan) + 1) /\ resume[x] >= 1
  BY <1>4, LenPlan
<1>6. new \in JobType /\ new.pc = "loop" /\ new.step = resume[x]
  BY <1>5, Ranges DEF NoJob, JobType, Pc
<1>. HIDE DEF new
<1>7. JobOnly(x) /\ job'[x].pc = "loop" /\ job'[x].step >= 1
  BY <1>0, <1>1, <1>5, <1>6 DEF JobOnly, Typing
<1>8. WorldStep(x) /\ retry' = retry /\ container' = container
  BY <1>0, <1>1, HostStep
<1>9. Others(x) /\ Typing'
  BY <1>0, <1>2, <1>7, <1>8, Kept DEF Typing
<1>10. AgentsKnown(x)'
  BY <1>0, <1>2, <1>8 DEF Sound, AgentsKnown, WorldStep
<1>11. Settled(x)'
  BY <1>2, <1>3 DEF Settled
<1>12. Standing(x)'
  BY <1>2, <1>7 DEF Standing, InStep, Past
<1>13. Quiet(x)' /\ Contained(x)' /\ Retried(x)'
  BY <1>3, <1>8, <1>11 DEF Quiet, Contained, Retried
<1>. QED
  BY <1>9, <1>10, <1>12, <1>13 DEF Step, Sound

LEMMA IdleStep ==
    ASSUME JInv, NEW x \in Deployment, TableStep(x), run'[x] = run[x],
           status[x] \in Early \cup {"pending", "awaiting_artifact_approval"},
           retry' \in [Deployment -> Completion \cup {NoRetry}],
           \A d \in Deployment : d # x => retry'[d] = retry[d],
           retry'[x].want # "succeeded", job' = job, container' = container, WorldUnchanged
    PROVE  Step(x)
<1>0. Typing /\ IInv /\ Sound(x)
  BY Known
<1>1. job[x].pc = "none" /\ x \notin container /\ Settled(x)
  BY EarlyIsIdle
<1>2. WorldStep(x) /\ JobOnly(x)
  BY <1>0 DEF WorldUnchanged, WorldStep, Typing, JobOnly
<1>3. Others(x) /\ Typing'
  BY <1>0, <1>2, Kept
<1>4. AgentsKnown(x)'
  BY <1>0, <1>2 DEF Sound, AgentsKnown, WorldStep
<1>5. Settled(x)'
  BY <1>1 DEF Settled
<1>6. Standing(x)' /\ Quiet(x)' /\ Contained(x)' /\ Retried(x)'
  BY <1>1, <1>5 DEF Standing, Quiet, Contained, Retried
<1>. QED
  BY <1>3, <1>4, <1>6 DEF Step, Sound

LEMMA AdmissionStep ==
    ASSUME JInv, NEW x \in Deployment, NEW tied \in BOOLEAN, AdmissionFails(x, tied)
    PROVE  Step(x)
<1>. DEFINE new == [want |-> "failed", clean |-> TRUE, wins |-> tied]
<1>0. Typing /\ IInv /\ Sound(x)
  BY Known
<1>1. /\ status[x] = "pending" /\ WorldUnchanged /\ job' = job /\ container' = container
      /\ \/ Complete(x, "failed", TRUE) /\ retry' = retry
         \/ UNCHANGED vars /\ retry' = [retry EXCEPT ![x] = new]
  BY DEF AdmissionFails, TablesUnchanged
<1>2. TableStep(x) /\ run'[x] = run[x]
  BY <1>0, <1>1, Completes, TablesSame
<1>3. new \in Completion /\ new.want # "succeeded"
  BY DEF Completion, Terminal
<1>. HIDE DEF new
<1>4. retry[x].want # "succeeded"
  BY <1>1, EarlyIsIdle
<1>5. /\ retry' \in [Deployment -> Completion \cup {NoRetry}] /\ retry'[x].want # "succeeded"
      /\ \A d \in Deployment : d # x => retry'[d] = retry[d]
  BY <1>0, <1>1, <1>3, <1>4 DEF Typing
<1>. QED
  BY <1>1, <1>2, <1>5, IdleStep

\* The operator.
LEMMA OperatorSteps ==
    ASSUME JInv, NEW x \in Deployment, Cancel(x) \/ Request(x)
    PROVE  Step(x)
<1>0. Typing /\ IInv /\ Sound(x)
  BY Known
<1>1. ASSUME Cancel(x) PROVE Step(x)
  <2>1. /\ Becomes(x, [job[x] EXCEPT !.cancelled = TRUE]) /\ UNCHANGED vars /\ HostUnchanged
    BY <1>1 DEF Cancel, TablesUnchanged
  <2>2. JobOnly(x) /\ SamePlace(x)
    BY <1>0, <2>1, Flags
  <2>3. WorldStep(x) /\ retry' = retry /\ container' = container
    BY <1>0, <2>1, HostStep
  <2>4. TableStep(x) /\ status'[x] = status[x] /\ run'[x] = run[x]
    BY <2>1, TablesSame
  <2>5. Others(x) /\ Typing'
    BY <1>0, <2>2, <2>3, <2>4, Kept DEF Typing
  <2>6. Settled(x)' <=> Settled(x)
    BY <2>4 DEF Settled
  <2>7. AgentsKnown(x)'
    BY <1>0, <2>3, <2>4 DEF Sound, AgentsKnown, WorldStep
  <2>. QED
    BY <1>0, <2>2, <2>3, <2>4, <2>5, <2>6, <2>7
       DEF Step, Sound, Quiet, Standing, Contained, Retried, SamePlace
<1>2. ASSUME Request(x) PROVE Step(x)
  <2>1. /\ UNCHANGED runnerVars
        /\ \/ Create(x, "queued") \/ CancelQueued(x)
           \/ \E st \in {"pending", "rejected", "cancelled"} : GateStep(x, st)
    BY <1>2 DEF Request
  <2>2. job' = job /\ container' = container /\ retry' = retry /\ WorldUnchanged
    BY <2>1 DEF runnerVars, WorldUnchanged
  <2>3. /\ TableStep(x) /\ run'[x] = run[x]
        /\ status[x] \in Early \cup {"pending", "awaiting_artifact_approval"}
    <3>1. CASE Create(x, "queued")
      BY <1>0, <3>1, SetStatus DEF Create, Early, Status
    <3>2. CASE CancelQueued(x)
      BY <1>0, <3>2, SetStatus DEF CancelQueued, Early, Status, Terminal
    <3>3. ASSUME NEW st \in {"pending", "rejected", "cancelled"}, GateStep(x, st)
          PROVE  /\ TableStep(x) /\ run'[x] = run[x]
                 /\ status[x] = "awaiting_artifact_approval"
      <4>1. TableStep(x) /\ run' = run /\ <<status[x], st>> \in GateEdge
        BY <1>0, <3>3, Gates
      <4>. QED
        BY <3>3, <4>1 DEF GateEdge
    <3>. QED
      BY <2>1, <3>1, <3>2, <3>3
  <2>4. retry[x].want # "succeeded"
    BY <2>3, EarlyIsIdle
  <2>. QED
    BY <1>0, <2>2, <2>3, <2>4, IdleStep DEF Typing
<1>. QED
  BY <1>1, <1>2

LEMMA JobSteps ==
    ASSUME JInv, NEW x \in Deployment, JobStep(x)
    PROVE  Step(x)
<1>1. ASSUME NEW tied \in Tied, Launch(x, tied) \/ AdmissionFails(x, tied) PROVE Step(x)
  <2>1. tied \in BOOLEAN
    BY DEF Tied
  <2>. QED
    BY <1>1, <2>1, LaunchStep, AdmissionStep
<1>. QED
  BY <1>1, LocalSteps, GateSteps, RemoteSteps, CheckSteps, PersistSteps, RetryStep DEF JobStep

-----------------------------------------------------------------------------
(* Agents.  Whatever agent a does about x concerns a run that is not       *)
(* settled, so nothing that needs x quiet is going on.                     *)

LEMMA AgentMove ==
    ASSUME JInv, NEW x \in Deployment, NEW a \in Agent, TableStep(x), status'[x] = status[x],
           UNCHANGED <<server, restarts, localErr, job, retry, resume, container>>,
           run[x][a] \notin {"none", "succeeded"},
           working' \in SUBSET (Deployment \X Agent), outcome' \in [Deployment -> [Agent -> Outcome]],
           \A d \in Deployment : d # x =>
               /\ outcome'[d] = outcome[d]
               /\ \A b \in Agent : <<d, b>> \in working' <=> <<d, b>> \in working,
           AgentsKnown(x)'
    PROVE  Step(x)
<1>0. Typing /\ IInv /\ Sound(x)
  BY Known
<1>1. Others(x) /\ Typing'
  BY <1>0 DEF Others, Bystander, TableStep, Typing
<1>2. ~Settled(x)
  BY DEF Settled
<1>3. Quiet(x)'
  BY <1>0, <1>2 DEF Sound, Quiet
<1>4. Standing(x)' /\ Contained(x)' /\ Retried(x)'
  BY <1>0 DEF Sound, Standing, Contained, Retried
<1>. QED
  BY <1>1, <1>3, <1>4 DEF Step, Sound

LEMMA AgentSteps ==
    ASSUME JInv, NEW x \in Deployment, NEW a \in Agent, AgentStep(x, a)
    PROVE  Step(x)
<1>0. /\ Typing /\ IInv /\ Sound(x)
      /\ run \in [Deployment -> [Agent -> RunState]] /\ run[x] \in [Agent -> RunState]
      /\ working \in SUBSET (Deployment \X Agent) /\ outcome \in [Deployment -> [Agent -> Outcome]]
  BY Known DEF IInv, TypeOK, Typing
<1>k. \A b \in Agent : <<x, b>> \in working =>
        /\ run[x][b] \in Unresolved \ {"claimed"}
        /\ outcome[x][b] \in {"none", "cleanup_unconfirmed"}
  BY <1>0 DEF Sound, AgentsKnown
<1>1. ASSUME AgentClaims(x, a) PROVE Step(x)
  <2>1. /\ run[x][a] = "waiting" /\ DeploymentTx(x, status, SetRun(x, a, "claimed"), cleanup)
        /\ outcome' = [outcome EXCEPT ![x][a] = "none"]
        /\ UNCHANGED <<server, restarts, localErr, job, retry, resume, container, working>>
    BY <1>1 DEF AgentClaims, Claim
  <2>2. /\ TableStep(x) /\ status'[x] = status[x]
        /\ run'[x][a] = "claimed" /\ \A b \in Agent : b # a => run'[x][b] = run[x][b]
    BY <1>0, <2>1, SetOneRun DEF RunState, Active
  <2>3. <<x, a>> \notin working
    BY <1>k, <2>1 DEF Unresolved, OnAgent
  <2>4. /\ outcome' \in [Deployment -> [Agent -> Outcome]]
        /\ \A d \in Deployment : d # x => outcome'[d] = outcome[d]
        /\ \A b \in Agent : b # a => outcome'[x][b] = outcome[x][b]
    BY <1>0, <2>1 DEF Outcome
  <2>5. AgentsKnown(x)'
    BY <1>0, <1>k, <2>1, <2>2, <2>3, <2>4 DEF AgentsKnown
  <2>. QED
    BY <1>0, <2>1, <2>2, <2>4, <2>5, AgentMove
<1>2. ASSUME AgentStarts(x, a) PROVE Step(x)
  <2>1. /\ outcome[x][a] = "none" /\ working' = working \cup {<<x, a>>}
        /\ UNCHANGED <<server, restarts, localErr, job, retry, resume, container, outcome>>
        /\ \/ StartRun(x, a)
           \/ run[x][a] = "cancel_requested" /\ UNCHANGED vars
    BY <1>2 DEF AgentStarts, TablesUnchanged
  <2>2. /\ TableStep(x) /\ status'[x] = status[x]
        /\ \A b \in Agent : b # a => run'[x][b] = run[x][b]
        /\ run'[x][a] \in Unresolved \ {"claimed"} /\ run[x][a] \notin {"none", "succeeded"}
    <3>1. CASE StartRun(x, a)
      <4>1. /\ run[x][a] = "claimed" /\ run' = SetRun(x, a, "started")
            /\ UNCHANGED <<status, cleanup>>
        BY <3>1 DEF StartRun
      <4>2. /\ TableStep(x) /\ status'[x] = status[x]
            /\ run'[x][a] = "started" /\ \A b \in Agent : b # a => run'[x][b] = run[x][b]
        <5>1. "started" \in RunState /\ run[x][a] # "none"
          BY <4>1 DEF RunState, Active
        <5>. QED
          BY <1>0, <4>1, <5>1, SetOneRun
      <4>. QED
        BY <1>0, <4>1, <4>2 DEF Unresolved, OnAgent
    <3>2. CASE run[x][a] = "cancel_requested" /\ UNCHANGED vars
      BY <3>2, TablesSame DEF Unresolved, OnAgent
    <3>. QED
      BY <2>1, <3>1, <3>2
  <2>3. /\ working' \in SUBSET (Deployment \X Agent)
        /\ \A d \in Deployment, b \in Agent :
             (d # x \/ b # a) => (<<d, b>> \in working' <=> <<d, b>> \in working)
    BY <1>0, <2>1
  <2>4. AgentsKnown(x)'
    BY <1>k, <2>1, <2>2, <2>3 DEF AgentsKnown
  <2>. QED
    BY <1>0, <2>1, <2>2, <2>3, <2>4, AgentMove
<1>3. ASSUME NEW result \in Outcome \ {"none"}, AgentEnds(x, a, result) PROVE Step(x)
  <2>1. /\ <<x, a>> \in working /\ outcome' = [outcome EXCEPT ![x][a] = result]
        /\ working' = IF result = "cleanup_unconfirmed" THEN working ELSE working \ {<<x, a>>}
        /\ UNCHANGED vars
        /\ UNCHANGED <<server, restarts, localErr, job, retry, resume, container>>
    BY <1>3 DEF AgentEnds, TablesUnchanged
  <2>2. /\ TableStep(x) /\ status'[x] = status[x] /\ run'[x] = run[x]
    BY <2>1, TablesSame
  <2>3. /\ outcome' \in [Deployment -> [Agent -> Outcome]]
        /\ \A d \in Deployment : d # x => outcome'[d] = outcome[d]
        /\ \A b \in Agent : b # a => outcome'[x][b] = outcome[x][b]
        /\ outcome'[x][a] = result
    BY <1>0, <2>1
  <2>4. /\ working' \in SUBSET (Deployment \X Agent)
        /\ \A d \in Deployment, b \in Agent :
             (d # x \/ b # a) => (<<d, b>> \in working' <=> <<d, b>> \in working)
        /\ <<x, a>> \in working' => result = "cleanup_unconfirmed"
    BY <1>0, <2>1
  <2>5. AgentsKnown(x)'
    BY <1>k, <2>1, <2>2, <2>3, <2>4 DEF AgentsKnown
  <2>6. run[x][a] \notin {"none", "succeeded"}
    BY <1>k, <2>1 DEF Unresolved, OnAgent
  <2>. QED
    BY <2>1, <2>2, <2>3, <2>4, <2>5, <2>6, AgentMove
<1>4. ASSUME AgentReports(x, a) PROVE Step(x)
  <2>. DEFINE result == outcome[x][a]
  <2>1. /\ result # "none" /\ UNCHANGED runnerVars
        /\ result \in {"succeeded", "failed", "cleanup_unconfirmed"}
        /\ run[x][a] \in {"started", "lost", "cancel_unconfirmed", "cancel_requested"}
        /\ DeploymentTx(x, status, SetRun(x, a, result), cleanup)
    BY <1>4 DEF AgentReports, FinishRun
  <2>2. /\ TableStep(x) /\ status'[x] = status[x]
        /\ run'[x][a] = result /\ \A b \in Agent : b # a => run'[x][b] = run[x][b]
    <3>1. result \in RunState /\ run[x][a] # "none"
      BY <2>1 DEF RunState, Cleanup
    <3>2. DeploymentTx(x, status, SetRun(x, a, result), cleanup)
      BY <2>1
    <3>. HIDE DEF result
    <3>. QED
      BY <1>0, <3>1, <3>2, SetOneRun
  <2>3. UNCHANGED <<server, restarts, localErr, job, retry, resume, container, working, outcome>>
    BY <2>1 DEF runnerVars
  <2>4. AgentsKnown(x)'
    BY <1>0, <1>k, <2>1, <2>2, <2>3 DEF AgentsKnown, Unresolved, OnAgent
  <2>. QED
    BY <1>0, <2>1, <2>2, <2>3, <2>4, AgentMove
<1>5. ASSUME AgentAcks(x, a) PROVE Step(x)
  <2>1. /\ <<x, a>> \notin working /\ UNCHANGED runnerVars
        /\ run[x][a] \in {"cancel_requested", "cancel_unconfirmed"}
        /\ DeploymentTx(x, status, SetRun(x, a, "cancelled"), cleanup)
    BY <1>5 DEF AgentAcks, AckCancel
  <2>2. /\ TableStep(x) /\ status'[x] = status[x]
        /\ run'[x][a] = "cancelled" /\ \A b \in Agent : b # a => run'[x][b] = run[x][b]
    BY <1>0, <2>1, SetOneRun DEF RunState
  <2>3. UNCHANGED <<server, restarts, localErr, job, retry, resume, container, working, outcome>>
    BY <2>1 DEF runnerVars
  <2>4. AgentsKnown(x)'
    BY <1>0, <1>k, <2>1, <2>2, <2>3 DEF AgentsKnown
  <2>. QED
    BY <1>0, <2>1, <2>2, <2>3, <2>4, AgentMove
<1>6. ASSUME AgentReconciles(x, a) PROVE Step(x)
  <2>1. /\ run[x][a] = "cleanup_unconfirmed" /\ working' = working \ {<<x, a>>} /\ UNCHANGED vars
        /\ UNCHANGED <<server, restarts, localErr, job, retry, resume, container, outcome>>
    BY <1>6 DEF AgentReconciles, TablesUnchanged
  <2>2. /\ TableStep(x) /\ status'[x] = status[x] /\ run'[x] = run[x]
    BY <2>1, TablesSame
  <2>3. /\ working' \in SUBSET (Deployment \X Agent)
        /\ \A d \in Deployment, b \in Agent :
             (d # x \/ b # a) => (<<d, b>> \in working' <=> <<d, b>> \in working)
        /\ <<x, a>> \notin working'
    BY <1>0, <2>1
  <2>4. AgentsKnown(x)'
    BY <1>k, <2>1, <2>2, <2>3 DEF AgentsKnown
  <2>. QED
    BY <1>0, <2>1, <2>2, <2>3, <2>4, AgentMove
<1>. QED
  BY <1>1, <1>2, <1>3, <1>4, <1>5, <1>6 DEF AgentStep

-----------------------------------------------------------------------------
(* The server.  A maintenance pass concerns every deployment: it may admit  *)
(* or end one, settles no run that an agent executes and unsettles none.    *)

Open == Executing \cup {"failed", "cleanup_unconfirmed"}

Maintained(d, st, rn) ==
    /\ st[d] = status[d] \/ (status[d] \in Open /\ st[d] \in Terminal \ {"succeeded"})
    /\ Settled(d) => \A a \in Agent : rn[d][a] \in {"none", "succeeded"}
    /\ \A a \in Agent : <<d, a>> \in working => rn[d][a] \in Unresolved \ {"claimed"}

LEMMA MaintainedSound ==
    ASSUME JInv, NEW d \in Deployment, NEW st, NEW rn, Maintained(d, st, rn), Admitted(d, st),
           run' = rn, job'[d] = job[d], retry'[d] = retry[d], d \in container' => d \in container,
           outcome'[d] = outcome[d],
           \A a \in Agent : <<d, a>> \in working' <=> <<d, a>> \in working
    PROVE  Sound(d)'
<1>0. Typing /\ IInv /\ Sound(d)
  BY Known
<1>1. AgentsKnown(d)'
  BY <1>0 DEF Sound, AgentsKnown, Maintained
<1>2. Settled(d) => Settled(d)'
  BY DEF Settled, Maintained
<1>3. CASE status'[d] = status[d]
  BY <1>0, <1>1, <1>2, <1>3 DEF Sound, Quiet, Standing, Contained, Retried
<1>4. CASE status[d] = "queued" /\ status'[d] = "pending"
  <2>1. job[d].pc = "none" /\ d \notin container /\ retry[d].want # "succeeded" /\ Settled(d)
    BY <1>4, EarlyIsIdle DEF Early
  <2>. QED
    BY <1>1, <1>2, <2>1 DEF Sound, Quiet, Standing, Contained, Retried
<1>5. CASE status'[d] \in Terminal
  <2>1. status'[d] \in Past /\ status'[d] \notin Gate /\ status'[d] # "publishing_artifact"
    BY <1>5 DEF Past, Gate, Terminal
  <2>. QED
    BY <1>0, <1>1, <1>2, <2>1 DEF Sound, Quiet, Standing, Contained, Retried
<1>. QED
  BY <1>3, <1>4, <1>5 DEF Admitted, Maintained, Open, Executing, Terminal

\* What becomes of the statuses, and that no success is left to a retry.
Passes ==
    \A d \in Deployment :
        /\ \/ Admitted(d, status)
           \/ status[d] \in Open /\ status'[d] \in Terminal \ {"succeeded"}
        /\ retry'[d].want = "succeeded" => retry[d].want = "succeeded"

\* So a pass that maintains every deployment keeps the invariant.
LEMMA PassStep ==
    ASSUME JInv, IInv', NEW E, NEW st \in [Deployment -> Status], NEW rn, NEW cl,
           Commit(E, st, rn, cl), \A d \in Deployment : Maintained(d, st, rn),
           UNCHANGED <<restarts, job, retry, resume, working, outcome>>,
           server' \in {"down", "listening", "up", "draining", "stopping"},
           localErr' \in BOOLEAN, container' \in SUBSET container
    PROVE  JInv' /\ Passes
<1>1. (\A d \in Deployment : Admitted(d, st)) /\ run' = rn
  BY Advanced
<1>2. \A d \in Deployment : Sound(d)'
  BY <1>1, MaintainedSound
<1>3. Typing'
  BY DEF JInv, Typing
<1>4. Passes
  BY <1>1 DEF Passes, Admitted, Maintained, Open, Executing, Terminal
<1>. QED
  BY <1>2, <1>3, <1>4 DEF JInv

LEMMA FailTerminalOnly ==
    ASSUME NEW rn, status \in [Deployment -> Status]
    PROVE  /\ FailTerminal(status, rn) \in [Deployment -> Status]
           /\ \A d \in Deployment :
                 \/ FailTerminal(status, rn)[d] = status[d]
                 \/ /\ status[d] \in Open
                    /\ FailTerminal(status, rn)[d] \in Terminal \ {"succeeded"}
<1>. DEFINE bad(e) == \E a \in Agent : rn[e][a] \in Cleanup
            ends(e) == /\ status[e] = "running" \/ (status[e] = "failed" /\ bad(e))
                       /\ \E a \in Agent :
                             \/ rn[e][a] \in {"failed", "lost", "cancel_unconfirmed"} \cup Cleanup
                             \/ rn[e][a] = "cancelled" /\ <<e, a>> \in recovered
                       /\ \A a \in Agent : rn[e][a] \notin Active
<1>1. FailTerminal(status, rn) =
        [e \in Deployment |-> IF ends(e) THEN IF bad(e) THEN "cleanup_unconfirmed" ELSE "failed"
                              ELSE status[e]]
  BY DEF FailTerminal
<1>2. \A e \in Deployment : ends(e) => status[e] \in {"running", "failed"}
  OBVIOUS
<1>. HIDE DEF bad, ends
<1>. QED
  BY <1>1, <1>2 DEF Status, Open, Executing, Terminal

LEMMA RevokedRun ==
    ASSUME run \in [Deployment -> [Agent -> RunState]], NEW a \in Agent
    PROVE  /\ Revoked(a, run) \in [Deployment -> [Agent -> RunState]]
           /\ \A d \in Deployment, b \in Agent :
                 /\ b # a => Revoked(a, run)[d][b] = run[d][b]
                 /\ run[d][b] \in Unresolved \ {"claimed"} =>
                        Revoked(a, run)[d][b] \in Unresolved \ {"claimed"}
                 /\ run[d][b] \in {"none", "succeeded"} => Revoked(a, run)[d][b] = run[d][b]
BY DEF Revoked, Unresolved, OnAgent, RunState, Active

LEMMA UpkeepStep == ASSUME JInv, IInv', Upkeep \/ \E a \in Agent : AgentPolls(a) PROVE JInv' /\ Passes
<1>0. /\ Typing /\ IInv /\ status \in [Deployment -> Status]
      /\ run \in [Deployment -> [Agent -> RunState]]
  BY DEF JInv, IInv, TypeOK
<1>w. \A d \in Deployment, a \in Agent : <<d, a>> \in working => run[d][a] \in Unresolved \ {"claimed"}
  BY DEF JInv, Sound, AgentsKnown
<1>u. /\ UNCHANGED <<restarts, job, retry, resume, working, outcome>> /\ container' = container
      /\ server' \in {"down", "listening", "up", "draining", "stopping"}
      /\ localErr' \in BOOLEAN
  BY <1>0 DEF Upkeep, AgentPolls, runnerVars, Typing
<1>1. ASSUME NEW due \in SUBSET (Deployment \X Agent), Maintain(due) PROVE JInv' /\ Passes
  <2>. DEFINE rn == [d \in Deployment |-> [a \in Agent |->
                        IF <<d, a>> \in due THEN Overdue(run[d][a]) ELSE run[d][a]]]
              st == FailTerminal(status, rn)
  <2>1. Commit(QueueScopes, st, rn, cleanup)
    BY <1>1 DEF Maintain, MaintenanceTx
  <2>2. \A d \in Deployment, a \in Agent :
          /\ run[d][a] \in Unresolved \ {"claimed"} => rn[d][a] \in Unresolved \ {"claimed"}
          /\ run[d][a] \in {"none", "succeeded"} => rn[d][a] = run[d][a]
    BY DEF Overdue, Unresolved, OnAgent
  <2>. HIDE DEF rn
  <2>3. /\ st \in [Deployment -> Status]
        /\ \A d \in Deployment : st[d] = status[d] \/ (status[d] \in Open /\ st[d] \in Terminal \ {"succeeded"})
    BY <1>0, FailTerminalOnly
  <2>. HIDE DEF st
  <2>4. \A d \in Deployment : Maintained(d, st, rn)
    BY <1>w, <2>2, <2>3 DEF Maintained, Settled
  <2>. QED
    BY <1>u, <2>1, <2>3, <2>4, PassStep
<1>2. ASSUME NEW a \in Agent, RevokeAgent(a) PROVE JInv' /\ Passes
  <2>. DEFINE rn == Revoked(a, run)
              st == FailTerminal(status, rn)
  <2>1. Commit(QueueScopes, st, rn, cleanup)
    BY <1>2 DEF RevokeAgent, MaintenanceTx
  <2>2. \A d \in Deployment, b \in Agent :
          /\ run[d][b] \in Unresolved \ {"claimed"} => rn[d][b] \in Unresolved \ {"claimed"}
          /\ run[d][b] \in {"none", "succeeded"} => rn[d][b] = run[d][b]
    BY <1>0, RevokedRun
  <2>. HIDE DEF rn
  <2>3. /\ st \in [Deployment -> Status]
        /\ \A d \in Deployment : st[d] = status[d] \/ (status[d] \in Open /\ st[d] \in Terminal \ {"succeeded"})
    BY <1>0, FailTerminalOnly
  <2>. HIDE DEF st
  <2>4. \A d \in Deployment : Maintained(d, st, rn)
    BY <1>w, <2>2, <2>3 DEF Maintained, Settled
  <2>. QED
    BY <1>u, <2>1, <2>3, <2>4, PassStep
<1>3. ASSUME NEW a \in Agent, NEW revoked \in BOOLEAN, DeleteAgent(a, revoked) PROVE JInv' /\ Passes
  <2>. DEFINE rv == IF revoked THEN run ELSE Revoked(a, run)
              st == IF revoked THEN status ELSE FailTerminal(status, rv)
              rn == [d \in Deployment |-> [rv[d] EXCEPT ![a] = "none"]]
              cl == [d \in Deployment |-> IF Preserved(d, a, st, rv) THEN "preserved" ELSE cleanup[d]]
  <2>1. Commit(QueueScopes, st, rn, cl) /\ \A d \in Deployment : run[d][a] \notin Unresolved
    BY <1>3 DEF DeleteAgent, MaintenanceTx
  <2>2. /\ rv \in [Deployment -> [Agent -> RunState]]
        /\ \A d \in Deployment, b \in Agent : b # a => rv[d][b] = run[d][b]
    BY <1>0, RevokedRun
  <2>3. /\ st \in [Deployment -> Status]
        /\ \A d \in Deployment : st[d] = status[d] \/ (status[d] \in Open /\ st[d] \in Terminal \ {"succeeded"})
    BY <1>0, FailTerminalOnly
  <2>. HIDE DEF rv
  <2>4. \A d \in Deployment, b \in Agent :
          rn[d][b] = IF b = a THEN "none" ELSE run[d][b]
    BY <2>2
  <2>. HIDE DEF st, rn, cl
  <2>5. \A d \in Deployment : <<d, a>> \notin working
    BY <1>w, <2>1
  <2>6. \A d \in Deployment : Maintained(d, st, rn)
    BY <1>w, <2>3, <2>4, <2>5 DEF Maintained, Settled
  <2>. QED
    BY <1>u, <2>1, <2>3, <2>6, PassStep
<1>4. ASSUME NEW D \in SUBSET Deployment, ExpireGates(D) PROVE JInv' /\ Passes
  <2>. DEFINE st == [d \in Deployment |-> IF d \in D THEN "expired" ELSE status[d]]
  <2>1. /\ Commit(QueueScopes, st, run, cleanup)
        /\ \A d \in D : status[d] \in {"awaiting_artifact_approval", "pending"}
    BY <1>4 DEF ExpireGates, MaintenanceTx
  <2>2. /\ st \in [Deployment -> Status]
        /\ \A d \in Deployment : st[d] = status[d] \/ (status[d] \in Open /\ st[d] \in Terminal \ {"succeeded"})
    BY <1>0, <2>1 DEF Status, Open, Executing, Terminal
  <2>. HIDE DEF st
  <2>3. \A d \in Deployment : Maintained(d, st, run)
    BY <1>w, <2>2 DEF Maintained, Settled
  <2>. QED
    BY <1>u, <2>1, <2>2, <2>3, PassStep
<1>5. ASSUME NEW e \in Env, Reconcile(e) PROVE JInv' /\ Passes
  <2>1. Commit({s \in QueueScopes : EnvOf[s] = e}, status, run, cleanup)
    BY <1>5 DEF Reconcile
  <2>2. \A d \in Deployment : Maintained(d, status, run)
    BY <1>w DEF Maintained, Settled
  <2>. QED
    BY <1>0, <1>u, <2>1, <2>2, PassStep
<1>6. ASSUME NEW a \in Agent, AgentPolls(a) PROVE JInv' /\ Passes
  <2>1. PICK failed \in SUBSET Deployment : AgentPoll(a, TRUE, failed)
    BY <1>6 DEF AgentPolls
  <2>. DEFINE rn == [d \in Deployment |-> [run[d] EXCEPT ![a] =
                        IF @ = "cleanup_unconfirmed" THEN "cleanup_confirmed"
                        ELSE IF d \in failed /\ @ = "waiting" THEN "failed" ELSE @]]
  <2>2. Commit(QueueScopes, status, rn, cleanup)
    BY <2>1 DEF AgentPoll, MaintenanceTx
  <2>3. \A d \in Deployment, b \in Agent :
          /\ b # a => rn[d][b] = run[d][b]
          /\ run[d][b] \in {"none", "succeeded"} => rn[d][b] = run[d][b]
    BY <1>0
  <2>. HIDE DEF rn
  <2>4. \A d \in Deployment : <<d, a>> \notin working
    BY <1>6 DEF AgentPolls, Idle
  <2>5. \A d \in Deployment : Maintained(d, status, rn)
    BY <1>w, <2>3, <2>4 DEF Maintained, Settled
  <2>. QED
    BY <1>0, <1>u, <2>2, <2>5, PassStep
<1>7. ASSUME Upkeep PROVE JInv' /\ Passes
  <2>1. ASSUME NEW D \in SUBSET {d \in Deployment : resume[d] > 1}, ExpireGates(D) PROVE JInv' /\ Passes
    BY <1>4, <2>1
  <2>. QED
    BY <1>1, <1>2, <1>3, <1>5, <1>7, <2>1 DEF Upkeep
<1>. QED
  BY <1>6, <1>7

\* The restart: containers are removed and what was in flight is ended.
LEMMA RestartStep == ASSUME JInv, IInv', Boot \/ Recover PROVE JInv' /\ Passes
<1>0. /\ Typing /\ IInv /\ status \in [Deployment -> Status]
      /\ run \in [Deployment -> [Agent -> RunState]]
  BY DEF JInv, IInv, TypeOK
<1>w. \A d \in Deployment, a \in Agent : <<d, a>> \in working => run[d][a] \in Unresolved \ {"claimed"}
  BY DEF JInv, Sound, AgentsKnown
<1>u. /\ UNCHANGED <<restarts, job, retry, resume, working, outcome>>
      /\ server' \in {"down", "listening", "up", "draining", "stopping"}
      /\ localErr' \in BOOLEAN /\ container' \in SUBSET container
  BY <1>0 DEF Boot, Recover, Typing
<1>1. CASE UNCHANGED vars
  <2>1. \A d \in Deployment : Sound(d)'
    <3>. TAKE d \in Deployment
    <3>1. Maintained(d, status, run) /\ Admitted(d, status)
      BY <1>1, <1>w DEF Maintained, Settled, Admitted, vars
    <3>2. run' = run
      BY <1>1 DEF vars
    <3>. QED
      BY <1>u, <3>1, <3>2, MaintainedSound
  <2>. QED
    BY <1>0, <1>1, <1>u, <2>1 DEF JInv, Typing, Passes, Admitted, vars
<1>2. CASE ConfirmContainerCleanup
  <2>. DEFINE Confirmed(d) == /\ status[d] \in {"running", "publishing_artifact", "cleanup_unconfirmed"}
                              /\ cleanup[d] = "namespace"
              uncertain(d) == \E a \in Agent : run[d][a] \in Cleanup
              st == [d \in Deployment |-> IF Confirmed(d) /\ ~uncertain(d) THEN "failed" ELSE status[d]]
              cl == [d \in Deployment |-> IF Confirmed(d) THEN "none" ELSE cleanup[d]]
  <2>1. Commit(QueueScopes, st, run, cl)
    BY <1>2 DEF ConfirmContainerCleanup, MaintenanceTx
  <2>. HIDE DEF uncertain
  <2>2. /\ st \in [Deployment -> Status]
        /\ \A d \in Deployment : st[d] = status[d] \/ (status[d] \in Open /\ st[d] \in Terminal \ {"succeeded"})
    BY <1>0 DEF Status, Open, Executing, Terminal
  <2>. HIDE DEF st, cl
  <2>3. \A d \in Deployment : Maintained(d, st, run)
    BY <1>w, <2>2 DEF Maintained, Settled
  <2>. QED
    BY <1>u, <2>1, <2>2, <2>3, PassStep
<1>3. CASE RecoverPending
  <2>. DEFINE orphan == {p \in Deployment \X Agent :
                             status[p[1]] = "running" /\ run[p[1]][p[2]] \in Active}
              rn == [d \in Deployment |-> [a \in Agent |->
                        IF <<d, a>> \in orphan THEN Cancelling(run[d][a]) ELSE run[d][a]]]
              inFlight(d) == status[d] \in {"running", "publishing_artifact"}
              onAgent(d) == \E a \in Agent : rn[d][a] \in OnAgent
              idle(d) == \A a \in Agent : rn[d][a] # "cancel_requested"
              st == [d \in Deployment |->
                        IF inFlight(d) /\ cleanup[d] = "namespace" /\ ~onAgent(d)
                        THEN "cleanup_unconfirmed"
                        ELSE IF inFlight(d) /\ idle(d) THEN "failed" ELSE status[d]]
  <2>1. Commit(QueueScopes, st, rn, cleanup)
    BY <1>3 DEF RecoverPending, MaintenanceTx
  <2>. HIDE DEF orphan
  <2>2. \A d \in Deployment, a \in Agent :
          /\ run[d][a] \in Unresolved \ {"claimed"} => rn[d][a] \in Unresolved \ {"claimed"}
          /\ run[d][a] \in {"none", "succeeded"} => rn[d][a] = run[d][a]
    BY DEF Cancelling, Unresolved, OnAgent
  <2>. HIDE DEF rn, onAgent, idle
  <2>3. /\ st \in [Deployment -> Status]
        /\ \A d \in Deployment : st[d] = status[d] \/ (status[d] \in Open /\ st[d] \in Terminal \ {"succeeded"})
    BY <1>0 DEF Status, Open, Executing, Terminal
  <2>. HIDE DEF st
  <2>4. \A d \in Deployment : Maintained(d, st, rn)
    BY <1>w, <2>2, <2>3 DEF Maintained, Settled
  <2>. QED
    BY <1>u, <2>1, <2>3, <2>4, PassStep
<1>. QED
  BY <1>1, <1>2, <1>3 DEF Boot, Recover, TablesUnchanged

\* The process ends, is told to stop, or closes admission.
LEMMA StopStep == ASSUME JInv, IInv', Crash \/ Exit \/ Signal \/ KillAll
                  PROVE  JInv' /\ Passes
<1>0. Typing /\ \A d \in Deployment : Sound(d)
  BY DEF JInv
<1>v. UNCHANGED <<status, run, cleanup, resume, container, working, outcome, localErr>>
  BY DEF Crash, Exit, Die, Signal, KillAll, TablesUnchanged, vars
<1>1. CASE Die /\ restarts' \in 0..MaxRestarts
  <2>1. /\ server' = "down" /\ job' = [d \in Deployment |-> NoJob]
        /\ retry' = [d \in Deployment |-> NoRetry]
    BY <1>1 DEF Die
  <2>2. NoJob \in JobType /\ NoJob.pc = "none"
    BY NoJobType
  <2>3. \A d \in Deployment : job'[d].pc = "none" /\ retry'[d].want # "succeeded"
    BY <2>1, <2>2 DEF NoRetry
  <2>4. Typing'
    BY <1>0, <1>1, <1>v, <2>1, <2>2 DEF Typing
  <2>5. \A d \in Deployment : Sound(d)'
    BY <1>0, <1>v, <2>3
       DEF Sound, AgentsKnown, Quiet, Standing, Contained, Retried, Settled, Local
  <2>. QED
    BY <1>v, <2>3, <2>4, <2>5 DEF JInv, Passes, Admitted
<1>2. CASE Signal \/ KillAll
  <2>1. /\ restarts' \in 0..MaxRestarts
        /\ server' \in {"down", "listening", "up", "draining", "stopping"}
    <3>1. /\ restarts' = restarts \/ (restarts < MaxRestarts /\ restarts' = restarts + 1)
          /\ server' = "draining" \/ server' = "stopping"
      BY <1>2 DEF Signal, KillAll
    <3>2. restarts \in 0..MaxRestarts
      BY <1>0 DEF Typing
    <3>3. restarts' \in 0..MaxRestarts
      BY <3>1, <3>2, BoundAssumption
    <3>. QED
      BY <3>1, <3>3
  <2>2. /\ job' \in [Deployment -> JobType]
        /\ \A d \in Deployment : SamePlace(d)
    <3>1. ASSUME NEW d \in Deployment, NEW c \in BOOLEAN
          PROVE  LET new == [job[d] EXCEPT !.cancelled = c] IN
                 /\ new \in JobType /\ new.pc = job[d].pc /\ new.step = job[d].step
                 /\ new.want = job[d].want /\ new.wins = job[d].wins
      BY <1>0 DEF Typing, JobType
    <3>2. \A d \in Deployment : /\ job[d].cancelled \in BOOLEAN /\ job[d].tied \in BOOLEAN
                                /\ job[d].known \in BOOLEAN
      BY <1>0 DEF Typing, JobType
    <3>3. CASE job' = [d \in Deployment |-> [job[d] EXCEPT !.cancelled = @ \/ job[d].tied]]
      BY <3>1, <3>2, <3>3 DEF SamePlace
    <3>4. CASE job' = [d \in Deployment |-> [job[d] EXCEPT !.cancelled = @ \/ job[d].known]]
      BY <3>1, <3>2, <3>4 DEF SamePlace
    <3>. QED
      BY <1>2, <3>3, <3>4 DEF Signal, KillAll
  <2>3. /\ retry' \in [Deployment -> Completion \cup {NoRetry}]
        /\ \A d \in Deployment : retry'[d].want = "succeeded" => retry[d].want = "succeeded"
    <3>1. CASE retry' = retry
      BY <1>0, <3>1 DEF Typing
    <3>2. CASE retry' = [d \in Deployment |->
                           IF retry[d].wins THEN [retry[d] EXCEPT !.want = "cancelled", !.wins = FALSE]
                           ELSE retry[d]]
      <4>1. ASSUME NEW d \in Deployment, retry[d].wins
            PROVE  LET new == [retry[d] EXCEPT !.want = "cancelled", !.wins = FALSE] IN
                   new \in Completion /\ new.want # "succeeded"
        <5>1. retry[d] \in Completion
          BY <1>0, <4>1 DEF Typing, NoRetry
        <5>. QED
          BY <5>1 DEF Completion, Terminal
      <4>. QED
        BY <1>0, <3>2, <4>1 DEF Typing
    <3>. QED
      BY <1>2, <3>1, <3>2 DEF Signal, KillAll
  <2>4. Typing'
    BY <1>0, <1>v, <2>1, <2>2, <2>3 DEF Typing
  <2>5. \A d \in Deployment : Sound(d)'
    BY <1>0, <1>v, <2>2, <2>3
       DEF Sound, AgentsKnown, Quiet, Standing, Contained, Retried, Settled, SamePlace
  <2>. QED
    BY <1>v, <2>3, <2>4, <2>5 DEF JInv, Passes, Admitted
<1>3. Crash \/ Exit => Die /\ restarts' \in 0..MaxRestarts
  BY <1>0, BoundAssumption DEF Crash, Exit, Typing
<1>. QED
  BY <1>1, <1>2, <1>3

\* Every step of the server, its agents and its operators.
LEMMA TablesKeep == JInv /\ [RNext]_allVars => IInv'
<1>1. RNext => [Next]_vars
  BY JobStepIsStep, OutsideIsStep, ServerIsStep DEF RNext
<1>2. IInv /\ UNCHANGED vars => IInv'
  BY DEF IInv, TypeOK, SlotOwned, Occupies, vars
<1>3. IInv /\ Next => IInv'
  BY NextStep DEF GoodStep
<1>4. UNCHANGED allVars => UNCHANGED vars
  BY DEF allVars
<1>. QED
  BY <1>1, <1>2, <1>3, <1>4 DEF JInv

LEMMA ServerInvariant == RSpec => []JInv
<1>1. RInit => JInv
  <2>. SUFFICES ASSUME RInit PROVE JInv
    OBVIOUS
  <2>1. NoJob \in JobType /\ NoJob.pc = "none"
    BY NoJobType
  <2>2. 1 \in 1..(Len(Plan) + 1) /\ 0 \in 0..MaxRestarts
    BY LenPlan, BoundAssumption
  <2>3. Typing
    BY <2>1, <2>2 DEF RInit, Typing, Outcome
  <2>4. IInv /\ \A d \in Deployment : status[d] = "none"
    BY InitInv DEF RInit, Init
  <2>5. \A d \in Deployment : Sound(d)
    BY <2>1, <2>4 DEF RInit, NoRetry, Sound, AgentsKnown, Quiet, Standing, Contained, Retried,
                      Local, Gate
  <2>. QED
    BY <2>3, <2>4, <2>5 DEF JInv
<1>2. JInv /\ [RNext]_allVars => JInv'
  <2>. SUFFICES ASSUME JInv, [RNext]_allVars PROVE JInv'
    OBVIOUS
  <2>0. IInv'
    BY TablesKeep
  <2>1. ASSUME NEW x \in Deployment, Step(x) PROVE JInv'
    BY <2>0, <2>1, StepOf DEF Step
  <2>2. CASE UNCHANGED allVars
    <3>1. UNCHANGED <<status, run, cleanup>> /\ UNCHANGED runnerVars
      BY <2>2 DEF allVars, vars
    <3>2. \A d \in Deployment : Bystander(d)
      BY <3>1 DEF Bystander, Admitted, runnerVars
    <3>3. Typing'
      BY <3>1 DEF JInv, Typing, runnerVars
    <3>. QED
      BY <2>0, <3>2, <3>3, BystanderSound DEF JInv
  <2>3. ASSUME NEW x \in Deployment, JobStep(x) \/ Cancel(x) \/ Request(x) PROVE JInv'
    BY <2>1, <2>3, JobSteps, OperatorSteps
  <2>4. ASSUME NEW x \in Deployment, NEW a \in Agent, AgentStep(x, a) PROVE JInv'
    BY <2>1, <2>4, AgentSteps
  <2>. QED
    BY <2>0, <2>2, <2>3, <2>4, UpkeepStep, StopStep, RestartStep DEF RNext
<1>. QED
  BY <1>1, <1>2, PTL DEF RSpec

-----------------------------------------------------------------------------
(* What follows.                                                           *)

\* The goroutines stay within their plan and their retry budget, the tables
\* within their constraints, across any number of crashes and retries.
THEOREM RunnerTypeCorrect == RSpec => []RTypeOK
<1>1. JInv => RTypeOK
  BY DEF JInv, Typing, JobType, IInv, RTypeOK
<1>. QED
  BY <1>1, ServerInvariant, PTL

\* No container of a deployment runs while an agent executes one of its steps:
\* a remote step is over, for every agent, before the next step begins, and
\* neither a crash, a retry nor a cancellation changes that.
THEOREM StepsOneByOne == RSpec => []StepsSequential
<1>1. JInv => StepsSequential
  <2>. SUFFICES ASSUME JInv, NEW d \in container, NEW a \in Agent, <<d, a>> \in working
                PROVE  FALSE
    BY DEF StepsSequential, OnAgents
  <2>1. d \in Deployment /\ Sound(d)
    BY DEF JInv, Typing
  <2>2. run[d][a] \in {"none", "succeeded"}
    BY <2>1 DEF Sound, Quiet, Settled
  <2>3. run[d][a] \in Unresolved
    BY <2>1 DEF Sound, AgentsKnown
  <2>. QED
    BY <2>2, <2>3 DEF Unresolved, OnAgent
<1>. QED
  BY <1>1, ServerInvariant, PTL

-----------------------------------------------------------------------------
(* Outcomes.  Only the completion of a goroutine, at once or by a retry,    *)
(* records a success or replaces an outcome that is meant to be final.      *)

Final == {"succeeded", "cancelled", "rejected", "expired"}

Plain(x) ==
    /\ status'[x] = status[x] \/ (status[x] \notin Final /\ status'[x] # "succeeded")
    /\ retry'[x].want = "succeeded" => retry[x].want = "succeeded"

Effect(x) ==
    \/ Plain(x)
    \/ \E clean \in BOOLEAN : Persist(x, clean) \/ PersistFails(x, clean)
    \/ RetryCompletion(x)

LEMMA JobEffect ==
    ASSUME JInv, NEW x \in Deployment, JobStep(x) \/ Cancel(x) \/ Request(x)
    PROVE  Effect(x)
<1>0. Typing /\ IInv /\ status[x] \in Status
  BY Known DEF IInv, TypeOK
<1>1. ASSUME NEW tied \in Tied, Launch(x, tied) PROVE Plain(x)
  <2>1. StartLocal(x) /\ retry' = retry
    BY <1>1 DEF Launch, HostUnchanged
  <2>2. status[x] \in {"queued", "pending"} /\ status'[x] = "running"
    BY <1>0, <2>1, Starts
  <2>. QED
    BY <2>1, <2>2 DEF Plain, Final
<1>2. ASSUME NEW tied \in Tied, AdmissionFails(x, tied) PROVE Plain(x)
  <2>1. status[x] = "pending"
    BY <1>2 DEF AdmissionFails
  <2>2. CASE Complete(x, "failed", TRUE) /\ UNCHANGED retry
    <3>1. status'[x] = CompletedStatus(x, "failed")
      BY <1>0, <2>1, <2>2, Completes
    <3>. QED
      BY <2>1, <2>2, <3>1 DEF CompletedStatus, Plain, Final, Terminal
  <2>3. CASE /\ UNCHANGED vars
             /\ retry' = [retry EXCEPT ![x] = [want |-> "failed", clean |-> TRUE, wins |-> tied]]
    BY <1>0, <2>3 DEF Plain, vars, Typing
  <2>. QED
    BY <1>2, <2>2, <2>3 DEF AdmissionFails, TablesUnchanged
<1>3. ASSUME NEW As \in SUBSET Agent, QueueStep(x, As) PROVE Plain(x)
  <2>1. retry' = retry /\ (UNCHANGED vars \/ QueueRuns(x, As))
    BY <1>3 DEF QueueStep, HostUnchanged, TablesUnchanged
  <2>2. CASE QueueRuns(x, As)
    <3>1. Commit(EnvScopes(x), status, [run EXCEPT ![x] = [a \in Agent |-> IF a \in As THEN "waiting" ELSE "none"]], cleanup)
      BY <2>2 DEF QueueRuns, DeploymentTx
    <3>2. Admitted(x, status)
      BY <1>0, <3>1, Advanced DEF IInv, TypeOK
    <3>. QED
      BY <2>1, <3>2 DEF Plain, Admitted, Final
  <2>. QED
    BY <2>1, <2>2 DEF Plain, vars
<1>4. ASSUME BeginLocal(x) \/ BeginCheck(x) \/ SendCancel(x) PROVE Plain(x)
  <2>1. retry' = retry /\ (UNCHANGED vars \/ RecordNamespace(x) \/ RequestCancel(x))
    BY <1>4 DEF BeginLocal, BeginCheck, SendCancel, HostUnchanged, TablesUnchanged
  <2>. QED
    BY <2>1 DEF Plain, vars, RecordNamespace, RequestCancel
<1>5. ASSUME CaptureGate(x) \/ PauseGate(x) PROVE Plain(x)
  <2>1. /\ retry' = retry
        /\ \/ UNCHANGED vars
           \/ \E st \in {"publishing_artifact", "awaiting_artifact_approval"} : GateStep(x, st)
    BY <1>5 DEF CaptureGate, PauseGate, HostUnchanged, TablesUnchanged
  <2>2. ASSUME NEW st \in {"publishing_artifact", "awaiting_artifact_approval"}, GateStep(x, st)
        PROVE  status'[x] = st /\ status[x] \notin Final
    BY <1>0, <2>2, Gates DEF GateEdge, Final
  <2>. QED
    BY <2>1, <2>2 DEF Plain, vars
<1>6. ASSUME \/ PrepareFails(x) \/ LoopCancelled(x) \/ StartAttempt(x) \/ NoAttempt(x)
             \/ \E ok \in BOOLEAN : AttemptEnds(x, ok) \/ CheckEnds(x, ok)
             \/ AttemptUnclean(x) \/ CheckUnclean(x)
             \/ Poll(x) \/ PollTimeout(x) \/ PollCancelled(x) \/ RunCheck(x) \/ Cancel(x)
      PROVE  Plain(x)
  <2>1. UNCHANGED vars /\ UNCHANGED retry
    BY <1>6 DEF PrepareFails, LoopCancelled, StartAttempt, NoAttempt, AttemptEnds, CheckEnds,
                AttemptUnclean, CheckUnclean, Poll, PollTimeout, PollCancelled, RunCheck, Cancel,
                TablesUnchanged, HostUnchanged
  <2>. QED
    BY <2>1 DEF Plain, vars
<1>7. ASSUME Request(x) PROVE Plain(x)
  <2>1. retry' = retry
    BY <1>7 DEF Request, runnerVars
  <2>2. CASE Create(x, "queued")
    <3>1. status[x] = "none" /\ (status'[x] = "queued" \/ status'[x] = "pending")
      BY <1>0, <2>2, SetStatus DEF Create, Status, Early
    <3>. QED
      BY <2>1, <3>1 DEF Plain, Final
  <2>3. CASE CancelQueued(x)
    <3>1. status[x] \in {"queued", "pending_approval", "pending"} /\ status'[x] = "cancelled"
      BY <1>0, <2>3, SetStatus DEF CancelQueued, Status, Terminal
    <3>. QED
      BY <2>1, <3>1 DEF Plain, Final
  <2>4. ASSUME NEW st \in {"pending", "rejected", "cancelled"}, GateStep(x, st) PROVE Plain(x)
    <3>1. status'[x] = st /\ status[x] \notin Final
      BY <1>0, <2>4, Gates DEF GateEdge, Final
    <3>. QED
      BY <2>1, <3>1 DEF Plain
  <2>. QED
    BY <1>7, <2>2, <2>3, <2>4 DEF Request
<1>. QED
  BY <1>1, <1>2, <1>3, <1>4, <1>5, <1>6, <1>7 DEF Effect, JobStep

LEMMA AgentEffect ==
    ASSUME JInv, NEW x \in Deployment, NEW a \in Agent, AgentStep(x, a)
    PROVE  Plain(x)
<1>0. IInv /\ status \in [Deployment -> Status]
  BY Known DEF IInv, TypeOK
<1>1. /\ retry' = retry
      /\ \/ UNCHANGED vars \/ StartRun(x, a) \/ AckCancel(x, a)
         \/ \E result \in {"claimed", outcome[x][a]} :
                DeploymentTx(x, status, SetRun(x, a, result), cleanup)
  BY DEF AgentStep, AgentClaims, AgentStarts, AgentReports, AgentAcks, AgentEnds, AgentReconciles,
         runnerVars, TablesUnchanged, Claim, FinishRun
<1>2. Admitted(x, status)
  <2>1. ASSUME NEW rn, DeploymentTx(x, status, rn, cleanup) PROVE Admitted(x, status)
    BY <1>0, <2>1, Advanced DEF DeploymentTx
  <2>. QED
    BY <1>1, <2>1 DEF Admitted, vars, StartRun, AckCancel
<1>. QED
  BY <1>1, <1>2 DEF Plain, Admitted, Final

\* So every step is plain for a deployment, or completes it.
LEMMA StepEffect ==
    ASSUME JInv, RNext, NEW d \in Deployment
    PROVE  Effect(d)
<1>0. IInv'
  BY TablesKeep
<1>1. ASSUME NEW x \in Deployment, Others(x), x # d PROVE Effect(d)
  BY <1>1 DEF Others, Bystander, Effect, Plain, Admitted, Final
<1>2. ASSUME Passes PROVE Effect(d)
  BY <1>2 DEF Passes, Effect, Plain, Admitted, Final, Open, Executing, Terminal
<1>3. ASSUME NEW x \in Deployment, JobStep(x) \/ Cancel(x) \/ Request(x) PROVE Effect(d)
  <2>1. Others(x)
    BY <1>3, JobSteps, OperatorSteps DEF Step
  <2>. QED
    BY <1>1, <1>3, <2>1, JobEffect
<1>4. ASSUME NEW x \in Deployment, NEW a \in Agent, AgentStep(x, a) PROVE Effect(d)
  <2>1. Others(x)
    BY <1>4, AgentSteps DEF Step
  <2>. QED
    BY <1>1, <1>4, <2>1, AgentEffect DEF Effect
<1>. QED
  BY <1>0, <1>2, <1>3, <1>4, UpkeepStep, StopStep, RestartStep DEF RNext

\* A success is decided only at the end of the plan and never against a
\* cancellation that was accepted; when it is recorded every remote run has
\* succeeded and neither a container nor an agent works for the deployment.
THEOREM SuccessIsHonest == RSpec => SuccessHonest
<1>. DEFINE Honest(d) ==
       /\ DecidesSuccess(d) => ~job[d].cancelled /\ job[d].step = Len(Plan) + 1
       /\ status[d] # "succeeded" /\ status'[d] = "succeeded" =>
              /\ \A a \in Agent : run[d][a] \in {"none", "succeeded"}
              /\ d \notin container /\ ~OnAgents(d)
<1>1. ASSUME JInv, RNext, NEW d \in Deployment PROVE Honest(d)
  <2>0. Typing /\ IInv /\ Sound(d) /\ Effect(d)
    BY <1>1, Known, StepEffect
  <2>1. ASSUME Settled(d) PROVE ~OnAgents(d)
    BY <2>0, <2>1 DEF Settled, OnAgents, Sound, AgentsKnown, Unresolved, OnAgent
  <2>2. ASSUME NEW clean \in BOOLEAN, job[d].pc = "save", Wanted(d, clean) = "succeeded"
        PROVE  /\ ~job[d].cancelled /\ job[d].step = Len(Plan) + 1
               /\ Settled(d) /\ d \notin container
    <3>1. job[d].want = "succeeded" /\ ~(job[d].wins /\ job[d].cancelled)
      BY <2>2 DEF Wanted
    <3>. QED
      BY <2>0, <2>2, <3>1 DEF Sound, Standing, Quiet
  <2>3. CASE Plain(d)
    BY <2>3 DEF Plain, DecidesSuccess
  <2>4. ASSUME NEW clean \in BOOLEAN, Persist(d, clean) PROVE Honest(d)
    <3>1. job[d].pc = "save" /\ Complete(d, Wanted(d, clean), clean) /\ retry' = retry
      BY <2>4 DEF Persist, At, HostUnchanged
    <3>2. \/ status'[d] = CompletedStatus(d, Wanted(d, clean))
          \/ status[d] = "queued" /\ status'[d] = "pending"
      BY <2>0, <3>1, Completes
    <3>3. status[d] # "succeeded" /\ status'[d] = "succeeded" => Wanted(d, clean) = "succeeded"
      BY <3>2 DEF CompletedStatus
    <3>. QED
      BY <2>1, <2>2, <3>1, <3>3 DEF DecidesSuccess, Settled
  <2>5. ASSUME NEW clean \in BOOLEAN, PersistFails(d, clean) PROVE Honest(d)
    <3>. DEFINE new == [want |-> Wanted(d, clean), clean |-> clean,
                        wins |-> clean /\ job[d].wins /\ job[d].tied]
    <3>1. /\ job[d].pc = "save" /\ status' = status
          /\ retry' = retry \/ retry' = [retry EXCEPT ![d] = new]
      BY <2>5 DEF PersistFails, At, TablesUnchanged, vars
    <3>2. new.want = Wanted(d, clean)
      OBVIOUS
    <3>. HIDE DEF new
    <3>3. retry'[d] = retry[d] \/ retry'[d] = new
      BY <2>0, <3>1 DEF Typing
    <3>. QED
      BY <2>2, <3>1, <3>2, <3>3 DEF DecidesSuccess
  <2>6. CASE RetryCompletion(d)
    <3>1. retry' = [retry EXCEPT ![d] = NoRetry]
      BY <2>6 DEF RetryCompletion
    <3>2. retry'[d].want # "succeeded"
      BY <2>0, <3>1 DEF Typing, NoRetry
    <3>3. status[d] # "succeeded" /\ status'[d] = "succeeded" => retry[d].want = "succeeded"
      <4>1. CASE UNCHANGED vars
        BY <4>1 DEF vars
      <4>2. CASE Complete(d, retry[d].want, retry[d].clean)
        <5>1. \/ status'[d] = CompletedStatus(d, retry[d].want)
              \/ status[d] = "queued" /\ status'[d] = "pending"
          BY <2>0, <4>2, Completes
        <5>. QED
          BY <5>1 DEF CompletedStatus
      <4>. QED
        BY <2>6, <4>1, <4>2 DEF RetryCompletion, TablesUnchanged
    <3>. QED
      BY <2>0, <2>1, <3>2, <3>3 DEF DecidesSuccess, Sound, Quiet, Contained, Settled
  <2>. QED
    BY <2>0, <2>3, <2>4, <2>5, <2>6 DEF Effect
<1>2. JInv /\ [RNext]_allVars => [\A d \in Deployment : Honest(d)]_allVars
  BY <1>1
<1>. QED
  BY <1>2, ServerInvariant, PTL DEF RSpec, SuccessHonest

-----------------------------------------------------------------------------
(* The host's half of the scope.  The slot of a deployment whose container  *)
(* exists is kept because its namespace is recorded before the container    *)
(* and the deployment, running or cleanup_unconfirmed, blocks the queue.    *)
(* This needs that nobody ends a deployment behind its goroutine, which a   *)
(* failing admission does (the retry it leaves outlives the next launch).   *)

Underway == {"running", "publishing_artifact", "failed", "cleanup_unconfirmed"}
Recording == {"attempt", "exec", "check"}

\* A deployment that is executed, or whose completion is retried, has no final
\* outcome; a retry is alone; ...
Busy(d) ==
    /\ job[d].pc # "none" \/ retry[d] # NoRetry => status[d] \in Underway
    /\ retry[d] # NoRetry => job[d].pc = "none"

\* ... the namespace is recorded before a container can exist ...
Recorded(d) ==
    job[d].pc \in Recording => status[d] = "running" /\ cleanup[d] = "namespace"

\* ... and, with the slot, it outlives whoever gave up on the container.
Held(d) ==
    d \in container =>
        /\ status[d] \in {"running", "cleanup_unconfirmed"} /\ cleanup[d] = "namespace"
        /\ slot[ScopeOf[d]] = d
        /\ retry[d] # NoRetry => retry[d].want = "cleanup_unconfirmed" /\ ~retry[d].wins

Firm(d) == Busy(d) /\ Recorded(d) /\ Held(d)

\* A server that is down or starting has no goroutine.
Starting == server \in {"down", "listening"} =>
    \A d \in Deployment : job[d].pc = "none" /\ retry[d] = NoRetry

KInv == JInv /\ Starting /\ \A d \in Deployment : Firm(d)

\* A blocker keeps its slot.
KeepsSlot(d) ==
    slot[ScopeOf[d]] = d /\ status[d] \in {"running", "cleanup_unconfirmed"}
        /\ cleanup[d] = "namespace" => slot'[ScopeOf[d]] = d

LEMMA BlockerKeeps ==
    ASSUME NEW d \in Deployment, NEW E, NEW st, NEW rn, NEW cl, slot[ScopeOf[d]] = d,
           st[d] \in {"running", "cleanup_unconfirmed"}, cl[d] = "namespace",
           slot' = AdvanceSlot(E, st, rn, cl)
    PROVE  slot'[ScopeOf[d]] = d
<1>1. Blockers(ScopeOf[d], st, rn, cl) # {}
  BY DEF Blockers, Blocks, InScope, Executing
<1>. QED
  BY <1>1, ScopeAssumption, NoneAssumption DEF AdvanceSlot

LEMMA FirmBystander ==
    ASSUME KInv, NEW d \in Deployment, Bystander(d), KeepsSlot(d)
    PROVE  Firm(d)'
<1>0. Firm(d) /\ JInv
  BY DEF KInv
<1>1. CASE status'[d] = status[d]
  BY <1>0, <1>1 DEF Firm, Busy, Recorded, Held, Bystander, KeepsSlot
<1>2. CASE status[d] = "queued" /\ status'[d] = "pending"
  <2>1. job[d].pc = "none" /\ d \notin container /\ retry[d] = NoRetry
    BY <1>0, <1>2, EarlyIsIdle DEF Early, Firm, Busy, Underway
  <2>. QED
    BY <2>1 DEF Firm, Busy, Recorded, Held, Bystander, Recording
<1>. QED
  BY <1>1, <1>2 DEF Bystander, Admitted

\* A transaction of x leaves the others their slots.
LEMMA OthersKeepSlot ==
    ASSUME IInv, NEW x \in Deployment, NEW d \in Deployment, d # x,
           NEW st, NEW rn, NEW cl, st[d] = status[d], cl[d] = cleanup[d],
           slot' = AdvanceSlot(EnvScopes(x), st, rn, cl)
    PROVE  KeepsSlot(d)
BY BlockerKeeps DEF KeepsSlot

Transacts(x) ==
    \/ UNCHANGED vars \/ RecordNamespace(x) \/ RequestCancel(x) \/ StartLocal(x)
    \/ Create(x, "queued") \/ CancelQueued(x) \/ \E st : GateStep(x, st)
    \/ \E want, clean : Complete(x, want, clean)
    \/ \E As \in SUBSET Agent : QueueRuns(x, As)
    \/ \E a \in Agent : \/ Claim(x, a) \/ StartRun(x, a) \/ AckCancel(x, a)
                        \/ \E result : FinishRun(x, a, result)

LEMMA SlotsKept ==
    ASSUME IInv, NEW x \in Deployment, NEW d \in Deployment, d # x,
           Transacts(x)
    PROVE  KeepsSlot(d)
<1>0. status \in [Deployment -> Status] /\ cleanup \in [Deployment -> CleanupMark]
  BY DEF IInv, TypeOK
<1>1. slot' = slot => KeepsSlot(d)
  BY DEF KeepsSlot
<1>2. \A value : Set(x, value)[d] = status[d]
  BY <1>0 DEF Set
<1>3. ASSUME NEW st, NEW rn, NEW cl, st[d] = status[d], cl[d] = cleanup[d],
             DeploymentTx(x, st, rn, cl)
      PROVE  KeepsSlot(d)
  BY <1>3, OthersKeepSlot DEF DeploymentTx, Commit
<1>4. CASE UNCHANGED vars \/ RecordNamespace(x) \/ RequestCancel(x) \/ \E a \in Agent : StartRun(x, a)
  BY <1>1, <1>4 DEF vars, RecordNamespace, RequestCancel, StartRun
<1>5. CASE StartLocal(x)
  BY <1>5, OthersKeepSlot DEF StartLocal
<1>6. CASE Create(x, "queued") \/ CancelQueued(x) \/ \E st : GateStep(x, st)
  BY <1>2, <1>3, <1>6 DEF Create, CancelQueued, GateStep
<1>7. ASSUME NEW want, NEW clean, Complete(x, want, clean) PROVE KeepsSlot(d)
  <2>1. CompletedCleanup(x, want, clean)[d] = cleanup[d]
    BY <1>0 DEF CompletedCleanup
  <2>. QED
    BY <1>2, <1>3, <1>7, <2>1 DEF Complete
<1>8. CASE \/ \E As \in SUBSET Agent : QueueRuns(x, As)
           \/ \E a \in Agent : \/ Claim(x, a) \/ AckCancel(x, a)
                               \/ \E result : FinishRun(x, a, result)
  BY <1>3, <1>8 DEF QueueRuns, Claim, AckCancel, FinishRun
<1>. QED
  BY <1>4, <1>5, <1>6, <1>7, <1>8 DEF Transacts

LEMMA StepTransacts ==
    ASSUME NEW x \in Deployment,
           JobStep(x) \/ Cancel(x) \/ Request(x) \/ \E a \in Agent : AgentStep(x, a)
    PROVE  Transacts(x)
<1>1. ASSUME JobStep(x) PROVE Transacts(x)
  <2>1. \/ UNCHANGED vars \/ RecordNamespace(x) \/ RequestCancel(x) \/ StartLocal(x)
        \/ \E st : GateStep(x, st)
        \/ \E want, clean : Complete(x, want, clean)
        \/ \E As \in SUBSET Agent : QueueRuns(x, As)
    <3>1. ASSUME NEW tied, Launch(x, tied) \/ AdmissionFails(x, tied)
          PROVE  UNCHANGED vars \/ StartLocal(x) \/ Complete(x, "failed", TRUE)
      BY <3>1 DEF Launch, AdmissionFails, TablesUnchanged
    <3>2. ASSUME NEW As \in SUBSET Agent, QueueStep(x, As) PROVE UNCHANGED vars \/ QueueRuns(x, As)
      BY <3>2 DEF QueueStep, TablesUnchanged
    <3>3. ASSUME CaptureGate(x) \/ PauseGate(x)
          PROVE  \/ UNCHANGED vars \/ GateStep(x, "publishing_artifact")
                 \/ GateStep(x, "awaiting_artifact_approval")
      BY <3>3 DEF CaptureGate, PauseGate, TablesUnchanged
    <3>4. ASSUME NEW clean, Persist(x, clean) \/ PersistFails(x, clean)
          PROVE  UNCHANGED vars \/ Complete(x, Wanted(x, clean), clean)
      BY <3>4 DEF Persist, PersistFails, TablesUnchanged
    <3>5. ASSUME RetryCompletion(x)
          PROVE  UNCHANGED vars \/ Complete(x, retry[x].want, retry[x].clean)
      BY <3>5 DEF RetryCompletion, TablesUnchanged
    <3>6. ASSUME BeginLocal(x) \/ BeginCheck(x) \/ SendCancel(x)
          PROVE  UNCHANGED vars \/ RecordNamespace(x) \/ RequestCancel(x)
      BY <3>6 DEF BeginLocal, BeginCheck, SendCancel, TablesUnchanged
    <3>7. ASSUME \/ PrepareFails(x) \/ LoopCancelled(x) \/ StartAttempt(x) \/ NoAttempt(x)
                 \/ \E ok \in BOOLEAN : AttemptEnds(x, ok) \/ CheckEnds(x, ok)
                 \/ AttemptUnclean(x) \/ CheckUnclean(x)
                 \/ Poll(x) \/ PollTimeout(x) \/ PollCancelled(x) \/ RunCheck(x)
          PROVE  UNCHANGED vars
      BY <3>7 DEF PrepareFails, LoopCancelled, StartAttempt, NoAttempt, AttemptEnds, CheckEnds,
                  AttemptUnclean, CheckUnclean, Poll, PollTimeout, PollCancelled, RunCheck,
                  TablesUnchanged
    <3>. QED
      BY <1>1, <3>1, <3>2, <3>3, <3>4, <3>5, <3>6, <3>7 DEF JobStep
  <2>. QED
    BY <2>1 DEF Transacts
<1>2. ASSUME Cancel(x) \/ Request(x) PROVE Transacts(x)
  BY <1>2 DEF Cancel, Request, TablesUnchanged, Transacts
<1>3. ASSUME NEW a \in Agent, AgentStep(x, a) PROVE Transacts(x)
  BY <1>3 DEF AgentStep, AgentClaims, AgentStarts, AgentReports, AgentAcks, AgentEnds,
              AgentReconciles, TablesUnchanged, Transacts
<1>. QED
  BY <1>1, <1>2, <1>3

\* The goroutine moves while the tables and the retry stay as they are.
LEMMA FirmMove ==
    ASSUME KInv, NEW x \in Deployment, UNCHANGED vars, retry' = retry, job[x].pc # "none",
           job'[x].pc \in Recording => job[x].pc \in Recording,
           x \in container' => x \in container \/ job[x].pc \in Recording
    PROVE  Firm(x)'
<1>0. Firm(x) /\ IInv
  BY DEF KInv, JInv
<1>1. retry[x] = NoRetry /\ status[x] \in Underway
  BY <1>0 DEF Firm, Busy
<1>2. UNCHANGED <<status, slot, cleanup>>
  BY DEF vars
<1>3. x \in container' => /\ status[x] \in {"running", "cleanup_unconfirmed"}
                          /\ cleanup[x] = "namespace" /\ slot[ScopeOf[x]] = x
  <2>1. job[x].pc \in Recording =>
          status[x] = "running" /\ cleanup[x] = "namespace" /\ slot[ScopeOf[x]] = x
    BY <1>0 DEF Firm, Recorded, IInv, SlotOwned, Occupies, Executing
  <2>. QED
    BY <1>0, <2>1 DEF Firm, Held
<1>. QED
  BY <1>0, <1>1, <1>2, <1>3 DEF Firm, Busy, Recorded, Held

\* A step of a deployment without container, that leaves it firm.
LEMMA FirmHostless ==
    ASSUME NEW x \in Deployment, x \notin container',
           job'[x].pc # "none" \/ retry'[x] # NoRetry => status'[x] \in Underway,
           retry'[x] # NoRetry => job'[x].pc = "none",
           job'[x].pc \in Recording => status'[x] = "running" /\ cleanup'[x] = "namespace"
    PROVE  Firm(x)'
BY DEF Firm, Busy, Recorded, Held

LEMMA FirmKnown ==
    ASSUME KInv, NEW x \in Deployment
    PROVE  /\ Typing /\ IInv /\ Sound(x) /\ Firm(x)
           /\ job[x].pc # "none" => retry[x] = NoRetry /\ status[x] \in Underway
           /\ job[x].pc \in {"loop", "attempt", "capture", "pause", "poll", "check"} =>
                  x \notin container
<1>1. Typing /\ IInv /\ Sound(x) /\ Firm(x)
  BY DEF KInv, JInv
<1>. QED
  BY <1>1 DEF Firm, Busy, Sound, Contained

\* Saving, leaving and failing are moves out of the recording places.
LEMMA SavedPc ==
    ASSUME Typing, NEW x \in Deployment, NEW want, NEW wins, Save(x, want, wins)
    PROVE  job'[x].pc = "save"
<1>1. job \in [Deployment -> JobType] /\ job[x] \in JobType
  BY DEF Typing
<1>2. [job[x] EXCEPT !.pc = "save", !.want = want, !.wins = wins,
                     !.attempt = 1, !.operator = FALSE, !.remote = "no"].pc = "save"
  BY <1>1 DEF JobType
<1>. QED
  BY <1>1, <1>2 DEF Save, Becomes

LEMMA AttemptFailsPc ==
    ASSUME Typing, NEW x \in Deployment, AttemptFails(x)
    PROVE  job'[x].pc \in {"save", "none", "attempt"}
<1>1. job \in [Deployment -> JobType] /\ job[x] \in JobType
  BY DEF Typing
<1>2. [job[x] EXCEPT !.pc = "attempt", !.attempt = @ + 1].pc = "attempt"
  BY <1>1 DEF JobType
<1>3. Becomes(x, [job[x] EXCEPT !.pc = "attempt", !.attempt = @ + 1]) => job'[x].pc = "attempt"
  BY <1>1, <1>2 DEF Becomes
<1>. QED
  BY <1>3, SavedPc, Leaves DEF AttemptFails

LEMMA LoopPc ==
    ASSUME Typing, NEW x \in Deployment, NextLoop(x)
    PROVE  job'[x].pc = "loop"
<1>1. job \in [Deployment -> JobType] /\ job[x] \in JobType
  BY DEF Typing
<1>2. [job[x] EXCEPT !.pc = "loop", !.step = @ + 1, !.attempt = 1,
                     !.operator = FALSE, !.remote = "no"].pc = "loop"
  BY <1>1 DEF JobType
<1>. QED
  BY <1>1, <1>2 DEF NextLoop, Becomes

LEMMA FirmMoves ==
    ASSUME KInv, NEW x \in Deployment,
           \/ PrepareFails(x) \/ LoopCancelled(x) \/ StartAttempt(x) \/ NoAttempt(x)
           \/ \E ok \in BOOLEAN : AttemptEnds(x, ok) \/ CheckEnds(x, ok)
           \/ AttemptUnclean(x) \/ CheckUnclean(x)
           \/ Poll(x) \/ PollTimeout(x) \/ PollCancelled(x) \/ RunCheck(x)
    PROVE  Firm(x)'
<1>0. Typing /\ IInv /\ Sound(x) /\ Firm(x)
  BY FirmKnown
<1>1. ASSUME PrepareFails(x) \/ LoopCancelled(x) \/ AttemptUnclean(x) \/ CheckUnclean(x)
      PROVE  Firm(x)'
  <2>1. /\ job[x].pc # "none" /\ UNCHANGED vars /\ retry' = retry /\ container' = container
        /\ \E want, wins : Save(x, want, wins)
    BY <1>1 DEF PrepareFails, LoopCancelled, AttemptUnclean, CheckUnclean, At, TablesUnchanged,
                HostUnchanged
  <2>2. job'[x].pc = "save"
    BY <1>0, <2>1, SavedPc
  <2>. QED
    BY <2>1, <2>2, FirmMove DEF Recording
<1>2. ASSUME StartAttempt(x) PROVE Firm(x)'
  <2>1. /\ job[x].pc = "attempt" /\ UNCHANGED vars /\ retry' = retry
    BY <1>2 DEF StartAttempt, At, TablesUnchanged
  <2>. QED
    BY <2>1, FirmMove DEF Recording
<1>3. ASSUME NoAttempt(x) PROVE Firm(x)'
  <2>1. /\ job[x].pc = "attempt" /\ UNCHANGED vars /\ retry' = retry
    BY <1>3 DEF NoAttempt, At, TablesUnchanged, HostUnchanged
  <2>. QED
    BY <2>1, FirmMove DEF Recording
<1>4. ASSUME NEW ok \in BOOLEAN, AttemptEnds(x, ok) PROVE Firm(x)'
  <2>1. /\ job[x].pc = "exec" /\ UNCHANGED vars /\ retry' = retry
    BY <1>4 DEF AttemptEnds, At, TablesUnchanged
  <2>. QED
    BY <2>1, FirmMove DEF Recording
<1>5. ASSUME NEW ok \in BOOLEAN, CheckEnds(x, ok) PROVE Firm(x)'
  <2>1. /\ job[x].pc = "checking" /\ UNCHANGED vars /\ retry' = retry /\ container' = container \ {x}
        /\ \E want, wins : Save(x, want, wins)
    BY <1>5 DEF CheckEnds, At, TablesUnchanged, CheckFails
  <2>2. job'[x].pc = "save"
    BY <1>0, <2>1, SavedPc
  <2>. QED
    BY <2>1, <2>2, FirmMove DEF Recording
<1>6. ASSUME Poll(x) PROVE Firm(x)'
  <2>1. job[x].pc = "poll" /\ UNCHANGED vars /\ retry' = retry /\ container' = container
    BY <1>6 DEF Poll, At, TablesUnchanged, HostUnchanged
  <2>2. \/ \E want, wins : Save(x, want, wins)
        \/ NextLoop(x) \/ Becomes(x, [job[x] EXCEPT !.remote = "needed"])
    BY <1>6 DEF Poll, StepDone
  <2>3. job'[x].pc \in {"save", "loop", "poll"}
    BY <1>0, <2>1, <2>2, SavedPc, LoopPc, Flags DEF SamePlace
  <2>. QED
    BY <2>1, <2>3, FirmMove DEF Recording
<1>7. ASSUME PollTimeout(x) \/ PollCancelled(x) PROVE Firm(x)'
  <2>1. job[x].pc = "poll" /\ UNCHANGED vars /\ retry' = retry /\ container' = container
    BY <1>7 DEF PollTimeout, PollCancelled, At, TablesUnchanged, HostUnchanged
  <2>2. job[x].remote \in {"no", "needed", "sent"}
    BY <1>0 DEF Typing, JobType
  <2>3. PICK r \in {"no", "needed", "sent"} :
          \/ Becomes(x, [job[x] EXCEPT !.remote = r])
          \/ Becomes(x, [job[x] EXCEPT !.operator = TRUE, !.remote = r])
    BY <1>7, <2>2 DEF PollTimeout, PollCancelled
  <2>4. job'[x].pc = "poll"
    BY <1>0, <2>1, <2>3, Flags DEF SamePlace
  <2>. QED
    BY <2>1, <2>4, FirmMove DEF Recording
<1>8. ASSUME RunCheck(x) PROVE Firm(x)'
  <2>1. /\ job[x].pc = "check" /\ UNCHANGED vars /\ retry' = retry
    BY <1>8 DEF RunCheck, At, TablesUnchanged
  <2>. QED
    BY <2>1, FirmMove DEF Recording
<1>. QED
  BY <1>1, <1>2, <1>3, <1>4, <1>5, <1>6, <1>7, <1>8

\* The steps that write: none but the completions has a container.
LEMMA FirmWrites ==
    ASSUME KInv, NEW x \in Deployment,
           \/ BeginLocal(x) \/ BeginCheck(x) \/ SendCancel(x)
           \/ CaptureGate(x) \/ PauseGate(x)
           \/ \E As \in SUBSET Agent : QueueStep(x, As)
    PROVE  Firm(x)'
<1>0. /\ Typing /\ IInv /\ Sound(x) /\ Firm(x) /\ status \in [Deployment -> Status]
  BY FirmKnown DEF IInv, TypeOK
<1>1. /\ job[x].pc \in {"loop", "poll", "capture", "pause"}
      /\ retry' = retry /\ container' = container
  BY DEF BeginLocal, BeginCheck, SendCancel, CaptureGate, PauseGate, QueueStep, At, HostUnchanged
<1>2. retry[x] = NoRetry /\ status[x] \in Underway /\ x \notin container
  BY <1>1, FirmKnown
<1>3. CASE UNCHANGED vars /\ \E want, wins : Save(x, want, wins)
  <2>1. job'[x].pc = "save"
    BY <1>0, <1>3, SavedPc
  <2>. QED
    BY <1>1, <1>2, <1>3, <2>1, FirmMove DEF Recording
<1>4. CASE UNCHANGED vars /\ Returns(x)
  BY <1>0, <1>1, <1>2, <1>4, FirmMove, Leaves DEF Recording
<1>5. CASE UNCHANGED vars /\ GoTo(x, "checking")
  BY <1>0, <1>1, <1>2, <1>5, FirmMove, Goes DEF Recording, Pc
<1>6. CASE RecordNamespace(x)
  <2>1. status[x] = "running" /\ status'[x] = "running" /\ cleanup'[x] = "namespace"
    BY <1>0, <1>6, Records
  <2>. QED
    BY <1>1, <1>2, <2>1, FirmHostless DEF Underway
<1>7. CASE RequestCancel(x) /\ Becomes(x, [job[x] EXCEPT !.remote = "sent"]) /\ job[x].pc = "poll"
  <2>1. job'[x].pc = "poll"
    BY <1>0, <1>7, Flags DEF SamePlace
  <2>2. status' = status
    BY <1>7 DEF RequestCancel
  <2>. QED
    BY <1>1, <1>2, <2>1, <2>2, FirmHostless DEF Recording
<1>8. CASE GateStep(x, "publishing_artifact") /\ GoTo(x, "pause")
  <2>1. job'[x].pc = "pause"
    BY <1>0, <1>8, Goes DEF Pc
  <2>2. status'[x] = "publishing_artifact"
    BY <1>0, <1>8, Gates
  <2>. QED
    BY <1>1, <1>2, <2>1, <2>2, FirmHostless DEF Recording, Underway
<1>9. CASE Becomes(x, NoJob)
  BY <1>0, <1>1, <1>2, <1>9, FirmHostless, Leaves DEF Recording
<1>10. ASSUME NEW As \in SUBSET Agent, QueueRuns(x, As), GoTo(x, "poll") PROVE Firm(x)'
  <2>1. job'[x].pc = "poll"
    BY <1>0, <1>10, Goes DEF Pc
  <2>2. Commit(EnvScopes(x), status, [run EXCEPT ![x] =
           [a \in Agent |-> IF a \in As THEN "waiting" ELSE "none"]], cleanup)
    BY <1>10 DEF QueueRuns, DeploymentTx
  <2>3. Admitted(x, status)
    BY <1>0, <2>2, Advanced
  <2>4. status'[x] = status[x]
    BY <1>2, <2>3 DEF Admitted, Underway
  <2>. QED
    BY <1>1, <1>2, <2>1, <2>4, FirmHostless DEF Recording
<1>a. BeginLocal(x) => Firm(x)'
  BY <1>3, <1>4, <1>6 DEF BeginLocal, TablesUnchanged
<1>b. BeginCheck(x) => Firm(x)'
  BY <1>3, <1>5, <1>6 DEF BeginCheck, TablesUnchanged
<1>c. SendCancel(x) => Firm(x)'
  BY <1>7 DEF SendCancel, At
<1>d. CaptureGate(x) => Firm(x)'
  BY <1>3, <1>8 DEF CaptureGate, TablesUnchanged
<1>e. PauseGate(x) => Firm(x)'
  BY <1>3, <1>9 DEF PauseGate, TablesUnchanged
<1>f. \A As \in SUBSET Agent : QueueStep(x, As) => Firm(x)'
  BY <1>3, <1>10 DEF QueueStep, TablesUnchanged
<1>. QED
  BY <1>a, <1>b, <1>c, <1>d, <1>e, <1>f

\* A completion with a container is one that leaves it to the next restart.
LEMMA FirmComplete ==
    ASSUME KInv, NEW x \in Deployment, NEW want, NEW clean, Complete(x, want, clean),
           job'[x].pc = "none", retry'[x] = NoRetry, container' = container,
           x \in container => want = "cleanup_unconfirmed"
    PROVE  Firm(x)'
<1>0. Typing /\ IInv /\ Sound(x) /\ Firm(x)
  BY FirmKnown
<1>1. CASE x \notin container
  BY <1>1, FirmHostless DEF Recording
<1>2. CASE x \in container
  <2>1. /\ status[x] \in {"running", "cleanup_unconfirmed"} /\ cleanup[x] = "namespace"
        /\ slot[ScopeOf[x]] = x /\ Settled(x)
    BY <1>0, <1>2 DEF Firm, Held, Sound, Quiet
  <2>2. CompletedStatus(x, want) = "cleanup_unconfirmed"
    BY <1>2, <2>1 DEF CompletedStatus
  <2>3. CompletedCleanup(x, want, clean) = cleanup
    BY <2>1 DEF CompletedCleanup, Settled, Cleanup
  <2>4. /\ cleanup' = CompletedCleanup(x, want, clean)
        /\ \/ status'[x] = CompletedStatus(x, want)
           \/ status[x] = "queued" /\ status'[x] = "pending"
    BY <1>0, Completes
  <2>5. status'[x] = "cleanup_unconfirmed" /\ cleanup'[x] = "namespace"
    BY <2>1, <2>2, <2>3, <2>4
  <2>6. slot' = AdvanceSlot(EnvScopes(x), Set(x, CompletedStatus(x, want)), run,
                            CompletedCleanup(x, want, clean))
    BY DEF Complete, DeploymentTx, Commit
  <2>7. Set(x, CompletedStatus(x, want))[x] = "cleanup_unconfirmed"
    BY <1>0, <2>2 DEF Set, IInv, TypeOK
  <2>8. slot'[ScopeOf[x]] = x
    BY <2>1, <2>3, <2>6, <2>7, BlockerKeeps
  <2>. QED
    BY <2>5, <2>8 DEF Firm, Busy, Recorded, Held, Recording
<1>. QED
  BY <1>1, <1>2

LEMMA FirmEnds ==
    ASSUME KInv, NEW x \in Deployment,
           \/ \E clean \in BOOLEAN : Persist(x, clean) \/ PersistFails(x, clean)
           \/ RetryCompletion(x)
    PROVE  Firm(x)'
<1>0. Typing /\ IInv /\ Sound(x) /\ Firm(x)
  BY FirmKnown
<1>1. ASSUME NEW clean \in BOOLEAN, job[x].pc = "save", x \in container
      PROVE  Wanted(x, clean) = "cleanup_unconfirmed" /\ ~job[x].wins
  BY <1>0, <1>1 DEF Sound, Contained, Wanted
<1>2. ASSUME NEW clean \in BOOLEAN, Persist(x, clean) PROVE Firm(x)'
  <2>1. /\ job[x].pc = "save" /\ Complete(x, Wanted(x, clean), clean) /\ Becomes(x, NoJob)
        /\ retry' = retry /\ container' = container
    BY <1>2 DEF Persist, At, HostUnchanged
  <2>2. job'[x].pc = "none" /\ retry[x] = NoRetry
    BY <1>0, <2>1, Leaves, FirmKnown
  <2>. QED
    BY <1>1, <2>1, <2>2, FirmComplete
<1>3. ASSUME NEW clean \in BOOLEAN, PersistFails(x, clean) PROVE Firm(x)'
  <2>. DEFINE new == [want |-> Wanted(x, clean), clean |-> clean,
                      wins |-> clean /\ job[x].wins /\ job[x].tied]
  <2>1. /\ job[x].pc = "save" /\ UNCHANGED vars /\ container' = container /\ Becomes(x, NoJob)
        /\ retry' = retry \/ retry' = [retry EXCEPT ![x] = new]
    BY <1>3 DEF PersistFails, At, TablesUnchanged
  <2>2. new.want = Wanted(x, clean) /\ (~job[x].wins => ~new.wins)
    OBVIOUS
  <2>. HIDE DEF new
  <2>3. job'[x].pc = "none" /\ retry[x] = NoRetry /\ status[x] \in Underway
    BY <1>0, <2>1, Leaves, FirmKnown
  <2>4. retry'[x] = NoRetry \/ retry'[x] = new
    BY <1>0, <2>1, <2>3 DEF Typing
  <2>5. UNCHANGED <<status, slot, cleanup>>
    BY <2>1 DEF vars
  <2>6. x \in container => Wanted(x, clean) = "cleanup_unconfirmed" /\ ~job[x].wins
    BY <1>1, <2>1
  <2>. QED
    BY <1>0, <2>1, <2>2, <2>3, <2>4, <2>5, <2>6 DEF Firm, Busy, Recorded, Held, Recording
<1>4. ASSUME RetryCompletion(x) PROVE Firm(x)'
  <2>1. /\ retry' = [retry EXCEPT ![x] = NoRetry] /\ container' = container
        /\ retry[x] \in Completion
        /\ \/ /\ Complete(x, retry[x].want, retry[x].clean)
              /\ job' = [job EXCEPT ![x].known = FALSE]
           \/ UNCHANGED vars /\ UNCHANGED job
    BY <1>4 DEF RetryCompletion, TablesUnchanged
  <2>2. retry[x] # NoRetry
    BY <2>1 DEF Completion, NoRetry, Terminal
  <2>3. job[x].pc = "none" /\ retry'[x] = NoRetry
    BY <1>0, <2>1, <2>2 DEF Firm, Busy, Typing
  <2>4. job'[x].pc = "none"
    BY <1>0, <2>1, <2>3, Flags DEF SamePlace
  <2>5. CASE Complete(x, retry[x].want, retry[x].clean)
    <3>1. x \in container => retry[x].want = "cleanup_unconfirmed"
      BY <1>0, <2>2 DEF Firm, Held
    <3>. QED
      BY <2>1, <2>3, <2>4, <2>5, <3>1, FirmComplete
  <2>6. CASE UNCHANGED vars
    BY <1>0, <2>1, <2>3, <2>4, <2>6 DEF Firm, Busy, Recorded, Held, Recording, vars
  <2>. QED
    BY <2>1, <2>5, <2>6
<1>. QED
  BY <1>2, <1>3, <1>4

\* Admission, the operator and the agents.
LEMMA FirmOutside ==
    ASSUME KInv, NEW x \in Deployment,
           \/ \E tied \in Tied : Launch(x, tied)
           \/ Cancel(x) \/ Request(x) \/ \E a \in Agent : AgentStep(x, a)
    PROVE  Firm(x)'
<1>0. Typing /\ IInv /\ Sound(x) /\ Firm(x) /\ JInv
  BY FirmKnown DEF KInv
<1>i. ASSUME status[x] \in Early \cup {"pending", "awaiting_artifact_approval"}
      PROVE  job[x].pc = "none" /\ retry[x] = NoRetry /\ x \notin container
  BY <1>0, <1>i, EarlyIsIdle DEF Firm, Busy, Underway, Early
<1>1. ASSUME NEW tied \in Tied, Launch(x, tied) PROVE Firm(x)'
  <2>1. /\ StartLocal(x) /\ retry' = retry /\ container' = container
        /\ Becomes(x, [NoJob EXCEPT !.pc = "loop", !.step = resume[x], !.known = TRUE, !.tied = tied])
    BY <1>1 DEF Launch, HostUnchanged
  <2>2. status[x] \in {"queued", "pending"} /\ status'[x] = "running"
    BY <1>0, <2>1, Starts
  <2>3. job'[x].pc = "loop"
    BY <1>0, <2>1 DEF Becomes, NoJob, Typing
  <2>. QED
    BY <1>i, <2>1, <2>2, <2>3, FirmHostless DEF Recording, Underway, Early
<1>2. ASSUME Cancel(x) PROVE Firm(x)'
  <2>1. /\ Becomes(x, [job[x] EXCEPT !.cancelled = TRUE])
        /\ UNCHANGED <<status, slot, cleanup, retry, container>>
    BY <1>2 DEF Cancel, TablesUnchanged, HostUnchanged, vars
  <2>2. job'[x].pc = job[x].pc
    BY <1>0, <2>1, Flags DEF SamePlace
  <2>. QED
    BY <1>0, <2>1, <2>2 DEF Firm, Busy, Recorded, Held
<1>3. ASSUME Request(x) PROVE Firm(x)'
  <2>1. /\ job' = job /\ retry' = retry /\ container' = container
        /\ status[x] \in Early \cup {"pending", "awaiting_artifact_approval"}
    BY <1>3 DEF Request, runnerVars, Create, CancelQueued, GateStep, GateEdge, Early
  <2>. QED
    BY <1>i, <2>1, FirmHostless DEF Recording
<1>4. ASSUME NEW a \in Agent, AgentStep(x, a) PROVE Firm(x)'
  <2>1. Plain(x) /\ Step(x) /\ job' = job /\ retry' = retry /\ container' = container
    BY <1>0, <1>4, AgentEffect, AgentSteps
       DEF AgentStep, AgentClaims, AgentStarts, AgentReports, AgentAcks, AgentEnds,
           AgentReconciles, runnerVars
  <2>2. run[x][a] \notin {"none", "succeeded"}
    <3>1. \/ run[x][a] \in {"waiting", "claimed", "cancel_requested", "started", "lost",
                            "cancel_unconfirmed"}
          \/ <<x, a>> \in working
      BY <1>4 DEF AgentStep, AgentClaims, AgentStarts, AgentReports, AgentAcks, AgentEnds,
                  AgentReconciles, Claim, StartRun, FinishRun, AckCancel
    <3>2. <<x, a>> \in working => run[x][a] \in Unresolved
      BY <1>0 DEF Sound, AgentsKnown
    <3>. QED
      BY <3>1, <3>2 DEF Unresolved, OnAgent
  <2>3. x \notin container /\ job[x].pc \notin Recording
    BY <1>0, <2>2 DEF Sound, Quiet, Settled, Recording, Local
  <2>4. job[x].pc # "none" \/ retry[x] # NoRetry => status'[x] \in Underway
    <3>1. UNCHANGED status \/ \E rn : DeploymentTx(x, status, rn, cleanup)
      BY <1>4 DEF AgentStep, AgentClaims, AgentStarts, AgentReports, AgentAcks, AgentEnds,
                  AgentReconciles, Claim, StartRun, FinishRun, AckCancel, TablesUnchanged, vars
    <3>2. Admitted(x, status)
      BY <1>0, <3>1, Advanced DEF DeploymentTx, Admitted, IInv, TypeOK
    <3>. QED
      BY <1>0, <3>2 DEF Firm, Busy, Underway, Admitted
  <2>. QED
    BY <1>0, <2>1, <2>3, <2>4, FirmHostless DEF Firm, Busy
<1>. QED
  BY <1>1, <1>2, <1>3, <1>4

\* Maintenance ends only what an agent did, or what waits.
Spared(d, st, rn, cl) ==
    /\ \/ st[d] = status[d]
       \/ st[d] \in {"failed", "cleanup_unconfirmed"} /\ ~Settled(d)
       \/ status[d] \notin Underway
    /\ cleanup[d] = "namespace" => cl[d] = "namespace"

LEMMA FirmPass ==
    ASSUME KInv, NEW d \in Deployment, NEW E, NEW st \in [Deployment -> Status], NEW rn, NEW cl,
           Commit(E, st, rn, cl), Spared(d, st, rn, cl),
           UNCHANGED <<job, retry, container>>
    PROVE  Firm(d)'
<1>0. Typing /\ IInv /\ Sound(d) /\ Firm(d)
  BY FirmKnown
<1>1. Admitted(d, st) /\ cleanup' = cl
  BY Advanced
<1>2. CASE job[d].pc = "none" /\ retry[d] = NoRetry /\ d \notin container
  BY <1>2, FirmHostless DEF Recording
<1>3. CASE job[d].pc # "none" \/ retry[d] # NoRetry \/ d \in container
  <2>1. status[d] \in Underway
    BY <1>0, <1>3 DEF Firm, Busy, Held, Underway
  <2>2. status'[d] \in Underway /\ (Settled(d) => status'[d] = status[d] /\ st[d] = status[d])
    BY <1>1, <2>1 DEF Spared, Admitted, Underway
  <2>3. d \in container \/ job[d].pc \in Recording => Settled(d)
    BY <1>0 DEF Sound, Quiet, Recording, Local
  <2>4. d \in container => slot'[ScopeOf[d]] = d
    <3>1. slot' = AdvanceSlot(E, st, rn, cl)
      BY DEF Commit
    <3>. QED
      BY <1>0, <2>2, <2>3, <3>1, BlockerKeeps DEF Firm, Held, Spared
  <2>. QED
    BY <1>0, <1>1, <2>2, <2>3, <2>4 DEF Firm, Busy, Recorded, Held, Spared
<1>. QED
  BY <1>2, <1>3

LEMMA FailTerminalSpares ==
    ASSUME NEW rn, status \in [Deployment -> Status], NEW d \in Deployment
    PROVE  \/ FailTerminal(status, rn)[d] = status[d]
           \/ /\ FailTerminal(status, rn)[d] \in {"failed", "cleanup_unconfirmed"}
              /\ \E a \in Agent : rn[d][a] \notin {"none", "succeeded"}
<1>. DEFINE bad(e) == \E a \in Agent : rn[e][a] \in Cleanup
            broken(e) == \E a \in Agent :
                             \/ rn[e][a] \in {"failed", "lost", "cancel_unconfirmed"} \cup Cleanup
                             \/ rn[e][a] = "cancelled" /\ <<e, a>> \in recovered
            ends(e) == /\ status[e] = "running" \/ (status[e] = "failed" /\ bad(e))
                       /\ broken(e)
                       /\ \A a \in Agent : rn[e][a] \notin Active
<1>1. FailTerminal(status, rn) =
        [e \in Deployment |-> IF ends(e) THEN IF bad(e) THEN "cleanup_unconfirmed" ELSE "failed"
                              ELSE status[e]]
  BY DEF FailTerminal
<1>2. ends(d) => \E a \in Agent : rn[d][a] \notin {"none", "succeeded"}
  BY DEF Cleanup
<1>. HIDE DEF bad, ends
<1>. QED
  BY <1>1, <1>2

LEMMA FirmUpkeep ==
    ASSUME KInv, Upkeep \/ \E a \in Agent : AgentPolls(a), NEW d \in Deployment
    PROVE  Firm(d)'
<1>0. /\ status \in [Deployment -> Status] /\ run \in [Deployment -> [Agent -> RunState]]
  BY DEF KInv, JInv, IInv, TypeOK
<1>u. UNCHANGED <<job, retry, container>>
  BY DEF Upkeep, AgentPolls, runnerVars
<1>f. ASSUME NEW rn, \A a \in Agent : run[d][a] \in {"none", "succeeded"} => rn[d][a] \in {"none", "succeeded"}
      PROVE  /\ FailTerminal(status, rn) \in [Deployment -> Status]
             /\ \/ FailTerminal(status, rn)[d] = status[d]
                \/ FailTerminal(status, rn)[d] \in {"failed", "cleanup_unconfirmed"} /\ ~Settled(d)
  BY <1>0, <1>f, FailTerminalSpares, FailTerminalOnly DEF Settled
<1>1. ASSUME NEW due \in SUBSET (Deployment \X Agent), Maintain(due) PROVE Firm(d)'
  <2>. DEFINE rn == [e \in Deployment |-> [a \in Agent |->
                        IF <<e, a>> \in due THEN Overdue(run[e][a]) ELSE run[e][a]]]
  <2>1. Commit(QueueScopes, FailTerminal(status, rn), rn, cleanup)
    BY <1>1 DEF Maintain, MaintenanceTx
  <2>2. \A a \in Agent : run[d][a] \in {"none", "succeeded"} => rn[d][a] \in {"none", "succeeded"}
    BY DEF Overdue
  <2>. HIDE DEF rn
  <2>. QED
    BY <1>f, <1>u, <2>1, <2>2, FirmPass DEF Spared
<1>2. ASSUME NEW a \in Agent, RevokeAgent(a) PROVE Firm(d)'
  <2>. DEFINE rn == Revoked(a, run)
  <2>1. Commit(QueueScopes, FailTerminal(status, rn), rn, cleanup)
    BY <1>2 DEF RevokeAgent, MaintenanceTx
  <2>2. \A b \in Agent : run[d][b] \in {"none", "succeeded"} => rn[d][b] \in {"none", "succeeded"}
    BY <1>0, RevokedRun
  <2>. HIDE DEF rn
  <2>. QED
    BY <1>f, <1>u, <2>1, <2>2, FirmPass DEF Spared
<1>3. ASSUME NEW a \in Agent, NEW revoked \in BOOLEAN, DeleteAgent(a, revoked) PROVE Firm(d)'
  <2>. DEFINE rv == IF revoked THEN run ELSE Revoked(a, run)
              st == IF revoked THEN status ELSE FailTerminal(status, rv)
              rn == [e \in Deployment |-> [rv[e] EXCEPT ![a] = "none"]]
              cl == [e \in Deployment |-> IF Preserved(e, a, st, rv) THEN "preserved" ELSE cleanup[e]]
  <2>1. Commit(QueueScopes, st, rn, cl)
    BY <1>3 DEF DeleteAgent, MaintenanceTx
  <2>2. \A b \in Agent : run[d][b] \in {"none", "succeeded"} => rv[d][b] \in {"none", "succeeded"}
    BY <1>0, RevokedRun
  <2>. HIDE DEF rv
  <2>3. /\ st \in [Deployment -> Status]
        /\ st[d] = status[d] \/ (st[d] \in {"failed", "cleanup_unconfirmed"} /\ ~Settled(d))
    BY <1>0, <1>f, <2>2
  <2>4. cleanup[d] = "namespace" => cl[d] = "namespace"
    BY DEF Preserved
  <2>. HIDE DEF st, rn, cl
  <2>. QED
    BY <1>u, <2>1, <2>3, <2>4, FirmPass DEF Spared
<1>4. ASSUME NEW D \in SUBSET Deployment, ExpireGates(D) PROVE Firm(d)'
  <2>. DEFINE st == [e \in Deployment |-> IF e \in D THEN "expired" ELSE status[e]]
  <2>1. /\ Commit(QueueScopes, st, run, cleanup)
        /\ \A e \in D : status[e] \in {"awaiting_artifact_approval", "pending"}
    BY <1>4 DEF ExpireGates, MaintenanceTx
  <2>2. st \in [Deployment -> Status] /\ (st[d] = status[d] \/ status[d] \notin Underway)
    BY <1>0, <2>1 DEF Status, Terminal, Underway
  <2>. HIDE DEF st
  <2>. QED
    BY <1>u, <2>1, <2>2, FirmPass DEF Spared
<1>5. ASSUME NEW e \in Env, Reconcile(e) PROVE Firm(d)'
  <2>1. Commit({s \in QueueScopes : EnvOf[s] = e}, status, run, cleanup)
    BY <1>5 DEF Reconcile
  <2>. QED
    BY <1>0, <1>u, <2>1, FirmPass DEF Spared
<1>6. ASSUME NEW a \in Agent, AgentPolls(a) PROVE Firm(d)'
  <2>1. \E rn : Commit(QueueScopes, status, rn, cleanup)
    BY <1>6 DEF AgentPolls, AgentPoll, MaintenanceTx
  <2>. QED
    BY <1>0, <1>u, <2>1, FirmPass DEF Spared
<1>. QED
  BY <1>1, <1>2, <1>3, <1>4, <1>5, <1>6 DEF Upkeep

\* Crash, shutdown and restart.
LEMMA FirmServer ==
    ASSUME KInv, Crash \/ Exit \/ Signal \/ KillAll \/ Boot \/ Recover, NEW d \in Deployment
    PROVE  Firm(d)'
<1>0. /\ Typing /\ IInv /\ Sound(d) /\ Firm(d) /\ Starting /\ status \in [Deployment -> Status]
      /\ run \in [Deployment -> [Agent -> RunState]]
  BY FirmKnown DEF KInv, IInv, TypeOK
<1>1. CASE Die
  <2>1. /\ job'[d].pc = "none" /\ retry'[d] = NoRetry
        /\ UNCHANGED <<status, slot, cleanup, container>>
    BY <1>1 DEF Die, NoJob, TablesUnchanged, vars
  <2>. QED
    BY <1>0, <2>1 DEF Firm, Busy, Recorded, Held, Recording
<1>2. CASE Signal \/ KillAll
  <2>1. UNCHANGED <<status, slot, cleanup, container>>
    BY <1>2 DEF Signal, KillAll, TablesUnchanged, vars
  <2>2. job'[d].pc = job[d].pc
    <3>1. \A c : [job[d] EXCEPT !.cancelled = c].pc = job[d].pc
      BY <1>0 DEF Typing, JobType
    <3>. QED
      BY <1>2, <3>1 DEF Signal, KillAll
  <2>3. /\ retry'[d] # NoRetry => retry[d] # NoRetry
        /\ ~retry[d].wins => retry'[d] = retry[d]
    <3>1. \/ retry'[d] = retry[d]
          \/ retry'[d] = IF retry[d].wins THEN [retry[d] EXCEPT !.want = "cancelled", !.wins = FALSE]
                         ELSE retry[d]
      BY <1>2 DEF Signal, KillAll
    <3>2. ~NoRetry.wins
      BY DEF NoRetry
    <3>. QED
      BY <3>1, <3>2
  <2>. QED
    BY <1>0, <2>1, <2>2, <2>3 DEF Firm, Busy, Recorded, Held
<1>3. CASE Boot
  <2>1. /\ server = "down" /\ UNCHANGED <<job, retry>>
        /\ \/ container' = {}
           \/ container' \in SUBSET container /\ UNCHANGED vars
    BY <1>3 DEF Boot, TablesUnchanged
  <2>2. job[d].pc = "none" /\ retry[d] = NoRetry
    BY <1>0, <2>1 DEF Starting
  <2>. QED
    BY <1>0, <2>1, <2>2 DEF Firm, Busy, Recorded, Held, Recording, vars
<1>4. CASE Recover
  <2>1. /\ server = "listening" /\ UNCHANGED <<job, retry, container>>
        /\ RecoverPending \/ UNCHANGED vars
    BY <1>4 DEF Recover, TablesUnchanged
  <2>2. job[d].pc = "none" /\ retry[d] = NoRetry
    BY <1>0, <2>1 DEF Starting
  <2>3. CASE d \notin container
    BY <2>1, <2>2, <2>3, FirmHostless DEF Recording
  <2>4. CASE UNCHANGED vars
    BY <1>0, <2>1, <2>2, <2>4 DEF Firm, Busy, Recorded, Held, Recording, vars
  <2>5. CASE RecoverPending /\ d \in container
    <3>. DEFINE orphan == {p \in Deployment \X Agent :
                               status[p[1]] = "running" /\ run[p[1]][p[2]] \in Active}
                rn == [e \in Deployment |-> [a \in Agent |->
                          IF <<e, a>> \in orphan THEN Cancelling(run[e][a]) ELSE run[e][a]]]
                inFlight(e) == status[e] \in {"running", "publishing_artifact"}
                onAgent(e) == \E a \in Agent : rn[e][a] \in OnAgent
                idle(e) == \A a \in Agent : rn[e][a] # "cancel_requested"
                st == [e \in Deployment |->
                          IF inFlight(e) /\ cleanup[e] = "namespace" /\ ~onAgent(e)
                          THEN "cleanup_unconfirmed"
                          ELSE IF inFlight(e) /\ idle(e) THEN "failed" ELSE status[e]]
    <3>1. Commit(QueueScopes, st, rn, cleanup)
      BY <2>5 DEF RecoverPending, MaintenanceTx
    <3>2. /\ status[d] \in {"running", "cleanup_unconfirmed"} /\ cleanup[d] = "namespace"
          /\ slot[ScopeOf[d]] = d /\ Settled(d)
      BY <1>0, <2>5 DEF Firm, Held, Sound, Quiet
    <3>. HIDE DEF orphan
    <3>3. ~onAgent(d)
      BY <3>2 DEF Settled, Cancelling, OnAgent
    <3>. HIDE DEF rn, onAgent, idle
    <3>4. st[d] = "cleanup_unconfirmed" /\ st \in [Deployment -> Status]
      BY <1>0, <3>2, <3>3 DEF Status, Terminal
    <3>. HIDE DEF st
    <3>5. status'[d] = "cleanup_unconfirmed" /\ cleanup' = cleanup
      BY <3>1, <3>4, Advanced DEF Admitted
    <3>6. slot' = AdvanceSlot(QueueScopes, st, rn, cleanup)
      BY <3>1 DEF Commit
    <3>7. slot'[ScopeOf[d]] = d
      BY <3>2, <3>4, <3>6, BlockerKeeps
    <3>. QED
      BY <2>1, <2>2, <3>2, <3>5, <3>7 DEF Firm, Busy, Recorded, Held, Recording
  <2>. QED
    BY <2>1, <2>3, <2>4, <2>5
<1>. QED
  BY <1>1, <1>2, <1>3, <1>4 DEF Crash, Exit

\* A goroutine steps, and a retry is made, only by a server that is up.
LEMMA StartingStep ==
    ASSUME KInv, RNext
    PROVE  Starting'
<1>0. Starting
  BY DEF KInv
<1>1. ASSUME NEW x \in Deployment, JobStep(x) \/ Cancel(x)
      PROVE  server' = server /\ server \notin {"down", "listening"}
  <2>1. server' = server
    BY <1>1 DEF JobStep, Launch, AdmissionFails, PrepareFails, LoopCancelled, BeginLocal,
         StartAttempt, NoAttempt, QueueStep, AttemptEnds, CheckEnds, Persist, PersistFails,
         AttemptUnclean, CheckUnclean, CaptureGate, PauseGate, SendCancel, Poll, PollTimeout,
         PollCancelled, BeginCheck, RunCheck, RetryCompletion, Cancel, HostUnchanged, WorldUnchanged
  <2>2. \/ server \in {"up", "draining"}
        \/ job[x].pc # "none"
        \/ retry[x] \in Completion
    BY <1>1 DEF JobStep, Launch, AdmissionFails, PrepareFails, LoopCancelled, BeginLocal,
         StartAttempt, NoAttempt, QueueStep, AttemptEnds, CheckEnds, Persist, PersistFails,
         AttemptUnclean, CheckUnclean, CaptureGate, PauseGate, SendCancel, Poll, PollTimeout,
         PollCancelled, BeginCheck, RunCheck, RetryCompletion, Cancel, At
  <2>3. NoRetry \notin Completion
    BY DEF NoRetry, Completion, Terminal
  <2>. QED
    BY <1>0, <2>1, <2>2, <2>3 DEF Starting
<1>2. ASSUME UNCHANGED <<server, job, retry>> PROVE Starting'
  BY <1>0, <1>2 DEF Starting
<1>3. ASSUME \/ \E d \in Deployment : Request(d)
             \/ \E d \in Deployment, a \in Agent : AgentStep(d, a)
             \/ \E a \in Agent : AgentPolls(a)
             \/ Upkeep
      PROVE  UNCHANGED <<server, job, retry>>
  BY <1>3 DEF Request, AgentStep, AgentClaims, AgentStarts, AgentReports, AgentAcks, AgentEnds,
              AgentReconciles, AgentPolls, Upkeep, runnerVars
<1>4. ASSUME Crash \/ Exit PROVE Starting'
  BY <1>4 DEF Crash, Exit, Die, Starting, NoJob
<1>5. ASSUME Boot PROVE Starting'
  BY <1>0, <1>5 DEF Boot, Starting
<1>6. ASSUME Signal \/ KillAll \/ Recover PROVE Starting'
  BY <1>6 DEF Signal, KillAll, Recover, Starting
<1>. QED
  BY <1>1, <1>2, <1>3, <1>4, <1>5, <1>6 DEF RNext, Starting

LEMMA ExclusiveInvariant == "admission" \notin Fault => (RSpec => []KInv)
<1>. SUFFICES ASSUME "admission" \notin Fault PROVE RSpec => []KInv
  OBVIOUS
<1>1. RInit /\ JInv => KInv
  <2>. SUFFICES ASSUME RInit, JInv PROVE KInv
    OBVIOUS
  <2>1. \A d \in Deployment : job[d].pc = "none" /\ retry[d] = NoRetry /\ d \notin container
    BY DEF RInit, NoJob
  <2>. QED
    BY <2>1 DEF KInv, Starting, Firm, Busy, Recorded, Held, Recording
<1>2. KInv /\ JInv' /\ [RNext]_allVars => KInv'
  <2>. SUFFICES ASSUME KInv, JInv', [RNext]_allVars PROVE KInv'
    OBVIOUS
  <2>0. JInv /\ IInv
    BY DEF KInv, JInv
  <2>1. CASE UNCHANGED allVars
    <3>1. UNCHANGED <<status, slot, run, cleanup>> /\ UNCHANGED <<server, job, retry, container>>
      BY <2>1 DEF allVars, vars, runnerVars
    <3>. QED
      BY <3>1 DEF KInv, Starting, Firm, Busy, Recorded, Held
  <2>2. ASSUME NEW x \in Deployment,
               JobStep(x) \/ Cancel(x) \/ Request(x) \/ \E a \in Agent : AgentStep(x, a)
        PROVE  \A d \in Deployment : Firm(d)'
    <3>1. Step(x)
      BY <2>0, <2>2, JobSteps, OperatorSteps, AgentSteps
    <3>2. ASSUME NEW d \in Deployment, d # x PROVE Firm(d)'
      <4>1. Bystander(d)
        BY <3>1, <3>2 DEF Step, Others
      <4>2. KeepsSlot(d)
        BY <2>0, <2>2, <3>2, StepTransacts, SlotsKept
      <4>. QED
        BY <4>1, <4>2, FirmBystander
    <3>3. \A tied : ~AdmissionFails(x, tied)
      BY DEF AdmissionFails
    <3>4. Firm(x)'
      <4>1. JobStep(x) => Firm(x)'
        BY <3>3, FirmMoves, FirmWrites, FirmEnds, FirmOutside DEF JobStep
      <4>. QED
        BY <2>2, <4>1, FirmOutside
    <3>. QED
      BY <3>2, <3>4
  <2>3. ASSUME RNext PROVE \A d \in Deployment : Firm(d)'
    BY <2>2, <2>3, FirmUpkeep, FirmServer DEF RNext
  <2>. QED
    BY <2>1, <2>3, StartingStep DEF KInv
<1>. QED
  BY <1>1, <1>2, ServerInvariant, PTL DEF RSpec

\* Containers and agents work only for the deployment that owns the scope:
\* whatever crashes, is lost, cannot be removed or completes late, no second
\* deployment owns it meanwhile.  The one exception is a failing admission,
\* for which the run admission_retry shows how.
THEOREM ScopeWorkExclusive == "admission" \notin Fault => (RSpec => []WorkExclusive)
<1>. SUFFICES ASSUME "admission" \notin Fault PROVE RSpec => []WorkExclusive
  OBVIOUS
<1>1. KInv => WorkExclusive
  <2>. SUFFICES ASSUME KInv, NEW d \in Deployment, d \in container \/ OnAgents(d)
                PROVE  slot[ScopeOf[d]] = d
    BY DEF WorkExclusive
  <2>0. IInv /\ Sound(d) /\ Firm(d)
    BY FirmKnown
  <2>1. CASE d \in container
    BY <2>0, <2>1 DEF Firm, Held
  <2>2. CASE OnAgents(d)
    BY <2>0, <2>2 DEF OnAgents, Sound, AgentsKnown, IInv, SlotOwned, Occupies
  <2>. QED
    BY <2>1, <2>2
<1>. QED
  BY <1>1, ExclusiveInvariant, PTL

\* A recorded success, cancellation, rejection or expiry is never overwritten:
\* a completion, at once or retried, comes only from a goroutine whose
\* deployment is still under way.  Again unless an admission fails: a shutdown
\* turns the retry of its failure into a cancellation, which a goroutine that was
\* launched meanwhile overwrites.
THEOREM OutcomesAreFinal == "admission" \notin Fault => (RSpec => OutcomeFinal)
<1>. SUFFICES ASSUME "admission" \notin Fault PROVE RSpec => OutcomeFinal
  OBVIOUS
<1>1. ASSUME KInv, RNext, NEW d \in Deployment,
             status[d] \in {"succeeded", "cancelled", "rejected", "expired"}
      PROVE  status'[d] = status[d]
  <2>0. JInv /\ Firm(d)
    BY <1>1 DEF KInv
  <2>1. job[d].pc = "none" /\ retry[d] = NoRetry
    BY <1>1, <2>0 DEF Firm, Busy, Underway
  <2>2. NoRetry \notin Completion
    BY DEF NoRetry, Completion, Terminal
  <2>3. Plain(d)
    BY <1>1, <2>0, <2>1, <2>2, StepEffect DEF Effect, Persist, PersistFails, At, RetryCompletion
  <2>. QED
    BY <1>1, <2>3 DEF Plain, Final
<1>2. KInv /\ [RNext]_allVars =>
        [\A d \in Deployment :
            status[d] \in {"succeeded", "cancelled", "rejected", "expired"}
                => status'[d] = status[d]]_allVars
  BY <1>1
<1>. QED
  BY <1>2, ExclusiveInvariant, PTL DEF RSpec, OutcomeFinal

=============================================================================
