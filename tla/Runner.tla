------------------------------- MODULE Runner -------------------------------
(***************************************************************************)
(* The process that executes deployments, on top of the queue tables: one  *)
(* goroutine per admitted deployment (DeploymentRunner.Run), the operator  *)
(* who cancels, the agents that execute remote steps, and the restart of   *)
(* the server.  Goroutines, agents and maintenance interleave freely       *)
(* between transactions.  What a container or an agent physically does is  *)
(* kept apart (container, working) from what the tables say about it.      *)
(***************************************************************************)
EXTENDS DeploymentQueue, Sequences

CONSTANTS
    Plan,           \* the frozen steps: "local", "agent" or "gate" (a local
                    \* step whose artifact a person must approve)
    Verification,   \* "none", "http" or "bash": the post-deployment check
    Fault,          \* the failures considered, of the set Faults
    MaxRetries,     \* deployment_steps.max_retries of every step
    MaxRestarts     \* bound on server restarts

\* The process dies, or is told to stop; the container engine fails to remove
\* something; the transaction that completes, pauses or recovers a
\* deployment, or the read of its runs, fails; the transaction that admits
\* one fails.
Faults == {"crash", "shutdown", "engine", "commit", "admission"}

ASSUME PlanAssumption == Plan \in Seq({"local", "agent", "gate"})
ASSUME FaultAssumption == Fault \subseteq Faults
ASSUME BoundAssumption == MaxRestarts \in Nat /\ MaxRetries \in Nat

VARIABLES
    server,     \* "down", "listening" (agents served, recovery due), "up",
                \* "draining" (signalled, its context cancelled) or "stopping"
    restarts,
    localErr,   \* DeploymentRunner.localErr: the engine was not reconciled
    job,        \* the goroutine of each deployment
    retry,      \* the completion a background retry still has to persist
    resume,     \* artifact_gate_runs.next_step, counted from 1
    container,  \* deployments whose attempt container exists on the host
    working,    \* pairs <<d, a>>: agent a executes a step of d
    outcome     \* what agent a will report about d

runnerVars == <<server, restarts, localErr, job, retry, resume, container, working, outcome>>
allVars == <<vars, runnerVars>>

\* No goroutine.  Otherwise pc is where it stands, step the step it is at,
\* attempt the attempt it makes, known whether r.cancels has it, tied whether
\* ctx is the server's (ServeQueue) and not context.Background(), cancelled
\* whether runCtx is cancelled, operator and remote the variables
\* operatorCancelled and cancellationNeeded / cancellationRequested of
\* runRemoteStep; want and wins are the arguments status and cancellationWins
\* of persistCompletion.
NoJob == [pc |-> "none", step |-> 0, attempt |-> 1, known |-> FALSE, tied |-> FALSE, cancelled |-> FALSE,
          operator |-> FALSE, remote |-> "no", want |-> "none", wins |-> FALSE]

\* The arguments status and localCleanupConfirmed of retryCompletion, and
\* whether the server's context can still turn the status into "cancelled".
Completion == [want : Terminal, clean : BOOLEAN, wins : BOOLEAN]
NoRetry == [want |-> "none", clean |-> TRUE, wins |-> FALSE]

Pc == {"none", "loop", "attempt", "exec", "capture", "pause", "poll", "check",
       "checking", "save"}
Outcome == {"none", "succeeded", "failed", "cancelled", "cleanup_unconfirmed"}

Becomes(d, changes) == job' = [job EXCEPT ![d] = changes]
GoTo(d, pc) == Becomes(d, [job[d] EXCEPT !.pc = pc])
NextLoop(d) == Becomes(d, [job[d] EXCEPT !.pc = "loop", !.step = @ + 1, !.attempt = 1,
                                         !.operator = FALSE, !.remote = "no"])
\* Run returns without completing: r.cancels keeps the deployment.
Returns(d) == Becomes(d, [NoJob EXCEPT !.known = job[d].known])

Save(d, want, wins) ==
    Becomes(d, [job[d] EXCEPT !.pc = "save", !.want = want, !.wins = wins,
                              !.attempt = 1, !.operator = FALSE, !.remote = "no"])

\* Only a shutdown tells goroutines of ServeQueue from the others.
Tied == IF "shutdown" \in Fault THEN BOOLEAN ELSE {FALSE}

\* ctx is cancelled: every statement the goroutine sends with it fails.
Dead(d) == job[d].tied /\ server \in {"draining", "stopping"}

Serving == server \in {"listening", "up", "draining"}

At(d, pc) == server # "down" /\ job[d].pc = pc
TablesUnchanged == UNCHANGED vars
WorldUnchanged == UNCHANGED <<server, restarts, localErr, resume, working, outcome>>
HostUnchanged == WorldUnchanged /\ UNCHANGED <<retry, container>>

-----------------------------------------------------------------------------
(* DeploymentRunner.Run.                                                   *)

\* Admission, under r.mu: no goroutine yet, then StartLocalDeployment or, for
\* a gated deployment, BeginArtifactGateRun.
Launch(d, tied) ==
    /\ server = "up" \/ (server = "draining" /\ ~tied)
    /\ ~job[d].known
    /\ StartLocal(d)
    /\ Becomes(d, [NoJob EXCEPT !.pc = "loop", !.step = resume[d], !.known = TRUE,
                                !.tied = tied])
    /\ HostUnchanged

Gated == \E i \in DOMAIN Plan : Plan[i] = "gate"

\* BeginArtifactGateRun returns a database error: failUnlessCancelled then
\* reads the deployment (or gives up) and fails it, in the background if that
\* transaction fails too.  Nothing was registered.
AdmissionFails(d, tied) ==
    /\ server = "up"
    /\ "admission" \in Fault /\ Gated
    /\ ~job[d].known /\ status[d] = "pending"
    /\ \/ Complete(d, "failed", TRUE) /\ UNCHANGED retry
       \/ /\ "commit" \in Fault
          /\ retry[d] = NoRetry
          /\ retry' = [retry EXCEPT ![d] = [want |-> "failed", clean |-> TRUE, wins |-> tied]]
          /\ TablesUnchanged
    /\ WorldUnchanged /\ UNCHANGED <<job, container>>

InPlan(d) == job[d].step <= Len(Plan)

\* Loading, validating, staging the package or restoring the approved
\* artifact fails before the first step.
PrepareFails(d) ==
    /\ At(d, "loop")
    /\ job[d].step = resume[d]
    /\ Save(d, "failed", TRUE)
    /\ TablesUnchanged /\ HostUnchanged

\* The loop head and the end of the loop see a cancelled runCtx.
LoopCancelled(d) ==
    /\ At(d, "loop")
    /\ job[d].cancelled
    /\ Save(d, "cancelled", FALSE)
    /\ TablesUnchanged /\ HostUnchanged

\* runRemoteStep queues the runs; nothing is created when no agent matches,
\* when the deployment is no longer running, or when staging fails.
QueueStep(d, As) ==
    /\ At(d, "loop") /\ ~job[d].cancelled
    /\ InPlan(d) /\ Plan[job[d].step] = "agent"
    /\ \/ QueueRuns(d, As) /\ GoTo(d, "poll")
       \/ /\ As = {} \/ status[d] # "running"
          /\ Save(d, "failed", FALSE)
          /\ TablesUnchanged
    /\ HostUnchanged

\* Mutant of BeginLocal: the container comes before its namespace is recorded.
BeginLocalUnrecorded(d) ==
    /\ At(d, "loop") /\ ~job[d].cancelled
    /\ InPlan(d) /\ Plan[job[d].step] # "agent"
    /\ GoTo(d, "attempt")
    /\ TablesUnchanged /\ HostUnchanged

\* A local step records the container namespace first.  If the deployment is
\* no longer running nothing is recorded and no container is created.
BeginLocal(d) ==
    /\ At(d, "loop") /\ ~job[d].cancelled
    /\ InPlan(d) /\ Plan[job[d].step] # "agent"
    /\ \/ RecordNamespace(d) /\ GoTo(d, "attempt")
       \/ /\ status[d] # "running"
          /\ IF cleanup[d] = "namespace" THEN Save(d, "cleanup_unconfirmed", FALSE)
             ELSE IF status[d] = "cancelled" THEN Returns(d)
             ELSE Save(d, "failed", TRUE)
          /\ TablesUnchanged
    /\ HostUnchanged

\* runStepAttempt: the container is created, or something before it fails.
StartAttempt(d) ==
    /\ At(d, "attempt") /\ server # "stopping"
    /\ ~localErr
    /\ container' = container \cup {d}
    /\ GoTo(d, "exec")
    /\ TablesUnchanged
    /\ WorldUnchanged /\ UNCHANGED retry

\* A failed attempt is retried or ends the deployment; cancellation wins.
AttemptFails(d) ==
    \/ job[d].cancelled /\ Save(d, "cancelled", FALSE)
    \/ /\ ~job[d].cancelled
       /\ IF status[d] = "cancelled" THEN Returns(d)
          ELSE IF job[d].attempt <= MaxRetries
          THEN Becomes(d, [job[d] EXCEPT !.pc = "attempt", !.attempt = @ + 1])
          ELSE Save(d, "failed", TRUE)

\* Staging for the step fails, or the attempt fails before its container.
NoAttempt(d) ==
    /\ At(d, "attempt")
    /\ AttemptFails(d) \/ Save(d, "failed", TRUE)
    /\ TablesUnchanged /\ HostUnchanged

\* The container stopped and was removed.
AttemptEnds(d, ok) ==
    /\ At(d, "exec")
    /\ container' = container \ {d}
    /\ IF ~ok THEN AttemptFails(d)
       ELSE IF Plan[job[d].step] = "gate" THEN GoTo(d, "capture")
       ELSE NextLoop(d)
    /\ TablesUnchanged
    /\ WorldUnchanged /\ UNCHANGED retry

\* errContainerCleanup: its removal could not be confirmed.
AttemptUnclean(d) ==
    /\ At(d, "exec")
    /\ "engine" \in Fault
    /\ Save(d, "cleanup_unconfirmed", FALSE)
    /\ TablesUnchanged /\ HostUnchanged

\* captureArtifactGate, up to SaveArtifactGate.
CaptureGate(d) ==
    /\ At(d, "capture")
    /\ \/ ~job[d].cancelled /\ GateStep(d, "publishing_artifact") /\ GoTo(d, "pause")
       \/ Save(d, IF job[d].cancelled THEN "cancelled" ELSE "failed", ~job[d].cancelled)
          /\ TablesUnchanged
    /\ HostUnchanged

\* The staged files are removed; PauseArtifactGate under r.mu then also forgets
\* the goroutine.
PauseGate(d) ==
    /\ At(d, "pause")
    /\ \/ /\ ~job[d].cancelled
          /\ GateStep(d, "awaiting_artifact_approval")
          /\ resume' = [resume EXCEPT ![d] = job[d].step + 1]
          /\ Becomes(d, NoJob)
       \/ /\ IF job[d].cancelled THEN Save(d, "cancelled", FALSE)
             ELSE Fault \cap {"engine", "commit"} # {} /\ Save(d, "failed", TRUE)
          /\ TablesUnchanged /\ UNCHANGED resume
    /\ UNCHANGED <<server, restarts, localErr, retry, container, working, outcome>>

-----------------------------------------------------------------------------
(* The polling loop of runRemoteStep.                                      *)

StatesOf(d) == {run[d][a] : a \in Agent} \ {"none"}
HasActive(d) == StatesOf(d) \cap Active # {}
Uncertain(d) == StatesOf(d) \cap Cleanup # {}
HasFailure(d) ==
    \/ StatesOf(d) \cap ({"failed", "lost", "cancel_unconfirmed"} \cup Cleanup) # {}
    \/ "cancelled" \in StatesOf(d) /\ ~job[d].operator
AllSucceeded(d) == StatesOf(d) = {"succeeded"}

\* RequestRemoteStepCancellation, once per step.
SendCancel(d) ==
    /\ At(d, "poll") /\ ~Dead(d)
    /\ job[d].remote = "needed"
    /\ RequestCancel(d)
    /\ Becomes(d, [job[d] EXCEPT !.remote = "sent"])
    /\ HostUnchanged

\* The step's runs all succeeded; merging what they staged may fail.
StepDone(d) ==
    \/ NextLoop(d)
    \/ Save(d, IF job[d].cancelled THEN "cancelled" ELSE "failed", FALSE)

\* Mutant of Poll: one successful agent is taken for all of them.
PollAnySuccess(d) ==
    /\ At(d, "poll")
    /\ \/ "succeeded" \in StatesOf(d) /\ StepDone(d)
       \/ ~HasActive(d) /\ HasFailure(d) /\ Save(d, "failed", FALSE)
    /\ TablesUnchanged /\ HostUnchanged

\* Mutant of Poll: runs that neither wait nor failed are taken for successes,
\* those that agents still execute included.
PollUnfailed(d) ==
    /\ At(d, "poll")
    /\ StatesOf(d) \cap {"waiting", "claimed"} = {}
    /\ IF HasFailure(d) THEN Save(d, "failed", FALSE) ELSE StepDone(d)
    /\ TablesUnchanged /\ HostUnchanged

\* One read of the runs and what follows from it.  A read that fails, or a
\* cancelled ctx, ends the deployment and leaves its runs to themselves.
Poll(d) ==
    /\ At(d, "poll")
    /\ \/ /\ ~Dead(d) /\ job[d].remote # "needed"
          /\ ~HasActive(d)
          /\ IF Uncertain(d) THEN Save(d, "cleanup_unconfirmed", FALSE)
             ELSE IF HasFailure(d) THEN Save(d, "failed", FALSE)
             ELSE IF job[d].operator THEN Save(d, "cancelled", FALSE)
             ELSE AllSucceeded(d) /\ StepDone(d)
       \/ /\ ~Dead(d) /\ job[d].remote = "no"
          /\ HasActive(d) /\ HasFailure(d)
          /\ Becomes(d, [job[d] EXCEPT !.remote = "needed"])
       \/ /\ Dead(d) \/ ("commit" \in Fault /\ job[d].remote # "needed")
          /\ Save(d, "failed", FALSE)
    /\ TablesUnchanged /\ HostUnchanged

\* Mutant of PollTimeout: a run nobody starts uses no budget.
PollTimeoutStarted(d) ==
    /\ At(d, "poll")
    /\ "started" \in StatesOf(d)
    /\ job[d].remote = "no"
    /\ Becomes(d, [job[d] EXCEPT !.remote = "needed"])
    /\ TablesUnchanged /\ HostUnchanged

\* The step's time budget is used up.
PollTimeout(d) ==
    /\ At(d, "poll")
    /\ HasActive(d)
    /\ job[d].remote = "no"
    /\ Becomes(d, [job[d] EXCEPT !.remote = "needed"])
    /\ TablesUnchanged /\ HostUnchanged

\* The loop notices that runCtx was cancelled; it also keeps waiting if the
\* deletion of an agent took the last run away.
PollCancelled(d) ==
    /\ At(d, "poll")
    /\ job[d].cancelled /\ ~job[d].operator
    /\ HasActive(d) \/ StatesOf(d) = {}
    /\ Becomes(d, [job[d] EXCEPT !.operator = TRUE,
                                 !.remote = IF @ = "no" THEN "needed" ELSE @])
    /\ TablesUnchanged /\ HostUnchanged

-----------------------------------------------------------------------------
(* Verification and completion.                                            *)

\* After the last step: verifyDeployment, and verifyBash's own container.
BeginCheck(d) ==
    /\ At(d, "loop") /\ ~job[d].cancelled
    /\ ~InPlan(d)
    /\ \/ Verification = "none" /\ Save(d, "succeeded", TRUE) /\ TablesUnchanged
       \/ Verification = "http" /\ GoTo(d, "checking") /\ TablesUnchanged
       \/ Verification = "bash" /\ RecordNamespace(d) /\ GoTo(d, "check")
       \/ /\ Verification = "bash" /\ status[d] # "running"
          /\ Save(d, "cleanup_unconfirmed", FALSE)
          /\ TablesUnchanged
    /\ HostUnchanged

\* A check that fails while runCtx is cancelled ends as cancelled, unless
\* runCtx was cancelled only after the check had returned.
CheckFails(d) ==
    IF job[d].cancelled THEN Save(d, "cancelled", FALSE) \/ Save(d, "failed", FALSE)
    ELSE Save(d, "failed", TRUE)

RunCheck(d) ==
    /\ At(d, "check")
    /\ \/ ~localErr /\ server # "stopping" /\ container' = container \cup {d} /\ GoTo(d, "checking")
       \/ CheckFails(d) /\ UNCHANGED container
    /\ TablesUnchanged
    /\ WorldUnchanged /\ UNCHANGED retry

CheckEnds(d, ok) ==
    /\ At(d, "checking")
    /\ container' = container \ {d}
    /\ IF ~ok THEN CheckFails(d)
       ELSE IF job[d].cancelled THEN Save(d, "cancelled", FALSE)
       ELSE Save(d, "succeeded", TRUE)
    /\ TablesUnchanged
    /\ WorldUnchanged /\ UNCHANGED retry

CheckUnclean(d) ==
    /\ At(d, "checking")
    /\ "engine" \in Fault /\ Verification = "bash"
    /\ Save(d, "cleanup_unconfirmed", FALSE)
    /\ TablesUnchanged /\ HostUnchanged

\* Mutant of Wanted: an accepted cancellation loses against the outcome.
WantedAnyway(d, clean) == IF ~clean THEN "cleanup_unconfirmed" ELSE job[d].want

\* persistCompletion and completeDeployment: clean tells whether the staged
\* artifacts were removed; a cancelled runCtx turns want into "cancelled"
\* when cancellation wins.
Wanted(d, clean) ==
    IF ~clean THEN "cleanup_unconfirmed"
    ELSE IF job[d].wins /\ job[d].cancelled THEN "cancelled"
    ELSE job[d].want

Persist(d, clean) ==
    /\ At(d, "save") /\ ~Dead(d)
    /\ clean \/ "engine" \in Fault
    /\ Complete(d, Wanted(d, clean), clean)
    /\ Becomes(d, NoJob)
    /\ HostUnchanged

\* The transaction fails: the goroutine is forgotten (UnregisterCancel) and
\* the completion is retried in the background with a context of its own, up
\* to 30 seconds, unless a retry is under way already or the runner stops.
PersistFails(d, clean) ==
    /\ At(d, "save")
    /\ "commit" \in Fault \/ Dead(d)
    /\ clean \/ "engine" \in Fault
    /\ Becomes(d, NoJob)
    /\ retry' = IF server = "stopping" \/ retry[d] # NoRetry THEN retry
                ELSE [retry EXCEPT ![d] =
                         [want |-> Wanted(d, clean), clean |-> clean,
                          wins |-> clean /\ job[d].wins /\ job[d].tied]]
    /\ TablesUnchanged /\ WorldUnchanged /\ UNCHANGED container

\* The completion goes through, and completeDeployment drops whatever
\* goroutine r.cancels knows; or the 30 seconds are over.
RetryCompletion(d) ==
    /\ server # "down"
    /\ retry[d] \in Completion
    /\ retry' = [retry EXCEPT ![d] = NoRetry]
    /\ \/ /\ Complete(d, retry[d].want, retry[d].clean)
          /\ job' = [job EXCEPT ![d].known = FALSE]
       \/ TablesUnchanged /\ UNCHANGED job
    /\ WorldUnchanged /\ UNCHANGED container

-----------------------------------------------------------------------------
(* The operator.                                                           *)

\* DeploymentRunner.Cancel: only a registered goroutine can be cancelled.
Cancel(d) ==
    /\ server \in {"up", "draining"}
    /\ job[d].known /\ ~job[d].cancelled
    /\ Becomes(d, [job[d] EXCEPT !.cancelled = TRUE])
    /\ TablesUnchanged /\ HostUnchanged

\* Creation, CancelPrestart, and the decision on a paused artifact.
Request(d) ==
    /\ server \in {"up", "draining"}
    /\ \/ Create(d, "queued")
       \/ CancelQueued(d)
       \/ \E st \in {"pending", "rejected", "cancelled"} : GateStep(d, st)
    /\ UNCHANGED runnerVars

-----------------------------------------------------------------------------
(* Agents (external): they execute what they claimed and report later.     *)

Idle(a) == \A d \in Deployment : <<d, a>> \notin working

AgentClaims(d, a) ==
    /\ Serving
    /\ Idle(a)
    /\ Claim(d, a)
    /\ outcome' = [outcome EXCEPT ![d][a] = "none"]
    /\ UNCHANGED <<server, restarts, localErr, job, retry, resume, container, working>>

\* StartRemoteStep answers "go ahead" to a claimed run, and also to one whose
\* cancellation has been requested meanwhile.
AgentStarts(d, a) ==
    /\ Serving
    /\ Idle(a) /\ outcome[d][a] = "none"
    /\ \/ StartRun(d, a)
       \/ run[d][a] = "cancel_requested" /\ TablesUnchanged
    /\ working' = working \cup {<<d, a>>}
    /\ UNCHANGED <<server, restarts, localErr, job, retry, resume, container, outcome>>

\* The script ends; if the container cannot be removed it is still there.
AgentEnds(d, a, result) ==
    /\ <<d, a>> \in working
    /\ outcome[d][a] = "none"
    /\ result = "cancelled" => run[d][a] \in {"cancel_requested", "cancel_unconfirmed"}
    /\ outcome' = [outcome EXCEPT ![d][a] = result]
    /\ working' = IF result = "cleanup_unconfirmed" THEN working ELSE working \ {<<d, a>>}
    /\ TablesUnchanged
    /\ UNCHANGED <<server, restarts, localErr, job, retry, resume, container>>

AgentReports(d, a) ==
    /\ Serving
    /\ outcome[d][a] # "none"
    /\ FinishRun(d, a, outcome[d][a])
    /\ UNCHANGED runnerVars

AgentAcks(d, a) ==
    /\ Serving
    /\ <<d, a>> \notin working
    /\ AckCancel(d, a)
    /\ UNCHANGED runnerVars

\* The agent removes a left-over container, then polls with ready = true.
AgentReconciles(d, a) ==
    /\ <<d, a>> \in working
    /\ outcome[d][a] = "cleanup_unconfirmed"
    /\ run[d][a] = "cleanup_unconfirmed"
    /\ working' = working \ {<<d, a>>}
    /\ TablesUnchanged
    /\ UNCHANGED <<server, restarts, localErr, job, retry, resume, container, outcome>>

AgentPolls(a) ==
    /\ Serving
    /\ Idle(a)
    /\ \E failed \in SUBSET Deployment : AgentPoll(a, TRUE, failed)
    /\ UNCHANGED runnerVars

-----------------------------------------------------------------------------
(* The server process.                                                     *)

Upkeep ==
    /\ Serving
    /\ \/ \E due \in SUBSET (Deployment \X Agent) : Maintain(due)
       \/ \E a \in Agent : RevokeAgent(a) \/ \E revoked \in BOOLEAN : DeleteAgent(a, revoked)
       \/ \E D \in SUBSET {d \in Deployment : resume[d] > 1} : ExpireGates(D)
       \/ server = "up" /\ \E e \in Env : Reconcile(e)
    /\ UNCHANGED runnerVars

\* The process is gone, and its goroutines; containers and agents go on.
Die ==
    /\ server' = "down"
    /\ job' = [d \in Deployment |-> NoJob]
    /\ retry' = [d \in Deployment |-> NoRetry]
    /\ TablesUnchanged
    /\ UNCHANGED <<localErr, resume, container, working, outcome>>

Crash ==
    /\ "crash" \in Fault
    /\ server # "down" /\ restarts < MaxRestarts
    /\ restarts' = restarts + 1
    /\ Die

\* SIGTERM: the server's context is cancelled, and with it that of every
\* goroutine ServeQueue launched; listeners are shut down.
Signal ==
    /\ "shutdown" \in Fault
    /\ server = "up" /\ restarts < MaxRestarts
    /\ server' = "draining" /\ restarts' = restarts + 1
    /\ job' = [d \in Deployment |-> [job[d] EXCEPT !.cancelled = @ \/ job[d].tied]]
    /\ retry' = [d \in Deployment |->
                     IF retry[d].wins THEN [retry[d] EXCEPT !.want = "cancelled", !.wins = FALSE]
                     ELSE retry[d]]
    /\ TablesUnchanged
    /\ UNCHANGED <<localErr, resume, container, working, outcome>>

\* KillAll closes admission and cancels every goroutine r.cancels has.
KillAll ==
    /\ server = "draining" /\ server' = "stopping"
    /\ job' = [d \in Deployment |-> [job[d] EXCEPT !.cancelled = @ \/ job[d].known]]
    /\ TablesUnchanged
    /\ UNCHANGED <<restarts, localErr, retry, resume, container, working, outcome>>

\* KillAll waits for local work and for the retries under way, not for agents.
Exit ==
    /\ server = "stopping"
    /\ \A d \in Deployment : /\ job[d].pc \notin {"attempt", "exec", "capture", "pause"}
                             /\ job[d].pc = "checking" => d \notin container
                             /\ retry[d] = NoRetry
    /\ Die /\ UNCHANGED restarts

\* newRunnerWithKind: reconcileAttempts removes every container of the
\* namespace and confirms it, or fails part of the way.
Boot ==
    /\ server = "down"
    /\ \/ /\ ConfirmContainerCleanup
          /\ container' = {} /\ localErr' = FALSE
       \/ /\ Fault \cap {"engine", "commit"} # {}
          /\ container' \in SUBSET container /\ localErr' = TRUE
          /\ TablesUnchanged
    /\ server' = "listening"
    /\ UNCHANGED <<restarts, job, retry, resume, working, outcome>>

\* recoverPendingDeployments; a failed transaction is only logged.
Recover ==
    /\ server = "listening"
    /\ RecoverPending \/ ("commit" \in Fault /\ TablesUnchanged)
    /\ server' = "up"
    /\ UNCHANGED <<restarts, localErr, job, retry, resume, container, working, outcome>>

-----------------------------------------------------------------------------

RInit ==
    /\ Init
    /\ server = "up" /\ restarts = 0 /\ localErr = FALSE
    /\ job = [d \in Deployment |-> NoJob]
    /\ retry = [d \in Deployment |-> NoRetry]
    /\ resume = [d \in Deployment |-> 1]
    /\ container = {} /\ working = {}
    /\ outcome = [d \in Deployment |-> [a \in Agent |-> "none"]]

JobStep(d) ==
    \/ \E tied \in Tied : Launch(d, tied) \/ AdmissionFails(d, tied)
    \/ PrepareFails(d) \/ LoopCancelled(d)
    \/ BeginLocal(d) \/ StartAttempt(d) \/ NoAttempt(d)
    \/ \E As \in SUBSET Agent : QueueStep(d, As)
    \/ \E ok \in BOOLEAN : AttemptEnds(d, ok) \/ CheckEnds(d, ok)
    \/ \E clean \in BOOLEAN : Persist(d, clean) \/ PersistFails(d, clean)
    \/ AttemptUnclean(d) \/ CheckUnclean(d)
    \/ CaptureGate(d) \/ PauseGate(d)
    \/ SendCancel(d) \/ Poll(d) \/ PollTimeout(d) \/ PollCancelled(d)
    \/ BeginCheck(d) \/ RunCheck(d) \/ RetryCompletion(d)

AgentStep(d, a) ==
    \/ AgentClaims(d, a) \/ AgentStarts(d, a) \/ AgentReports(d, a) \/ AgentAcks(d, a)
    \/ \E result \in Outcome \ {"none"} : AgentEnds(d, a, result)
    \/ AgentReconciles(d, a)

RNext ==
    \/ \E d \in Deployment : JobStep(d) \/ Cancel(d) \/ Request(d)
    \/ \E d \in Deployment, a \in Agent : AgentStep(d, a)
    \/ \E a \in Agent : AgentPolls(a)
    \/ Upkeep \/ Crash \/ Signal \/ KillAll \/ Exit \/ Boot \/ Recover

RSpec == RInit /\ [][RNext]_allVars

\* One round of Dispatcher.Maintain in which every cancellation request has
\* passed its fixed deadline, which no heartbeat extends.
Sweep ==
    /\ Serving
    /\ Maintain({p \in Deployment \X Agent : run[p[1]][p[2]] = "cancel_requested"})
    /\ UNCHANGED runnerVars

\* Goroutines run and their timeouts fire, the maintenance loop ticks, a
\* shutdown runs to its end, and a server that stopped is started again.  Nothing is assumed of agents or
\* operators.
RFairness ==
    /\ \A d \in Deployment : WF_allVars(JobStep(d))
    /\ WF_allVars(Sweep)
    /\ WF_allVars(KillAll) /\ WF_allVars(Exit)
    /\ WF_allVars(Boot) /\ WF_allVars(Recover)

RFairSpec == RSpec /\ RFairness

-----------------------------------------------------------------------------
(* Properties.                                                             *)

\* The goroutine of a deployment stays within its plan and its retry budget,
\* and the restart bound is respected.
RTypeOK ==
    /\ TypeOK
    /\ server \in {"down", "listening", "up", "draining", "stopping"}
    /\ restarts \in 0..MaxRestarts
    /\ localErr \in BOOLEAN
    /\ job \in [Deployment -> [pc : Pc, step : 0..(Len(Plan) + 1), attempt : 1..(MaxRetries + 1),
                               known : BOOLEAN, tied : BOOLEAN, cancelled : BOOLEAN, operator : BOOLEAN,
                               remote : {"no", "needed", "sent"},
                               want : Terminal \cup {"none"}, wins : BOOLEAN]]
    /\ retry \in [Deployment -> Completion \cup {NoRetry}]
    /\ resume \in [Deployment -> 1..(Len(Plan) + 1)]
    /\ container \in SUBSET Deployment
    /\ working \in SUBSET (Deployment \X Agent)
    /\ outcome \in [Deployment -> [Agent -> Outcome]]

OnAgents(d) == \E a \in Agent : <<d, a>> \in working

\* Containers and agents really execute only for the deployment that owns the
\* scope: not after a crash, a lost heartbeat, an unconfirmed cancellation, a
\* revocation or a container that could not be removed does a second
\* deployment of the scope own it while the first still executes somewhere.
WorkExclusive ==
    \A d \in Deployment : d \in container \/ OnAgents(d) => slot[ScopeOf[d]] = d

\* The steps of one deployment execute one after the other: no container of a
\* deployment runs while an agent still executes one of its steps.
StepsSequential == \A d \in container : ~OnAgents(d)

\* The goroutine (not its background retry) decides that d succeeded.
DecidesSuccess(d) ==
    /\ retry[d].want # "succeeded"
    /\ \/ retry'[d].want = "succeeded"
       \/ status[d] # "succeeded" /\ status'[d] = "succeeded"

\* Success is only decided for a deployment that went through all its steps
\* and whose cancellation nobody accepted meanwhile (persistCompletion with
\* cancellationWins), and once it is recorded, by the goroutine or a retry,
\* every remote run succeeded and nothing of the deployment executes.
SuccessHonest ==
    [][\A d \in Deployment :
          /\ DecidesSuccess(d) => ~job[d].cancelled /\ job[d].step = Len(Plan) + 1
          /\ status[d] # "succeeded" /\ status'[d] = "succeeded" =>
                 /\ \A a \in Agent : run[d][a] \in {"none", "succeeded"}
                 /\ d \notin container /\ ~OnAgents(d)]_allVars

\* A recorded success, cancellation, rejection or expiry is final: no late
\* completion, retry, maintenance or recovery pass overwrites it.
OutcomeFinal ==
    [][\A d \in Deployment :
          status[d] \in {"succeeded", "cancelled", "rejected", "expired"}
              => status'[d] = status[d]]_allVars

\* A deployment that started always reaches an outcome or a person's decision,
\* even if its agents never answer again, the operator cancels at any time
\* and the server is restarted in the middle: step timeouts, cancellation
\* deadlines and startup recovery leave nothing running forever.
Settles ==
    \A d \in Deployment :
        status[d] \in {"running", "publishing_artifact"} ~>
            status[d] \in Terminal \cup {"awaiting_artifact_approval"}

\* A deployment only ends once its agents have: no run is still claimed,
\* started or being cancelled when failed, cancelled or succeeded is recorded.
\* docs/deploy.md says it of the graceful shutdown: "Remote cancellation
\* still requires agent acknowledgment or lease expiry."
RemoteSettledFirst ==
    [][\A d \in Deployment :
          status[d] \in Executing /\ status'[d] \in {"failed", "cancelled", "succeeded"} =>
              \A a \in Agent : run'[d][a] \notin OnAgent]_allVars

\* docs/agent-protocol.md, dispatch state machine: "a failed deployment stays
\* failed unless cleanup is uncertain".  Cleanup is uncertain while a
\* container of the deployment exists, or an agent reported that it could not
\* remove one.
FailedStaysFailed ==
    [][\A d \in Deployment :
          status[d] = "failed" /\ status'[d] # "failed" =>
              d \in container \/ \E a \in Agent : run[d][a] \in Cleanup]_allVars

=============================================================================
