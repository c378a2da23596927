---------------------------- MODULE RunnerProofs ----------------------------
(***************************************************************************)
(* Whatever goroutines, agents, operators, shutdowns, crashes and failing  *)
(* transactions do, the tables only change by the repository's             *)
(* transactions: the runner implements DeploymentQueue, so everything      *)
(* proved of the tables holds of the whole server.  The argument is one    *)
(* case per action of the runner: it leaves the tables alone, or takes one *)
(* transaction with arguments that transaction accepts.                    *)
(***************************************************************************)
EXTENDS Runner, DeploymentQueueProofs

\* The completions, whose status comes from the goroutine's memory.
LEMMA CompleteIsStep ==
    ASSUME NEW d \in Deployment, NEW want, NEW clean \in BOOLEAN, Complete(d, want, clean)
    PROVE  Next
<1>1. want \in Terminal
  BY DEF Complete, Terminal
<1>. QED
  BY <1>1 DEF Next, DeploymentStep

LEMMA GateIsStep ==
    ASSUME NEW d \in Deployment, NEW st, GateStep(d, st)
    PROVE  Next
<1>1. st \in Status
  BY DEF GateStep, GateEdge, Status, Executing, Terminal
<1>. QED
  BY <1>1 DEF Next, DeploymentStep

\* The goroutine of one deployment.
LEMMA JobStepIsStep ==
    ASSUME NEW d \in Deployment, JobStep(d)
    PROVE  [Next]_vars
<1>1. ASSUME NEW tied, Launch(d, tied) PROVE Next
  BY <1>1 DEF Launch, Next, DeploymentStep
<1>2. ASSUME NEW tied, AdmissionFails(d, tied) PROVE [Next]_vars
  BY <1>2, CompleteIsStep DEF AdmissionFails, TablesUnchanged
<1>3. ASSUME BeginLocal(d) PROVE [Next]_vars
  <2>1. RecordNamespace(d) \/ UNCHANGED vars
    BY <1>3 DEF BeginLocal, TablesUnchanged
  <2>. QED
    BY <2>1 DEF Next, DeploymentStep
<1>4. ASSUME NEW As \in SUBSET Agent, QueueStep(d, As) PROVE [Next]_vars
  <2>1. QueueRuns(d, As) \/ UNCHANGED vars
    BY <1>4 DEF QueueStep, TablesUnchanged
  <2>. QED
    BY <2>1 DEF Next, DeploymentStep
<1>5. ASSUME CaptureGate(d) \/ PauseGate(d) PROVE [Next]_vars
  <2>1. \/ GateStep(d, "publishing_artifact")
        \/ GateStep(d, "awaiting_artifact_approval")
        \/ UNCHANGED vars
    BY <1>5 DEF CaptureGate, PauseGate, TablesUnchanged
  <2>. QED
    BY <2>1, GateIsStep
<1>6. ASSUME SendCancel(d) PROVE Next
  BY <1>6 DEF SendCancel, Next, DeploymentStep
<1>7. ASSUME BeginCheck(d) PROVE [Next]_vars
  <2>1. RecordNamespace(d) \/ UNCHANGED vars
    BY <1>7 DEF BeginCheck, TablesUnchanged
  <2>. QED
    BY <2>1 DEF Next, DeploymentStep
<1>8. ASSUME NEW clean \in BOOLEAN, Persist(d, clean) PROVE Next
  BY <1>8, CompleteIsStep DEF Persist
<1>9. ASSUME RetryCompletion(d) PROVE [Next]_vars
  <2>1. retry[d].clean \in BOOLEAN
    BY <1>9 DEF RetryCompletion, Completion
  <2>2. Complete(d, retry[d].want, retry[d].clean) \/ UNCHANGED vars
    BY <1>9 DEF RetryCompletion, TablesUnchanged
  <2>. QED
    BY <2>1, <2>2, CompleteIsStep
<1>10. ASSUME \/ PrepareFails(d) \/ LoopCancelled(d) \/ StartAttempt(d) \/ NoAttempt(d)
              \/ \E ok \in BOOLEAN : AttemptEnds(d, ok) \/ CheckEnds(d, ok)
              \/ \E clean \in BOOLEAN : PersistFails(d, clean)
              \/ AttemptUnclean(d) \/ CheckUnclean(d)
              \/ Poll(d) \/ PollTimeout(d) \/ PollCancelled(d) \/ RunCheck(d)
       PROVE  UNCHANGED vars
  BY <1>10 DEF PrepareFails, LoopCancelled, StartAttempt, NoAttempt, AttemptEnds, CheckEnds,
               PersistFails, AttemptUnclean, CheckUnclean, Poll, PollTimeout, PollCancelled,
               RunCheck, TablesUnchanged
<1>. QED
  BY <1>1, <1>2, <1>3, <1>4, <1>5, <1>6, <1>7, <1>8, <1>9, <1>10 DEF JobStep

\* Operators and agents.
LEMMA OutsideIsStep ==
    ASSUME \/ \E d \in Deployment : Cancel(d) \/ Request(d)
           \/ \E d \in Deployment, a \in Agent : AgentStep(d, a)
           \/ \E a \in Agent : AgentPolls(a)
    PROVE  [Next]_vars
<1>1. ASSUME NEW d \in Deployment, Cancel(d) PROVE UNCHANGED vars
  BY <1>1 DEF Cancel, TablesUnchanged
<1>2. ASSUME NEW d \in Deployment, Request(d) PROVE Next
  <2>1. CASE \E st \in {"pending", "rejected", "cancelled"} : GateStep(d, st)
    BY <2>1, GateIsStep
  <2>2. CASE Create(d, "queued") \/ CancelQueued(d)
    BY <2>2 DEF Next, DeploymentStep, Status, Early
  <2>. QED
    BY <1>2, <2>1, <2>2 DEF Request
<1>3. ASSUME NEW d \in Deployment, NEW a \in Agent, AgentStep(d, a) PROVE [Next]_vars
  <2>1. CASE AgentReports(d, a)
    <3>1. outcome[d][a] \in RunState
      BY <2>1 DEF AgentReports, FinishRun, RunState, Cleanup
    <3>. QED
      BY <2>1, <3>1 DEF AgentReports, Next, DeploymentStep, RunStep
  <2>2. CASE AgentClaims(d, a) \/ AgentAcks(d, a)
    BY <2>2 DEF AgentClaims, AgentAcks, Next, DeploymentStep, RunStep
  <2>3. CASE AgentStarts(d, a)
    <3>1. StartRun(d, a) \/ UNCHANGED vars
      BY <2>3 DEF AgentStarts, TablesUnchanged
    <3>. QED
      BY <3>1 DEF Next, DeploymentStep, RunStep
  <2>4. CASE (\E result \in Outcome \ {"none"} : AgentEnds(d, a, result)) \/ AgentReconciles(d, a)
    BY <2>4 DEF AgentEnds, AgentReconciles, TablesUnchanged
  <2>. QED
    BY <1>3, <2>1, <2>2, <2>3, <2>4 DEF AgentStep
<1>4. ASSUME NEW a \in Agent, AgentPolls(a) PROVE Next
  <2>1. PICK failed \in SUBSET Deployment : AgentPoll(a, TRUE, failed)
    BY <1>4 DEF AgentPolls
  <2>. QED
    BY <2>1 DEF Next, ServerStep
<1>. QED
  BY <1>1, <1>2, <1>3, <1>4

\* Maintenance, administration, crash and restart.
LEMMA ServerIsStep ==
    ASSUME Upkeep \/ Crash \/ Signal \/ KillAll \/ Exit \/ Boot \/ Recover
    PROVE  [Next]_vars
<1>1. ASSUME Upkeep PROVE Next
  <2>1. CASE \E due \in SUBSET (Deployment \X Agent) : Maintain(due)
    BY <2>1 DEF Next, ServerStep
  <2>2. CASE \E a \in Agent : RevokeAgent(a) \/ \E revoked \in BOOLEAN : DeleteAgent(a, revoked)
    BY <2>2 DEF Next, ServerStep
  <2>3. CASE \E D \in SUBSET {d \in Deployment : resume[d] > 1} : ExpireGates(D)
    <3>1. PICK D \in SUBSET Deployment : ExpireGates(D)
      BY <2>3
    <3>. QED
      BY <3>1 DEF Next, ServerStep
  <2>4. CASE \E e \in Env : Reconcile(e)
    BY <2>4 DEF Next, ServerStep
  <2>. QED
    BY <1>1, <2>1, <2>2, <2>3, <2>4 DEF Upkeep
<1>2. ASSUME Crash \/ Signal \/ KillAll \/ Exit PROVE UNCHANGED vars
  BY <1>2 DEF Crash, Signal, KillAll, Exit, Die, TablesUnchanged
<1>3. ASSUME Boot \/ Recover PROVE [Next]_vars
  <2>1. ConfirmContainerCleanup \/ RecoverPending \/ UNCHANGED vars
    BY <1>3 DEF Boot, Recover, TablesUnchanged
  <2>. QED
    BY <2>1 DEF Next, ServerStep
<1>. QED
  BY <1>1, <1>2, <1>3

\* The runner, its agents and its operators drive the tables only through the
\* repository's transactions (DeploymentRunner.Run and everything around it).
THEOREM RunnerUsesTransactions == RSpec => Spec
<1>1. RInit => Init
  BY DEF RInit
<1>2. [RNext]_allVars => [Next]_vars
  <2>1. RNext => [Next]_vars
    BY JobStepIsStep, OutsideIsStep, ServerIsStep DEF RNext
  <2>2. UNCHANGED allVars => UNCHANGED vars
    BY DEF allVars
  <2>. QED
    BY <2>1, <2>2
<1>. QED
  BY <1>1, <1>2, PTL DEF RSpec, Spec

\* So the scope stays exclusive in the whole server: at any moment of any run
\* of goroutines, agents, crashes and retries, a deployment that occupies its
\* scope owns the slot row.
THEOREM RunnerKeepsScopes == RSpec => []SlotOwned
BY RunnerUsesTransactions, SlotExclusive, PTL

=============================================================================
