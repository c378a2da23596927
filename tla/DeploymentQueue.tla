--------------------------- MODULE DeploymentQueue ---------------------------
(***************************************************************************)
(* The rows the deployment database keeps about executions, and every      *)
(* repository transaction that changes them.  A scope is a (project,       *)
(* environment) pair; environment_deployment_slots holds at most one row   *)
(* per scope.  Each action below is one committed transaction (or one      *)
(* stand-alone UPDATE), including the queue advance that WithDeploymentTx  *)
(* and WithQueueMaintenanceTx run before they commit.  A transaction that  *)
(* returns an error rolls back and is no step.                             *)
(*                                                                         *)
(* Callers are unconstrained here: whatever the runner, the dispatcher,    *)
(* an agent or an operator asks for, in whatever order, the transactions   *)
(* must keep the scope exclusive.                                          *)
(***************************************************************************)
EXTENDS Naturals, FiniteSets

CONSTANTS
    Deployment,     \* deployment ids; (created_at, id) order is <
    Agent,          \* registered agents
    Scope,          \* (project, environment) pairs
    Env,            \* environments
    ScopeOf,        \* the scope of each deployment
    EnvOf,          \* the environment of each scope
    NoDeployment    \* "no slot row"

ASSUME IdAssumption == Deployment \subseteq Nat
ASSUME ScopeAssumption == /\ ScopeOf \in [Deployment -> Scope]
                          /\ EnvOf \in [Scope -> Env]
ASSUME NoneAssumption == NoDeployment \notin Deployment

VARIABLES
    status,     \* deployments.status; "none" before the row is inserted
    slot,       \* environment_deployment_slots, by scope
    run,        \* remote_step_runs of the current remote step, by agent
    recovered,  \* runs with remote_step_runs.recovery_cancelled = 1
    cleanup     \* deployments.container_namespace / cleanup_confirmed_at

vars == <<status, slot, run, recovered, cleanup>>

-----------------------------------------------------------------------------
(* Statuses and states. *)

Executing == {"pending", "running", "publishing_artifact",
              "awaiting_artifact_approval"}
Terminal == {"succeeded", "failed", "cancelled", "rejected", "expired",
             "cleanup_unconfirmed"}
Early == {"none", "pending_approval", "queued"}
Status == Early \cup Executing \cup Terminal
Live == {"queued", "cleanup_unconfirmed"} \cup Executing

\* A run reported cleanup_unconfirmed becomes cleanup_confirmed when
\* cleanup_confirmed_at is set: the state column itself does not change.
Cleanup == {"cleanup_unconfirmed", "cleanup_confirmed"}
Active == {"waiting", "claimed", "started", "cancel_requested"}
OnAgent == {"claimed", "started", "cancel_requested"}
Unresolved == OnAgent \cup {"lost", "cancel_unconfirmed",
                            "cleanup_unconfirmed"}
RunState == {"none", "succeeded", "failed", "cancelled", "lost",
             "cancel_unconfirmed"} \cup Active \cup Cleanup

\* "namespace": container_namespace is set.  "preserved": cleanup_confirmed_at
\* is set on the deployment.  The second needs the first to be NULL.
CleanupMark == {"none", "namespace", "preserved"}

InScope(s) == {d \in Deployment : ScopeOf[d] = s}

\* Every scope of the environment of d: what one WithDeploymentTx advances.
EnvScopes(d) == {s \in Scope : EnvOf[s] = EnvOf[ScopeOf[d]]}

-----------------------------------------------------------------------------
(* ListDeploymentQueueBlockers and advanceDeploymentQueue.  st, rn and cl   *)
(* are the status, run and cleanup columns as the transaction left them.   *)

\* Mutant of Blocks: a run the server gave up on no longer holds the scope.
BlocksForgettingLost(d, st, rn, cl) ==
    \/ st[d] \in Executing
    \/ \E a \in Agent : rn[d][a] \in OnAgent

Blocks(d, st, rn, cl) ==
    \/ st[d] \in Executing
    \/ /\ st[d] = "cleanup_unconfirmed"
       /\ \/ cl[d] = "namespace"
          \/ cl[d] = "none" /\ \A a \in Agent : rn[d][a] \notin Cleanup
    \/ \E a \in Agent : rn[d][a] \in Unresolved

Blockers(s, st, rn, cl) == {d \in InScope(s) : Blocks(d, st, rn, cl)}

QueuedIn(s, st) == {d \in InScope(s) : st[d] = "queued"}

Oldest(S) == {d \in S : \A e \in S : d <= e}

\* The one element of a set with at most one element, or "no row".
Row(S) == IF S = {} THEN NoDeployment ELSE CHOOSE d \in S : TRUE

\* ListEnvironmentQueueProjects: scopes with a live row or a slot.
Listed(s, st) == slot[s] # NoDeployment \/ \E d \in InScope(s) : st[d] \in Live

\* ListDeploymentQueueEnvironments, read before the transaction's changes.
QueueScopes == {s \in Scope : \E t \in Scope : EnvOf[t] = EnvOf[s] /\ Listed(t, status)}

\* What the advance admits, and the slot row it leaves, in each scope of E.
AdvanceStatus(E, st, rn, cl) ==
    [d \in Deployment |->
        IF /\ ScopeOf[d] \in E
           /\ Blockers(ScopeOf[d], st, rn, cl) = {}
           /\ d \in Oldest(QueuedIn(ScopeOf[d], st))
        THEN "pending" ELSE st[d]]

AdvanceSlot(E, st, rn, cl) ==
    [s \in Scope |->
        IF s \notin E \/ ~Listed(s, st) THEN slot[s]
        ELSE IF Blockers(s, st, rn, cl) = {} THEN Row(Oldest(QueuedIn(s, st)))
        ELSE IF slot[s] = NoDeployment THEN Row(Oldest(Blockers(s, st, rn, cl)))
        ELSE slot[s]]

\* Commit a transaction that left st, rn and cl, advancing the scopes in E.
Commit(E, st, rn, cl) ==
    /\ status' = AdvanceStatus(E, st, rn, cl)
    /\ slot' = AdvanceSlot(E, st, rn, cl)
    /\ run' = rn
    /\ cleanup' = cl

\* WithDeploymentTx and WithQueueMaintenanceTx.
DeploymentTx(d, st, rn, cl) == Commit(EnvScopes(d), st, rn, cl)
MaintenanceTx(st, rn, cl) == Commit(QueueScopes, st, rn, cl)

Set(d, value) == [status EXCEPT ![d] = value]
SetRun(d, a, value) == [run EXCEPT ![d][a] = value]

-----------------------------------------------------------------------------
(* Creation, approval, cancellation before the start, admission.           *)

\* createDeploymentWithSteps: "pending" requests are stored as "queued".
Create(d, st) ==
    /\ status[d] = "none"
    /\ \A e \in Deployment : e < d => status[e] # "none"
    /\ st \in {"queued", "pending_approval"}
    /\ DeploymentTx(d, Set(d, st), run, cleanup)
    /\ UNCHANGED recovered

\* ApproveDeployment.
Approve(d) ==
    /\ status[d] = "pending_approval"
    /\ DeploymentTx(d, Set(d, "queued"), run, cleanup)
    /\ UNCHANGED recovered

\* CancelQueuedDeployment.
CancelQueued(d) ==
    /\ status[d] \in {"queued", "pending_approval", "pending"}
    /\ DeploymentTx(d, Set(d, "cancelled"), run, cleanup)
    /\ UNCHANGED recovered

\* ReconcileDeploymentQueues: one transaction per environment.
Reconcile(e) ==
    LET E == {s \in QueueScopes : EnvOf[s] = e} IN
    /\ E # {}
    /\ Commit(E, status, run, cleanup)
    /\ UNCHANGED recovered

\* startLocalDeployment advances, refuses when another deployment blocks the
\* scope, then moves pending to running if the slot is owned.
StartLocal(d) ==
    LET E == EnvScopes(d)
        st == AdvanceStatus(E, status, run, cleanup)
        sl == AdvanceSlot(E, status, run, cleanup)
    IN  /\ st[d] = "pending"
        /\ sl[ScopeOf[d]] = d
        /\ Blockers(ScopeOf[d], st, run, cleanup) \subseteq {d}
        /\ status' = [st EXCEPT ![d] = "running"]
        /\ slot' = sl
        /\ UNCHANGED <<run, recovered, cleanup>>

-----------------------------------------------------------------------------
(* The execution itself: container namespace, artifact gate, completion.   *)

\* RecordContainerNamespace: a single UPDATE, no advance.
RecordNamespace(d) ==
    /\ status[d] = "running"
    /\ cleanup' = [cleanup EXCEPT ![d] = "namespace"]
    /\ UNCHANGED <<status, slot, run, recovered>>

\* SaveArtifactGate, PauseArtifactGate, ApproveArtifact and RejectArtifact, as
\* the deployment row sees them.
GateEdge == {<<"running", "publishing_artifact">>,
             <<"publishing_artifact", "awaiting_artifact_approval">>,
             <<"awaiting_artifact_approval", "pending">>,
             <<"awaiting_artifact_approval", "rejected">>,
             <<"awaiting_artifact_approval", "cancelled">>}

GateStep(d, st) ==
    /\ <<status[d], st>> \in GateEdge
    /\ DeploymentTx(d, Set(d, st), run, cleanup)
    /\ UNCHANGED recovered

\* ExpireArtifactGateDeployments: D is the set whose gate has expired.
ExpireGates(D) ==
    /\ D # {}
    /\ \A d \in D : status[d] \in {"awaiting_artifact_approval", "pending"}
    /\ MaintenanceTx([d \in Deployment |-> IF d \in D THEN "expired" ELSE status[d]],
                     run, cleanup)
    /\ UNCHANGED recovered

\* completeDeployment: the status a request for want leaves.
CompletedStatus(d, want) ==
    IF status[d] \in Terminal /\ want # "cleanup_unconfirmed" THEN status[d]
    ELSE IF want = "cancelled" /\ status[d] \notin Executing THEN status[d]
    ELSE want

\* ConfirmRemoteDeploymentLocalCleanup clears the namespace only when the
\* cleanup obligation is a remote run's.
CompletedCleanup(d, want, localConfirmed) ==
    IF /\ localConfirmed /\ want = "cleanup_unconfirmed"
       /\ cleanup[d] = "namespace"
       /\ \E a \in Agent : run[d][a] \in Cleanup
    THEN [cleanup EXCEPT ![d] = "none"] ELSE cleanup

Complete(d, want, localConfirmed) ==
    /\ status[d] \notin {"none", "pending_approval"}
    /\ want \in {"succeeded", "failed", "cancelled", "cleanup_unconfirmed"}
    /\ DeploymentTx(d, Set(d, CompletedStatus(d, want)), run,
                    CompletedCleanup(d, want, localConfirmed))
    /\ UNCHANGED recovered

-----------------------------------------------------------------------------
(* Remote step runs.                                                       *)

\* Mutant of QueueRuns: the status and slot conditions are missing.
QueueRunsUnadmitted(d, As) ==
    /\ As # {}
    /\ status[d] # "none"
    /\ \A a \in Agent : run[d][a] \in {"none", "succeeded"}
    /\ DeploymentTx(d, status, [run EXCEPT ![d] =
           [a \in Agent |-> IF a \in As THEN "waiting" ELSE "none"]], cleanup)
    /\ recovered' = recovered \ ({d} \X Agent)

\* QueueRemoteStepRuns advances, then inserts one waiting run per eligible
\* agent, if the deployment is running and owns a slot.  The runner queues a
\* step only after every run of the previous one succeeded.
QueueRuns(d, As) ==
    LET rn == [run EXCEPT ![d] = [a \in Agent |-> IF a \in As THEN "waiting" ELSE "none"]]
    IN  /\ As # {}
        /\ status[d] = "running"
        /\ slot[ScopeOf[d]] = d
        /\ \A a \in Agent : run[d][a] \in {"none", "succeeded"}
        /\ DeploymentTx(d, status, rn, cleanup)
        /\ recovered' = recovered \ ({d} \X Agent)

\* Mutant of Claim: a waiting run is claimed whatever became of its deployment.
ClaimAbandoned(d, a) ==
    /\ run[d][a] = "waiting"
    /\ DeploymentTx(d, status, SetRun(d, a, "claimed"), cleanup)
    /\ UNCHANGED recovered

\* ClaimRemoteStepPayload: the candidate is claimable and the agent is free
\* (the unique index allows one claimed, started or cancel_requested run).
Claim(d, a) ==
    /\ run[d][a] = "waiting"
    /\ status[d] = "running"
    /\ slot[ScopeOf[d]] = d
    /\ \A e \in Deployment : run[e][a] \notin OnAgent \cup {"cleanup_unconfirmed"}
    /\ DeploymentTx(d, status, SetRun(d, a, "claimed"), cleanup)
    /\ UNCHANGED recovered

\* failInvalidRemoteSteps: the payload of the candidate cannot be built.
FailInvalid(d, a) ==
    LET rn == [run EXCEPT ![d] = [b \in Agent |-> IF @[b] = "waiting" THEN "failed" ELSE @[b]]]
        idle == \A b \in Agent : rn[d][b] \notin Active
    IN  /\ run[d][a] = "waiting"
        /\ status[d] = "running"
        /\ slot[ScopeOf[d]] = d
        /\ DeploymentTx(d, IF idle THEN Set(d, "failed") ELSE status, rn, cleanup)
        /\ UNCHANGED recovered

\* StartRemoteStep: no advance.  It does not look at the deployment's status.
StartRun(d, a) ==
    /\ run[d][a] = "claimed"
    /\ run' = SetRun(d, a, "started")
    /\ UNCHANGED <<status, slot, recovered, cleanup>>

\* FinishRemoteStep: a late result resolves lost and cancel_unconfirmed runs.
FinishRun(d, a, result) ==
    /\ result \in {"succeeded", "failed", "cleanup_unconfirmed"}
    /\ \/ run[d][a] \in {"started", "lost", "cancel_unconfirmed"}
       \/ run[d][a] = "cancel_requested" /\ result = "cleanup_unconfirmed"
    /\ DeploymentTx(d, status, SetRun(d, a, result), cleanup)
    /\ UNCHANGED recovered

\* Mutant of AckCancel: the transaction does not advance the queue.
AckCancelQuietly(d, a) ==
    /\ run[d][a] \in {"cancel_requested", "cancel_unconfirmed"}
    /\ run' = SetRun(d, a, "cancelled")
    /\ UNCHANGED <<status, slot, recovered, cleanup>>

\* AcknowledgeRemoteStepCancellation.
AckCancel(d, a) ==
    /\ run[d][a] \in {"cancel_requested", "cancel_unconfirmed"}
    /\ DeploymentTx(d, status, SetRun(d, a, "cancelled"), cleanup)
    /\ UNCHANGED recovered

\* RequestRemoteStepCancellation: every run of the deployment, no advance.
Cancelling(state) ==
    CASE state = "waiting" -> "cancelled"
      [] state \in {"claimed", "started"} -> "cancel_requested"
      [] OTHER -> state

RequestCancel(d) ==
    /\ status[d] # "none"
    /\ run' = [run EXCEPT ![d] = [a \in Agent |-> Cancelling(run[d][a])]]
    /\ UNCHANGED <<status, slot, recovered, cleanup>>

-----------------------------------------------------------------------------
(* Maintenance, agent administration and startup recovery.                 *)

\* FailDeploymentsWithTerminalRemoteStepRuns.
FailTerminal(st, rn) ==
    [d \in Deployment |->
        LET uncertain == \E a \in Agent : rn[d][a] \in Cleanup
            broken == \E a \in Agent :
                \/ rn[d][a] \in {"failed", "lost", "cancel_unconfirmed"} \cup Cleanup
                \/ rn[d][a] = "cancelled" /\ <<d, a>> \in recovered
        IN  IF /\ st[d] = "running" \/ (st[d] = "failed" /\ uncertain)
               /\ broken
               /\ \A a \in Agent : rn[d][a] \notin Active
            THEN IF uncertain THEN "cleanup_unconfirmed" ELSE "failed"
            ELSE st[d]]

\* Mutant of Overdue: started work without heartbeat goes back to the queue.
OverdueRequeued(state) ==
    IF state \in {"claimed", "started"} THEN "waiting"
    ELSE IF state = "cancel_requested" THEN "cancel_unconfirmed" ELSE state

\* Dispatcher.Maintain: due is the set of runs past their deadline (60s for a
\* claim, 45s without heartbeat once started, 30s for a cancellation).
Overdue(state) ==
    CASE state = "claimed" -> "waiting"
      [] state = "cancel_requested" -> "cancel_unconfirmed"
      [] state = "started" -> "lost"
      [] OTHER -> state

Maintain(due) ==
    LET rn == [d \in Deployment |-> [a \in Agent |->
                  IF <<d, a>> \in due THEN Overdue(run[d][a]) ELSE run[d][a]]]
    IN  /\ \A p \in due : run[p[1]][p[2]] \in OnAgent
        /\ MaintenanceTx(FailTerminal(status, rn), rn, cleanup)
        /\ UNCHANGED recovered

\* revokeAgent, the remote step part.
Revoked(a, rn) ==
    [d \in Deployment |-> [rn[d] EXCEPT ![a] =
        IF @ = "waiting" THEN "failed"
        ELSE IF @ \in OnAgent THEN "lost" ELSE @]]

RevokeAgent(a) ==
    LET rn == Revoked(a, run) IN
    /\ MaintenanceTx(FailTerminal(status, rn), rn, cleanup)
    /\ UNCHANGED recovered

\* RecordAgentPollCapabilities: a ready v3 poll confirms this agent's cleanup;
\* failed is the set of waiting runs the agent no longer supports.
AgentPoll(a, ready, failed) ==
    LET Polled(state, unsupported) ==
            IF ready /\ state = "cleanup_unconfirmed" THEN "cleanup_confirmed"
            ELSE IF unsupported /\ state = "waiting" THEN "failed" ELSE state
        rn == [d \in Deployment |-> [run[d] EXCEPT ![a] = Polled(@, d \in failed)]]
    IN  /\ \A d \in failed : run[d][a] = "waiting"
        /\ MaintenanceTx(status, rn, cleanup)
        /\ UNCHANGED recovered

\* DeleteAgent: refused while a run of the agent, or a deployment that refers
\* to it, is unresolved.  A deployment whose remote cleanup was confirmed
\* keeps that fact when the run row goes.
Referenced(d, a, st, rn) ==
    /\ rn[d][a] # "none"
    /\ \/ st[d] \notin Terminal
       \/ /\ st[d] = "cleanup_unconfirmed"
          /\ \/ cleanup[d] = "namespace"
             \/ cleanup[d] = "none" /\ \A b \in Agent : rn[d][b] # "cleanup_confirmed"
             \/ \E b \in Agent : rn[d][b] = "cleanup_unconfirmed"

\* Mutant of Preserved: deletion drops the confirmation with the run row.
PreservedNever(d, a, st, rn) == FALSE

\* PreserveAgentDeploymentCleanup: the deployments that keep the fact.
Preserved(d, a, st, rn) ==
    /\ st[d] = "cleanup_unconfirmed"
    /\ cleanup[d] = "none"
    /\ rn[d][a] = "cleanup_confirmed"
    /\ \A b \in Agent : rn[d][b] # "cleanup_unconfirmed"

DeleteAgent(a, alreadyRevoked) ==
    LET rn == IF alreadyRevoked THEN run ELSE Revoked(a, run)
        st == IF alreadyRevoked THEN status ELSE FailTerminal(status, rn)
    IN  /\ \A d \in Deployment : run[d][a] \notin Unresolved
        /\ \A d \in Deployment : ~Referenced(d, a, st, rn)
        /\ MaintenanceTx(st, [d \in Deployment |-> [rn[d] EXCEPT ![a] = "none"]],
               [d \in Deployment |-> IF Preserved(d, a, st, rn) THEN "preserved" ELSE cleanup[d]])
        /\ recovered' = recovered \ (Deployment \X {a})

\* Mutant of ConfirmContainerCleanup: the status of the deployment is not
\* looked at, only whether it recorded a namespace.
ConfirmContainerCleanupAnyway ==
    LET Confirmed(d) == cleanup[d] = "namespace"
        uncertain(d) == \E a \in Agent : run[d][a] \in Cleanup
    IN  /\ MaintenanceTx(
               [d \in Deployment |-> IF Confirmed(d) /\ ~uncertain(d) THEN "failed" ELSE status[d]],
               run,
               [d \in Deployment |-> IF Confirmed(d) THEN "none" ELSE cleanup[d]])
        /\ UNCHANGED recovered

\* reconcileAttempts: every container of the namespace is gone.
ConfirmContainerCleanup ==
    LET Confirmed(d) == /\ status[d] \in {"running", "publishing_artifact", "cleanup_unconfirmed"}
                        /\ cleanup[d] = "namespace"
        uncertain(d) == \E a \in Agent : run[d][a] \in Cleanup
    IN  /\ MaintenanceTx(
               [d \in Deployment |-> IF Confirmed(d) /\ ~uncertain(d) THEN "failed" ELSE status[d]],
               run,
               [d \in Deployment |-> IF Confirmed(d) THEN "none" ELSE cleanup[d]])
        /\ UNCHANGED recovered

\* recoverPendingDeployments: CancelOrphanedRemoteStepRuns,
\* MarkUnreconciledLocalDeployments, FailOrphanedDeployments.
RecoverPending ==
    LET orphan == {p \in Deployment \X Agent :
                       status[p[1]] = "running" /\ run[p[1]][p[2]] \in Active}
        rn == [d \in Deployment |-> [a \in Agent |->
                  IF <<d, a>> \in orphan THEN Cancelling(run[d][a]) ELSE run[d][a]]]
        inFlight(d) == status[d] \in {"running", "publishing_artifact"}
        onAgent(d) == \E a \in Agent : rn[d][a] \in OnAgent
        Recover(d) ==
            IF inFlight(d) /\ cleanup[d] = "namespace" /\ ~onAgent(d)
            THEN "cleanup_unconfirmed"
            ELSE IF inFlight(d) /\ \A a \in Agent : rn[d][a] # "cancel_requested"
            THEN "failed"
            ELSE status[d]
    IN  /\ MaintenanceTx([d \in Deployment |-> Recover(d)], rn, cleanup)
        /\ recovered' = recovered \cup orphan

-----------------------------------------------------------------------------

Init ==
    /\ status = [d \in Deployment |-> "none"]
    /\ slot = [s \in Scope |-> NoDeployment]
    /\ run = [d \in Deployment |-> [a \in Agent |-> "none"]]
    /\ recovered = {}
    /\ cleanup = [d \in Deployment |-> "none"]

RunStep(d, a) ==
    \/ Claim(d, a)
    \/ FailInvalid(d, a)
    \/ StartRun(d, a)
    \/ \E result \in RunState : FinishRun(d, a, result)
    \/ AckCancel(d, a)

DeploymentStep(d) ==
    \/ \E st \in Status : Create(d, st)
    \/ Approve(d)
    \/ CancelQueued(d)
    \/ StartLocal(d)
    \/ RecordNamespace(d)
    \/ \E st \in Status : GateStep(d, st)
    \/ \E want \in Terminal, confirmed \in BOOLEAN : Complete(d, want, confirmed)
    \/ \E As \in SUBSET Agent : QueueRuns(d, As)
    \/ RequestCancel(d)
    \/ \E a \in Agent : RunStep(d, a)

ServerStep ==
    \/ \E e \in Env : Reconcile(e)
    \/ \E D \in SUBSET Deployment : ExpireGates(D)
    \/ \E due \in SUBSET (Deployment \X Agent) : Maintain(due)
    \/ \E a \in Agent : RevokeAgent(a)
    \/ \E a \in Agent, ready \in BOOLEAN, failed \in SUBSET Deployment :
           AgentPoll(a, ready, failed)
    \/ \E a \in Agent, revoked \in BOOLEAN : DeleteAgent(a, revoked)
    \/ ConfirmContainerCleanup
    \/ RecoverPending

Next == (\E d \in Deployment : DeploymentStep(d)) \/ ServerStep

Spec == Init /\ [][Next]_vars

-----------------------------------------------------------------------------
(* Properties.                                                             *)

\* The columns hold the values their CHECK constraints allow, a slot row names
\* a deployment of its own scope, and only a started deployment has runs.
TypeOK ==
    /\ status \in [Deployment -> Status]
    /\ slot \in [Scope -> Deployment \cup {NoDeployment}]
    /\ run \in [Deployment -> [Agent -> RunState]]
    /\ recovered \in SUBSET (Deployment \X Agent)
    /\ cleanup \in [Deployment -> CleanupMark]
    /\ \A s \in Scope : slot[s] # NoDeployment => ScopeOf[slot[s]] = s
    /\ \A d \in Deployment : status[d] \in Early => \A a \in Agent : run[d][a] = "none"

\* The deployment executes, or an agent may still be executing one of its
\* steps, or an agent has not confirmed that it removed the step's container.
Occupies(d) ==
    status[d] \in Executing \/ \E a \in Agent : run[d][a] \in Unresolved

\* Whatever the order of admissions, late agent reports, expiries, revocations
\* and restarts, a deployment that occupies its scope owns the scope's slot
\* row.  Two deployments of one project and environment therefore never
\* occupy it together (environment_deployment_slots, advanceDeploymentQueue).
SlotOwned == \A d \in Deployment : Occupies(d) => slot[ScopeOf[d]] = d

\* No wake-up is ever lost: whenever a deployment is queued, something holds
\* its scope.  The transaction that removes the last blocker (a completion, a
\* late report, a cleanup confirmation, the deletion of an agent) is the one
\* that admits, and those that do not advance the queue never free a scope.
NoLostWakeup ==
    \A s \in Scope : QueuedIn(s, status) # {} => Blockers(s, status, run, cleanup) # {}

\* Once a finished deployment has let go of its scope nothing brings it back:
\* not a run left waiting, not a late report, not a recovery pass.
NeverReoccupies ==
    [][\A d \in Deployment :
          status[d] \in Terminal /\ ~Occupies(d) => ~Occupies(d)']_vars

\* Work that an agent started is never handed out again: no expiry, recovery
\* or maintenance pass returns a started run to the dispatchable states
\* ("started work is never automatically replayed or requeued").
StartedNeverReplayed ==
    [][\A d \in Deployment, a \in Agent :
          run[d][a] \in {"started", "cancel_requested", "lost", "cancel_unconfirmed"}
              => run'[d][a] \notin {"waiting", "claimed"}]_vars

\* Removing an agent's registration never settles or revives a cleanup
\* obligation: a deployment in cleanup_unconfirmed blocks its scope after
\* DeleteAgent exactly when it did before (PreserveAgentDeploymentCleanup).
DeletionKeepsCleanup ==
    [][\A a \in Agent, revoked \in BOOLEAN : DeleteAgent(a, revoked) =>
          \A d \in Deployment : status[d] = "cleanup_unconfirmed" =>
              (Blocks(d, status, run, cleanup) <=>
                   Blocks(d, status', run', cleanup'))]_vars

-----------------------------------------------------------------------------
(* The abstract lock, and where each deployment stands in it.              *)

Phase(d) ==
    CASE status[d] = "none" -> "absent"
      [] status[d] = "pending_approval" -> "parked"
      [] status[d] = "queued" -> "waiting"
      [] OTHER -> IF Occupies(d) THEN "holding" ELSE "released"

Lock == INSTANCE ScopeLock WITH
            Client <- Deployment, phase <- [d \in Deployment |-> Phase(d)]

\* The tables implement the abstract lock: exclusive, handed over in creation
\* order, never taken back (advanceDeploymentQueue and every transaction that
\* commits through it).
ImplementsLock == Lock!Spec

=============================================================================
