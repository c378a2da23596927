---------------------------- MODULE WakeupProofs ----------------------------
(***************************************************************************)
(* No transaction loses a wake-up: a queued deployment always has a        *)
(* blocker in its scope.  Every committing action is one of two kinds.  A  *)
(* DeploymentTx changes the rows of one deployment and advances at least   *)
(* that deployment's scope; a MaintenanceTx changes any rows, queues       *)
(* nothing, and advances every scope that had something queued.            *)
(***************************************************************************)
EXTENDS DeploymentQueueProofs, WellFoundedInduction

\* A nonempty set of deployments has an oldest one.
LEMMA OldestExists ==
    ASSUME NEW S \in SUBSET Deployment, S # {}
    PROVE  Oldest(S) # {}
<1>. DEFINE R == OpToRel(<, Nat)
<1>0. S \subseteq Nat
  BY IdAssumption
<1>1. IsWellFoundedOn(R, Nat)
  BY NatLessThanWellFounded
<1>2. \A x, y \in Nat : x < y => <<x, y>> \in R
  BY DEF OpToRel
<1>. HIDE DEF R
<1>3. PICK d \in S : \A e \in S : ~(<<e, d>> \in R)
  BY <1>0, <1>1, WFMin
<1>4. ASSUME NEW e \in S PROVE d <= e
  <2>1. d \in Nat /\ e \in Nat
    BY <1>0
  <2>2. ~(e < d)
    BY <1>2, <1>3, <2>1
  <2>. QED
    BY <2>1, <2>2
<1>. QED
  BY <1>3, <1>4 DEF Oldest

\* What the advance does to one scope.
LEMMA AdvanceWakes ==
    ASSUME NEW E \in SUBSET Scope, NEW st, NEW rn, NEW cl, NEW s \in Scope,
           st \in [Deployment -> Status],
           s \in E \/ (QueuedIn(s, st) # {} => Blockers(s, st, rn, cl) # {}),
           QueuedIn(s, AdvanceStatus(E, st, rn, cl)) # {}
    PROVE  Blockers(s, AdvanceStatus(E, st, rn, cl), rn, cl) # {}
<1>. DEFINE Admitted(d) == /\ ScopeOf[d] \in E
                           /\ Blockers(ScopeOf[d], st, rn, cl) = {}
                           /\ d \in Oldest(QueuedIn(ScopeOf[d], st))
            st2 == AdvanceStatus(E, st, rn, cl)
<1>1. \A d \in Deployment : st2[d] = IF Admitted(d) THEN "pending" ELSE st[d]
  BY DEF AdvanceStatus
<1>2. QueuedIn(s, st) # {}
  BY <1>1 DEF QueuedIn, InScope
<1>. HIDE DEF st2
<1>3. CASE Blockers(s, st, rn, cl) = {}
  <2>1. QueuedIn(s, st) \in SUBSET Deployment
    BY DEF QueuedIn, InScope
  <2>2. PICK d \in Oldest(QueuedIn(s, st)) : TRUE
    BY <1>2, <2>1, OldestExists
  <2>3. d \in Deployment /\ ScopeOf[d] = s
    BY <2>2 DEF Oldest, QueuedIn, InScope
  <2>4. st2[d] = "pending"
    BY <1>1, <1>2, <1>3, <2>2, <2>3
  <2>5. d \in Blockers(s, st2, rn, cl)
    BY <2>3, <2>4 DEF Blockers, Blocks, InScope, Executing
  <2>. QED
    BY <2>5 DEF st2
<1>4. CASE Blockers(s, st, rn, cl) # {}
  <2>1. PICK b \in Deployment : ScopeOf[b] = s /\ Blocks(b, st, rn, cl)
    BY <1>4 DEF Blockers, InScope
  <2>2. st2[b] = st[b]
    BY <1>1, <1>4, <2>1
  <2>3. Blocks(b, st2, rn, cl)
    BY <2>1, <2>2 DEF Blocks
  <2>4. b \in Blockers(s, st2, rn, cl)
    BY <2>1, <2>3 DEF Blockers, InScope
  <2>. QED
    BY <2>4 DEF st2
<1>. QED
  BY <1>3, <1>4

LEMMA CommitWakes ==
    ASSUME NEW E \in SUBSET Scope, NEW st, NEW rn, NEW cl,
           st \in [Deployment -> Status],
           \A s \in Scope \ E : QueuedIn(s, st) # {} => Blockers(s, st, rn, cl) # {},
           Commit(E, st, rn, cl)
    PROVE  NoLostWakeup'
<1>. SUFFICES ASSUME NEW s \in Scope, QueuedIn(s, status') # {}
              PROVE  Blockers(s, status', run', cleanup') # {}
  BY DEF NoLostWakeup, QueuedIn, Blockers, Blocks
<1>1. status' = AdvanceStatus(E, st, rn, cl) /\ run' = rn /\ cleanup' = cl
  BY DEF Commit
<1>. QED
  BY <1>1, AdvanceWakes

\* A transaction on one deployment.
LEMMA LocalWakes ==
    ASSUME IInv, NoLostWakeup, NEW d \in Deployment, NEW st, NEW rn, NEW cl,
           st \in [Deployment -> Status],
           \A e \in Deployment : e # d =>
               st[e] = status[e] /\ rn[e] = run[e] /\ cl[e] = cleanup[e],
           DeploymentTx(d, st, rn, cl)
    PROVE  NoLostWakeup'
<1>1. ASSUME NEW s \in Scope \ EnvScopes(d), QueuedIn(s, st) # {}
      PROVE  Blockers(s, st, rn, cl) # {}
  <2>1. \A e \in InScope(s) : e \in Deployment /\ e # d
    BY <1>1, ScopeAssumption DEF EnvScopes, InScope
  <2>2. QueuedIn(s, status) # {}
    BY <1>1, <2>1 DEF QueuedIn
  <2>3. PICK b \in InScope(s) : Blocks(b, status, run, cleanup)
    BY <1>1, <2>2 DEF NoLostWakeup, Blockers
  <2>4. Blocks(b, st, rn, cl)
    BY <2>1, <2>3 DEF Blocks
  <2>. QED
    BY <2>3, <2>4 DEF Blockers
<1>. QED
  BY <1>1, CommitWakes, EnvScopesType DEF DeploymentTx

\* A maintenance transaction.
LEMMA MaintenanceWakes ==
    ASSUME IInv, NoLostWakeup, NEW st, NEW rn, NEW cl,
           st \in [Deployment -> Status],
           \A e \in Deployment : st[e] = status[e] \/ st[e] \in Terminal,
           MaintenanceTx(st, rn, cl)
    PROVE  NoLostWakeup'
<1>1. ASSUME NEW s \in Scope \ QueueScopes PROVE QueuedIn(s, st) = {}
  <2>1. ~Listed(s, status)
    BY <1>1 DEF QueueScopes
  <2>2. \A e \in InScope(s) : e \in Deployment /\ status[e] # "queued"
    BY <2>1 DEF Listed, Live, InScope
  <2>. QED
    BY <2>2 DEF QueuedIn, Terminal
<1>. QED
  BY <1>1, CommitWakes, QueueScopesType DEF MaintenanceTx

LEMMA StatusWakes ==
    ASSUME IInv, NoLostWakeup, NEW d \in Deployment,
           \/ \E st \in Status : Create(d, st)
           \/ Approve(d)
           \/ CancelQueued(d)
           \/ \E st \in Status : GateStep(d, st)
           \/ \E want \in Terminal, confirmed \in BOOLEAN : Complete(d, want, confirmed)
    PROVE  NoLostWakeup'
<1>1. ASSUME NEW st \in Status, NEW cl, \A e \in Deployment : e # d => cl[e] = cleanup[e],
             DeploymentTx(d, Set(d, st), run, cl)
      PROVE  NoLostWakeup'
  <2>1. /\ Set(d, st) \in [Deployment -> Status]
        /\ \A e \in Deployment : e # d => Set(d, st)[e] = status[e]
    BY DEF Set, IInv, TypeOK
  <2>. QED
    BY <1>1, <2>1, LocalWakes
<1>2. ASSUME NEW st \in Status, Create(d, st) \/ GateStep(d, st) PROVE NoLostWakeup'
  BY <1>1, <1>2 DEF Create, GateStep
<1>3. ASSUME Approve(d) \/ CancelQueued(d) PROVE NoLostWakeup'
  BY <1>1, <1>3 DEF Approve, CancelQueued, Status, Early, Terminal
<1>4. ASSUME NEW want \in Terminal, NEW confirmed \in BOOLEAN, Complete(d, want, confirmed)
      PROVE  NoLostWakeup'
  <2>1. CompletedStatus(d, want) \in Status
    BY DEF CompletedStatus, IInv, TypeOK, Status
  <2>2. \A e \in Deployment : e # d => CompletedCleanup(d, want, confirmed)[e] = cleanup[e]
    BY DEF CompletedCleanup, IInv, TypeOK
  <2>. QED
    BY <1>1, <1>4, <2>1, <2>2 DEF Complete
<1>. QED
  BY <1>2, <1>3, <1>4

LEMMA RunWakes ==
    ASSUME IInv, NoLostWakeup, NEW d \in Deployment,
           \/ \E As \in SUBSET Agent : QueueRuns(d, As)
           \/ \E a \in Agent : \/ Claim(d, a)
                               \/ FailInvalid(d, a)
                               \/ \E result \in RunState : FinishRun(d, a, result)
                               \/ AckCancel(d, a)
    PROVE  NoLostWakeup'
<1>1. ASSUME NEW st \in {status, Set(d, "failed")}, NEW mine,
             DeploymentTx(d, st, [run EXCEPT ![d] = mine], cleanup)
      PROVE  NoLostWakeup'
  <2>1. /\ st \in [Deployment -> Status]
        /\ \A e \in Deployment : e # d => st[e] = status[e]
    BY DEF Set, IInv, TypeOK, Status, Terminal
  <2>. DEFINE rn == [run EXCEPT ![d] = mine]
  <2>2. \A e \in Deployment : e # d => rn[e] = run[e]
    BY DEF IInv, TypeOK
  <2>3. DeploymentTx(d, st, rn, cleanup)
    BY <1>1
  <2>. HIDE DEF rn
  <2>. QED
    BY <2>1, <2>2, <2>3, LocalWakes
<1>2. ASSUME NEW a \in Agent, NEW v, DeploymentTx(d, status, SetRun(d, a, v), cleanup)
      PROVE  NoLostWakeup'
  <2>1. SetRun(d, a, v) = [run EXCEPT ![d] = [run[d] EXCEPT ![a] = v]]
    BY DEF SetRun
  <2>. QED
    BY <1>1, <1>2, <2>1
<1>3. ASSUME NEW As \in SUBSET Agent, QueueRuns(d, As) PROVE NoLostWakeup'
  BY <1>1, <1>3 DEF QueueRuns
<1>4. ASSUME NEW a \in Agent, FailInvalid(d, a) PROVE NoLostWakeup'
  <2>. DEFINE mine == [b \in Agent |-> IF run[d][b] = "waiting" THEN "failed" ELSE run[d][b]]
  <2>1. PICK st \in {status, Set(d, "failed")} :
          DeploymentTx(d, st, [run EXCEPT ![d] = mine], cleanup)
    BY <1>4 DEF FailInvalid
  <2>. HIDE DEF mine
  <2>. QED
    BY <1>1, <2>1
<1>5. ASSUME NEW a \in Agent,
             Claim(d, a) \/ AckCancel(d, a) \/ \E result \in RunState : FinishRun(d, a, result)
      PROVE  NoLostWakeup'
  BY <1>2, <1>5 DEF Claim, AckCancel, FinishRun
<1>. QED
  BY <1>3, <1>4, <1>5

\* The steps that do not advance keep every blocker.
LEMMA PlainWakes ==
    ASSUME IInv, NoLostWakeup, NEW d \in Deployment,
           \/ RecordNamespace(d)
           \/ RequestCancel(d)
           \/ \E a \in Agent : StartRun(d, a)
    PROVE  NoLostWakeup'
<1>1. ASSUME status' = status,
             \A e \in Deployment : Blocks(e, status, run, cleanup) => Blocks(e, status, run', cleanup')
      PROVE  NoLostWakeup'
  BY <1>1 DEF NoLostWakeup, QueuedIn, Blockers, Blocks, InScope
<1>2. ASSUME RecordNamespace(d) PROVE NoLostWakeup'
  <2>1. /\ status[d] = "running" /\ status' = status /\ run' = run
        /\ \A e \in Deployment : e # d => cleanup'[e] = cleanup[e]
    BY <1>2 DEF RecordNamespace, IInv, TypeOK
  <2>2. \A e \in Deployment : Blocks(e, status, run, cleanup) => Blocks(e, status, run', cleanup')
    BY <2>1 DEF Blocks, Executing
  <2>. QED
    BY <1>1, <2>1, <2>2
<1>3. ASSUME status' = status, cleanup' = cleanup,
             \A e \in Deployment, a \in Agent :
                 /\ run[e][a] \in Unresolved => run'[e][a] \in Unresolved
                 /\ run'[e][a] \in Cleanup => run[e][a] \in Cleanup
      PROVE  NoLostWakeup'
  <2>1. \A e \in Deployment : Blocks(e, status, run, cleanup) => Blocks(e, status, run', cleanup')
    BY <1>3 DEF Blocks
  <2>. QED
    BY <1>1, <1>3, <2>1
<1>4. ASSUME RequestCancel(d) PROVE NoLostWakeup'
  <2>1. \A a \in Agent :
          /\ run[d][a] \in Unresolved => Cancelling(run[d][a]) \in Unresolved
          /\ Cancelling(run[d][a]) \in Cleanup => run[d][a] \in Cleanup
    BY DEF Cancelling, Unresolved, OnAgent, Cleanup, IInv, TypeOK
  <2>2. \A e \in Deployment, a \in Agent :
          run'[e][a] = IF e = d THEN Cancelling(run[d][a]) ELSE run[e][a]
    BY <1>4 DEF RequestCancel, IInv, TypeOK
  <2>. QED
    BY <1>3, <1>4, <2>1, <2>2 DEF RequestCancel
<1>5. ASSUME NEW a \in Agent, StartRun(d, a) PROVE NoLostWakeup'
  <2>1. \A e \in Deployment, b \in Agent :
          run'[e][b] = IF e = d /\ b = a THEN "started" ELSE run[e][b]
    BY <1>5 DEF StartRun, SetRun, IInv, TypeOK
  <2>2. \A e \in Deployment, b \in Agent :
          /\ run[e][b] \in Unresolved => run'[e][b] \in Unresolved
          /\ run'[e][b] \in Cleanup => run[e][b] \in Cleanup
    BY <2>1 DEF Unresolved, OnAgent, Cleanup
  <2>. QED
    BY <1>3, <1>5, <2>2 DEF StartRun
<1>. QED
  BY <1>2, <1>4, <1>5

LEMMA StartWakes ==
    ASSUME IInv, NoLostWakeup, NEW d \in Deployment, StartLocal(d)
    PROVE  NoLostWakeup'
<1>. DEFINE st == AdvanceStatus(EnvScopes(d), status, run, cleanup)
<1>1. /\ st[d] = "pending" /\ status' = [st EXCEPT ![d] = "running"]
      /\ run' = run /\ cleanup' = cleanup
  BY DEF StartLocal
<1>2. \A e \in Deployment : status'[e] = IF e = d THEN "running" ELSE st[e]
  BY <1>1 DEF AdvanceStatus
<1>3. \A s \in Scope : QueuedIn(s, st) # {} => Blockers(s, st, run, cleanup) # {}
  BY AdvanceWakes, EnvScopesType DEF NoLostWakeup, IInv, TypeOK
<1>. HIDE DEF st
<1>4. \A e \in Deployment : Blocks(e, st, run, cleanup) => Blocks(e, status', run', cleanup')
  BY <1>1, <1>2 DEF Blocks, Executing
<1>5. \A s \in Scope : QueuedIn(s, status') \subseteq QueuedIn(s, st)
  BY <1>1, <1>2 DEF QueuedIn, InScope
<1>6. \A s \in Scope : Blockers(s, st, run, cleanup) \subseteq Blockers(s, status', run', cleanup')
  BY <1>4 DEF Blockers, InScope
<1>7. \A s \in Scope : QueuedIn(s, status') # {} => Blockers(s, status', run', cleanup') # {}
  BY <1>3, <1>5, <1>6
<1>. QED
  BY <1>7 DEF NoLostWakeup, QueuedIn, Blockers, Blocks

LEMMA ServerWakes == ASSUME IInv, NoLostWakeup, ServerStep PROVE NoLostWakeup'
<1>0. status \in [Deployment -> Status]
  BY DEF IInv, TypeOK
<1>1. ASSUME NEW e \in Env, Reconcile(e) PROVE NoLostWakeup'
  <2>. DEFINE E == {s \in QueueScopes : EnvOf[s] = e}
  <2>1. E \in SUBSET Scope /\ Commit(E, status, run, cleanup)
    BY <1>1, QueueScopesType DEF Reconcile
  <2>. HIDE DEF E
  <2>. QED
    BY <1>0, <2>1, CommitWakes DEF NoLostWakeup
<1>2. ASSUME NEW D \in SUBSET Deployment, ExpireGates(D) PROVE NoLostWakeup'
  <2>. DEFINE st == [d \in Deployment |-> IF d \in D THEN "expired" ELSE status[d]]
  <2>1. /\ st \in [Deployment -> Status]
        /\ \A d \in Deployment : st[d] = status[d] \/ st[d] \in Terminal
    BY <1>0 DEF Status, Terminal
  <2>2. MaintenanceTx(st, run, cleanup)
    BY <1>2 DEF ExpireGates
  <2>. HIDE DEF st
  <2>. QED
    BY <2>1, <2>2, MaintenanceWakes
<1>3. ASSUME NEW rn, NEW cl, MaintenanceTx(FailTerminal(status, rn), rn, cl) PROVE NoLostWakeup'
  BY <1>3, FailTerminalFacts, MaintenanceWakes
<1>4. ASSUME NEW rn, NEW cl, MaintenanceTx(status, rn, cl) PROVE NoLostWakeup'
  BY <1>0, <1>4, MaintenanceWakes
<1>5. ASSUME NEW due \in SUBSET (Deployment \X Agent), Maintain(due) PROVE NoLostWakeup'
  BY <1>3, <1>5 DEF Maintain
<1>6. ASSUME NEW a \in Agent, RevokeAgent(a) PROVE NoLostWakeup'
  BY <1>3, <1>6 DEF RevokeAgent
<1>7. ASSUME NEW a \in Agent, NEW ready \in BOOLEAN, NEW failed \in SUBSET Deployment,
             AgentPoll(a, ready, failed)
      PROVE  NoLostWakeup'
  BY <1>4, <1>7 DEF AgentPoll
<1>8. ASSUME NEW a \in Agent, NEW revoked \in BOOLEAN, DeleteAgent(a, revoked)
      PROVE  NoLostWakeup'
  <2>1. PICK st, rn, cl :
          /\ st = status \/ \E r : st = FailTerminal(status, r)
          /\ MaintenanceTx(st, rn, cl)
    <3>. DEFINE rn == IF revoked THEN run ELSE Revoked(a, run)
                st == IF revoked THEN status ELSE FailTerminal(status, rn)
                rn2 == [d \in Deployment |-> [rn[d] EXCEPT ![a] = "none"]]
                cl == [d \in Deployment |->
                          IF Preserved(d, a, st, rn) THEN "preserved" ELSE cleanup[d]]
    <3>1. MaintenanceTx(st, rn2, cl)
      BY <1>8 DEF DeleteAgent
    <3>2. st = status \/ \E r : st = FailTerminal(status, r)
      OBVIOUS
    <3>. HIDE DEF st, rn, rn2, cl
    <3>. QED
      BY <3>1, <3>2
  <2>2. /\ st \in [Deployment -> Status]
        /\ \A d \in Deployment : st[d] = status[d] \/ st[d] \in Terminal
    BY <1>0, <2>1, FailTerminalFacts
  <2>. QED
    BY <2>1, <2>2, MaintenanceWakes
<1>9. ASSUME ConfirmContainerCleanup PROVE NoLostWakeup'
  <2>. DEFINE Confirmed(d) == /\ status[d] \in {"running", "publishing_artifact", "cleanup_unconfirmed"}
                              /\ cleanup[d] = "namespace"
              uncertain(d) == \E a \in Agent : run[d][a] \in Cleanup
              st == [d \in Deployment |-> IF Confirmed(d) /\ ~uncertain(d) THEN "failed" ELSE status[d]]
              cl == [d \in Deployment |-> IF Confirmed(d) THEN "none" ELSE cleanup[d]]
  <2>1. MaintenanceTx(st, run, cl)
    BY <1>9 DEF ConfirmContainerCleanup
  <2>. HIDE DEF uncertain, Confirmed
  <2>2. /\ st \in [Deployment -> Status]
        /\ \A d \in Deployment : st[d] = status[d] \/ st[d] \in Terminal
    BY <1>0 DEF Status, Terminal
  <2>. HIDE DEF st, cl
  <2>. QED
    BY <2>1, <2>2, MaintenanceWakes
<1>10. ASSUME RecoverPending PROVE NoLostWakeup'
  <2>. DEFINE orphan == {p \in Deployment \X Agent :
                             status[p[1]] = "running" /\ run[p[1]][p[2]] \in Active}
              rn == [d \in Deployment |-> [a \in Agent |->
                        IF <<d, a>> \in orphan THEN Cancelling(run[d][a]) ELSE run[d][a]]]
              inFlight(d) == status[d] \in {"running", "publishing_artifact"}
              onAgent(d) == \E a \in Agent : rn[d][a] \in OnAgent
              idle(d) == \A a \in Agent : rn[d][a] # "cancel_requested"
              st == [d \in Deployment |->
                        IF inFlight(d) /\ cleanup[d] = "namespace" /\ ~onAgent(d)
                        THEN "cleanup_unconfirmed"
                        ELSE IF inFlight(d) /\ idle(d) THEN "failed" ELSE status[d]]
  <2>1. MaintenanceTx(st, rn, cleanup)
    BY <1>10 DEF RecoverPending
  <2>. HIDE DEF inFlight, onAgent, idle
  <2>2. /\ st \in [Deployment -> Status]
        /\ \A d \in Deployment : st[d] = status[d] \/ st[d] \in Terminal
    BY <1>0 DEF Status, Terminal
  <2>. HIDE DEF st, rn
  <2>. QED
    BY <2>1, <2>2, MaintenanceWakes
<1>. QED
  BY <1>1, <1>2, <1>5, <1>6, <1>7, <1>8, <1>9, <1>10 DEF ServerStep

\* Whenever a deployment is queued something holds its scope: the transaction
\* that frees a scope is the one that admits the next deployment.
THEOREM NoWakeupLost == Spec => []NoLostWakeup
<1>1. Init => NoLostWakeup
  BY DEF Init, NoLostWakeup, QueuedIn, InScope
<1>2. IInv /\ NoLostWakeup /\ [Next]_vars => NoLostWakeup'
  <2>1. ASSUME IInv, NoLostWakeup, NEW d \in Deployment, DeploymentStep(d) PROVE NoLostWakeup'
    BY <2>1, StatusWakes, PlainWakes, StartWakes, RunWakes DEF DeploymentStep, RunStep
  <2>2. NoLostWakeup /\ UNCHANGED vars => NoLostWakeup'
    BY DEF NoLostWakeup, QueuedIn, Blockers, Blocks, vars
  <2>. QED
    BY <2>1, <2>2, ServerWakes DEF Next
<1>. QED
  BY <1>1, <1>2, Invariance, PTL DEF Spec

=============================================================================
