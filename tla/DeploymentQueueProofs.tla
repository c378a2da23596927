------------------------ MODULE DeploymentQueueProofs ------------------------
(***************************************************************************)
(* The queue tables keep every scope exclusive, for any set of             *)
(* deployments, agents, scopes and environments.                           *)
(*                                                                         *)
(* Every action but three commits through Commit(E, st, rn, cl): it first  *)
(* rewrites columns to st, rn and cl, then the queue advances.  The proof  *)
(* separates the two.  Tame says what the rewriting alone may do, and is   *)
(* shown once per action; CommitStep shows once that the advance turns any *)
(* tame rewriting into a step that keeps the invariant and implements the  *)
(* lock.                                                                   *)
(***************************************************************************)
EXTENDS DeploymentQueue, TLAPS

IInv == TypeOK /\ SlotOwned

\* Occupies, over the columns a transaction has written so far.
OccupiesAt(d, st, rn) ==
    st[d] \in Executing \/ \E a \in Agent : rn[d][a] \in Unresolved

\* The rewritten columns are well typed; nobody newly occupies a scope; rows
\* appear as queued or pending_approval, are queued only from there and keep
\* no runs until they have left those statuses.
Typed(st, rn, cl) ==
    /\ st \in [Deployment -> Status]
    /\ rn \in [Deployment -> [Agent -> RunState]]
    /\ cl \in [Deployment -> CleanupMark]

Calm(st, rn) ==
    \A d \in Deployment :
        /\ OccupiesAt(d, st, rn) => Occupies(d)
        /\ st[d] \in Early => \A a \in Agent : rn[d][a] = "none"
        /\ st[d] = "queued" => status[d] \in Early
        /\ st[d] = "pending_approval" => status[d] \in {"none", "pending_approval"}
        /\ st[d] = "none" => status[d] = "none"
        /\ status[d] = "none" => st[d] \in Early

Tame(st, rn, cl) == Typed(st, rn, cl) /\ Calm(st, rn)

\* What a step that ends in st and rn does to the lock's clients.
LockMoves(st, rn) ==
    \A d \in Deployment :
        /\ status[d] = "none" => st[d] \in Early \/ OccupiesAt(d, st, rn)
        /\ st[d] = "none" => status[d] = "none"
        /\ st[d] = "pending_approval" => status[d] \in {"none", "pending_approval"}
        /\ st[d] = "queued" => status[d] \in Early
        /\ OccupiesAt(d, st, rn) => status[d] \in Early \/ Occupies(d)
        /\ status[d] \in Early /\ OccupiesAt(d, st, rn) =>
               \A e \in Deployment :
                   ScopeOf[e] = ScopeOf[d] /\ e < d => st[e] # "queued"

\* The invariant and the moves, over the columns a transaction commits.
Good(st, sl, rn) ==
    /\ st \in [Deployment -> Status]
    /\ sl \in [Scope -> Deployment \cup {NoDeployment}]
    /\ \A s \in Scope : sl[s] # NoDeployment => ScopeOf[sl[s]] = s
    /\ \A d \in Deployment : st[d] \in Early => \A a \in Agent : rn[d][a] = "none"
    /\ \A d \in Deployment : OccupiesAt(d, st, rn) => sl[ScopeOf[d]] = d
    /\ LockMoves(st, rn)

GoodStep == IInv' /\ LockMoves(status', run')

LEMMA OldestUnique ==
    ASSUME NEW S \in SUBSET Deployment, NEW d \in Oldest(S)
    PROVE  Row(Oldest(S)) = d
<1>1. d \in S /\ \A e \in S : d <= e
  BY DEF Oldest
<1>2. \A e \in Oldest(S) : e = d
  BY <1>1, IdAssumption DEF Oldest
<1>3. Oldest(S) = {d}
  BY <1>2
<1>. QED
  BY <1>3 DEF Row

\* A deployment that has not been admitted does not occupy its scope.
LEMMA EarlyIdle ==
    ASSUME IInv, NEW d \in Deployment, status[d] \in Early
    PROVE  ~Occupies(d)
BY DEF IInv, TypeOK, Occupies, Early, Executing, Unresolved, OnAgent

LEMMA RowType ==
    ASSUME NEW S \in SUBSET Deployment
    PROVE  Row(S) \in S \cup {NoDeployment}
BY DEF Row

\* The heart of the argument: the advance keeps the slot with its occupant,
\* and admits only the oldest queued deployment of a scope nobody blocks.
LEMMA AdvanceStep ==
    ASSUME IInv, NEW E \in SUBSET Scope, NEW st, NEW rn, NEW cl, Tame(st, rn, cl)
    PROVE  Good(AdvanceStatus(E, st, rn, cl), AdvanceSlot(E, st, rn, cl), rn)
<1>. DEFINE Admitted(d) == /\ ScopeOf[d] \in E
                           /\ Blockers(ScopeOf[d], st, rn, cl) = {}
                           /\ d \in Oldest(QueuedIn(ScopeOf[d], st))
            st2 == AdvanceStatus(E, st, rn, cl)
            sl2 == AdvanceSlot(E, st, rn, cl)
<1>2. \A d \in Deployment : st2[d] = IF Admitted(d) THEN "pending" ELSE st[d]
  BY DEF AdvanceStatus
<1>3. \A d \in Deployment : Admitted(d) => st[d] = "queued"
  BY DEF Oldest, QueuedIn
<1>4. st2 \in [Deployment -> Status]
  BY <1>2 DEF AdvanceStatus, Tame, Typed, Status, Executing
<1>8. \A s \in Scope : sl2[s] =
        IF s \notin E \/ ~Listed(s, st) THEN slot[s]
        ELSE IF Blockers(s, st, rn, cl) = {} THEN Row(Oldest(QueuedIn(s, st)))
        ELSE IF slot[s] = NoDeployment THEN Row(Oldest(Blockers(s, st, rn, cl)))
        ELSE slot[s]
  BY DEF AdvanceSlot
<1>10. \A s \in Scope : sl2[s] \in InScope(s) \cup {NoDeployment}
  <2>. TAKE s \in Scope
  <2>1. slot[s] \in InScope(s) \cup {NoDeployment}
    BY DEF IInv, TypeOK, InScope
  <2>2. Row(Oldest(QueuedIn(s, st))) \in InScope(s) \cup {NoDeployment}
    <3>1. Oldest(QueuedIn(s, st)) \subseteq InScope(s)
      BY DEF Oldest, QueuedIn
    <3>. QED
      BY <3>1, RowType DEF InScope
  <2>3. Row(Oldest(Blockers(s, st, rn, cl))) \in InScope(s) \cup {NoDeployment}
    <3>1. Oldest(Blockers(s, st, rn, cl)) \subseteq InScope(s)
      BY DEF Oldest, Blockers
    <3>. QED
      BY <3>1, RowType DEF InScope
  <2>. QED
    BY <1>8, <2>1, <2>2, <2>3
<1>11. sl2 \in [Scope -> Deployment \cup {NoDeployment}]
  BY <1>10 DEF AdvanceSlot, InScope
<1>. HIDE DEF st2, sl2
<1>5. \A d \in Deployment :
        OccupiesAt(d, st2, rn) <=> (Admitted(d) \/ OccupiesAt(d, st, rn))
  BY <1>2, <1>3 DEF OccupiesAt, Executing
<1>6. \A d \in Deployment : OccupiesAt(d, st, rn) => slot[ScopeOf[d]] = d
  BY DEF IInv, SlotOwned, Tame, Calm
<1>7. \A d \in Deployment :
        OccupiesAt(d, st, rn) => d \in Blockers(ScopeOf[d], st, rn, cl)
  BY DEF Blockers, Blocks, OccupiesAt, InScope
<1>9. ASSUME NEW d \in Deployment, OccupiesAt(d, st2, rn)
      PROVE  sl2[ScopeOf[d]] = d
  <2>0. ScopeOf[d] \in Scope
    BY ScopeAssumption
  <2>1. CASE Admitted(d)
    <3>1. Listed(ScopeOf[d], st)
      BY <2>1, <1>3 DEF Listed, InScope, Live
    <3>2. sl2[ScopeOf[d]] = Row(Oldest(QueuedIn(ScopeOf[d], st)))
      BY <1>8, <2>0, <2>1, <3>1
    <3>3. QueuedIn(ScopeOf[d], st) \in SUBSET Deployment
      BY DEF QueuedIn, InScope
    <3>. QED
      BY <2>1, <3>2, <3>3, OldestUnique
  <2>2. CASE OccupiesAt(d, st, rn)
    BY <2>0, <2>2, <1>6, <1>7, <1>8, NoneAssumption
  <2>. QED
    BY <1>5, <1>9, <2>1, <2>2
<1>12. \A s \in Scope : sl2[s] # NoDeployment => ScopeOf[sl2[s]] = s
  BY <1>10 DEF InScope
<1>13. \A d \in Deployment : st2[d] \in Early => \A a \in Agent : rn[d][a] = "none"
  BY <1>2 DEF Tame, Calm, Early
<1>15. LockMoves(st2, rn)
  <2>1. ASSUME NEW d \in Deployment
        PROVE  /\ st2[d] = "none" => status[d] = "none"
               /\ st2[d] = "pending_approval" => status[d] \in {"none", "pending_approval"}
               /\ st2[d] = "queued" => status[d] \in Early
               /\ Admitted(d) => status[d] \in Early
    BY <1>2, <1>3 DEF Tame, Calm
  <2>2. ASSUME NEW d \in Deployment, status[d] = "none"
        PROVE  st2[d] \in Early \/ OccupiesAt(d, st2, rn)
    BY <1>2, <1>5, <2>2 DEF Tame, Calm
  <2>3. ASSUME NEW d \in Deployment, OccupiesAt(d, st2, rn)
        PROVE  status[d] \in Early \/ Occupies(d)
    BY <1>5, <2>1, <2>3 DEF Tame, Calm
  <2>4. ASSUME NEW d \in Deployment, status[d] \in Early, OccupiesAt(d, st2, rn),
               NEW e \in Deployment, ScopeOf[e] = ScopeOf[d], e < d
        PROVE  st2[e] # "queued"
    <3>1. ~Occupies(d)
      BY <2>4, EarlyIdle
    <3>2. Admitted(d)
      BY <1>5, <2>4, <3>1 DEF Tame, Calm
    <3>3. st[e] # "queued"
      BY <2>4, <3>2, IdAssumption DEF Oldest, QueuedIn, InScope
    <3>. QED
      BY <1>2, <3>3
  <2>. QED
    BY <2>1, <2>2, <2>3, <2>4 DEF LockMoves
<1>. QED
  BY <1>4, <1>9, <1>11, <1>12, <1>13, <1>15 DEF Good, st2, sl2

\* Committing columns that are Good establishes the invariant.
LEMMA GoodCommit ==
    ASSUME Good(status', slot', run'),
           run' \in [Deployment -> [Agent -> RunState]],
           cleanup' \in [Deployment -> CleanupMark],
           recovered' \in SUBSET (Deployment \X Agent)
    PROVE  GoodStep
BY DEF Good, GoodStep, IInv, TypeOK, SlotOwned, OccupiesAt, Occupies

LEMMA CommitStep ==
    ASSUME IInv, NEW E \in SUBSET Scope, NEW st, NEW rn, NEW cl,
           Tame(st, rn, cl), Commit(E, st, rn, cl),
           recovered' \in SUBSET (Deployment \X Agent)
    PROVE  GoodStep
<1>1. Good(AdvanceStatus(E, st, rn, cl), AdvanceSlot(E, st, rn, cl), rn)
  BY AdvanceStep
<1>2. Good(status', slot', run')
  BY <1>1 DEF Commit
<1>. QED
  BY <1>2, GoodCommit DEF Commit, Tame, Typed

\* The tables as they stand are tame: an advance alone is a good step.
LEMMA TameNow == IInv => Tame(status, run, cleanup)
BY DEF IInv, TypeOK, Tame, Typed, Calm, OccupiesAt, Occupies, Early

\* Changing one deployment's status is tame when the new status occupies the
\* scope only if the deployment already did, and respects the early statuses.
LEMMA TameSet ==
    ASSUME IInv, NEW d \in Deployment, NEW st \in Status,
           NEW cl \in [Deployment -> CleanupMark],
           st \in Executing => status[d] \in Executing,
           st = "queued" => status[d] \in Early,
           st = "pending_approval" => status[d] \in {"none", "pending_approval"},
           st = "none" => status[d] = "none",
           status[d] = "none" => st \in Early
    PROVE  Tame(Set(d, st), run, cl)
<1>1. Set(d, st) \in [Deployment -> Status]
  BY DEF IInv, TypeOK, Set
<1>2. \A e \in Deployment : Set(d, st)[e] = IF e = d THEN st ELSE status[e]
  BY DEF IInv, TypeOK, Set
<1>. QED
  BY <1>1, <1>2 DEF IInv, TypeOK, Tame, Typed, Calm, OccupiesAt, Occupies, Early

\* So is any rewriting that leaves early rows alone and makes a run unresolved
\* only on a deployment that already occupies its scope.
LEMMA TameRewrite ==
    ASSUME IInv, NEW st \in [Deployment -> Status],
           NEW rn \in [Deployment -> [Agent -> RunState]],
           NEW cl \in [Deployment -> CleanupMark],
           \A d \in Deployment :
               /\ st[d] \in Executing => status[d] \in Executing
               /\ st[d] \in Early => st[d] = status[d]
               /\ status[d] \in Early => st[d] = status[d],
           \A d \in Deployment, a \in Agent :
               /\ rn[d][a] \in Unresolved => run[d][a] \in Unresolved \/ status[d] \in Executing
               /\ status[d] \in Early => rn[d][a] = "none"
    PROVE  Tame(st, rn, cl)
BY DEF IInv, TypeOK, Tame, Typed, Calm, OccupiesAt, Occupies, Early

LEMMA EnvScopesType == ASSUME NEW d \in Deployment PROVE EnvScopes(d) \in SUBSET Scope
BY DEF EnvScopes

LEMMA QueueScopesType == QueueScopes \in SUBSET Scope
BY DEF QueueScopes

LEMMA StatusSteps ==
    ASSUME IInv, NEW d \in Deployment,
           \/ \E st \in Status : Create(d, st)
           \/ Approve(d)
           \/ CancelQueued(d)
           \/ \E st \in Status : GateStep(d, st)
           \/ \E want \in Terminal, confirmed \in BOOLEAN : Complete(d, want, confirmed)
    PROVE  GoodStep
<1>. USE EnvScopesType
<1>0. recovered \in SUBSET (Deployment \X Agent) /\ cleanup \in [Deployment -> CleanupMark]
  BY DEF IInv, TypeOK
<1>1. ASSUME NEW st \in Status, Create(d, st) PROVE GoodStep
  <2>1. Tame(Set(d, st), run, cleanup)
    BY <1>0, <1>1, TameSet DEF Create, Early, Executing
  <2>. QED
    BY <1>0, <1>1, <2>1, CommitStep DEF Create, DeploymentTx
<1>2. ASSUME Approve(d) PROVE GoodStep
  <2>1. Tame(Set(d, "queued"), run, cleanup)
    BY <1>0, <1>2, TameSet DEF Approve, Early, Executing, Status
  <2>. QED
    BY <1>0, <1>2, <2>1, CommitStep DEF Approve, DeploymentTx
<1>3. ASSUME CancelQueued(d) PROVE GoodStep
  <2>1. Tame(Set(d, "cancelled"), run, cleanup)
    BY <1>0, <1>3, TameSet DEF CancelQueued, Executing, Status, Terminal
  <2>. QED
    BY <1>0, <1>3, <2>1, CommitStep DEF CancelQueued, DeploymentTx
<1>4. ASSUME NEW st \in Status, GateStep(d, st) PROVE GoodStep
  <2>1. Tame(Set(d, st), run, cleanup)
    BY <1>0, <1>4, TameSet DEF GateStep, GateEdge, Executing
  <2>. QED
    BY <1>0, <1>4, <2>1, CommitStep DEF GateStep, DeploymentTx
<1>5. ASSUME NEW want \in Terminal, NEW confirmed \in BOOLEAN, Complete(d, want, confirmed)
      PROVE  GoodStep
  <2>. DEFINE st == CompletedStatus(d, want)
              cl == CompletedCleanup(d, want, confirmed)
  <2>1. /\ st \in Status
        /\ st \in Executing => status[d] \in Executing
        /\ st \in Early => st = status[d]
    BY <1>5 DEF Complete, CompletedStatus, IInv, TypeOK, Status, Terminal, Executing, Early
  <2>2. status[d] # "none"
    BY <1>5 DEF Complete
  <2>3. cl \in [Deployment -> CleanupMark]
    BY <1>0 DEF CompletedCleanup, CleanupMark
  <2>4. Tame(Set(d, st), run, cl)
    <3>. HIDE DEF st, cl
    <3>. QED
      BY <2>1, <2>2, <2>3, TameSet DEF Early
  <2>. QED
    BY <1>0, <1>5, <2>4, CommitStep DEF Complete, DeploymentTx
<1>. QED
  BY <1>1, <1>2, <1>3, <1>4, <1>5

\* Steps that do not advance the queue.
LEMMA PlainSteps ==
    ASSUME IInv, NEW d \in Deployment,
           \/ RecordNamespace(d)
           \/ RequestCancel(d)
           \/ \E a \in Agent : StartRun(d, a)
    PROVE  GoodStep
<1>1. ASSUME /\ UNCHANGED <<status, slot, recovered>>
             /\ cleanup' \in [Deployment -> CleanupMark]
             /\ run' \in [Deployment -> [Agent -> RunState]]
             /\ \A e \in Deployment, a \in Agent :
                    /\ run'[e][a] \in Unresolved => run[e][a] \in Unresolved
                    /\ run[e][a] = "none" => run'[e][a] = "none"
      PROVE  GoodStep
  <2>1. \A e \in Deployment : OccupiesAt(e, status', run') => Occupies(e)
    BY <1>1 DEF Occupies, OccupiesAt
  <2>2. \A e \in Deployment : status[e] \in Early => ~Occupies(e)
    BY EarlyIdle
  <2>3. LockMoves(status', run')
    BY <1>1, <2>1, <2>2 DEF LockMoves, Early
  <2>4. Good(status', slot', run')
    BY <1>1, <2>1, <2>3 DEF Good, IInv, TypeOK, SlotOwned
  <2>. QED
    BY <1>1, <2>4, GoodCommit DEF IInv, TypeOK
<1>2. ASSUME RecordNamespace(d) PROVE GoodStep
  <2>1. cleanup' \in [Deployment -> CleanupMark]
    BY <1>2 DEF RecordNamespace, IInv, TypeOK, CleanupMark
  <2>. QED
    BY <1>1, <1>2, <2>1 DEF RecordNamespace, IInv, TypeOK
<1>3. ASSUME RequestCancel(d) PROVE GoodStep
  <2>1. \A a \in Agent : /\ Cancelling(run[d][a]) \in RunState
                         /\ Cancelling(run[d][a]) \in Unresolved => run[d][a] \in Unresolved
                         /\ run[d][a] = "none" => Cancelling(run[d][a]) = "none"
    BY DEF Cancelling, IInv, TypeOK, RunState, Active, Unresolved, OnAgent
  <2>2. run' = [run EXCEPT ![d] = [a \in Agent |-> Cancelling(run[d][a])]]
    BY <1>3 DEF RequestCancel
  <2>3. run' \in [Deployment -> [Agent -> RunState]]
    BY <2>1, <2>2 DEF IInv, TypeOK
  <2>4. \A e \in Deployment, a \in Agent :
          run'[e][a] = IF e = d THEN Cancelling(run[d][a]) ELSE run[e][a]
    BY <2>2 DEF IInv, TypeOK
  <2>. QED
    BY <1>1, <1>3, <2>1, <2>3, <2>4 DEF RequestCancel, IInv, TypeOK
<1>4. ASSUME NEW a \in Agent, StartRun(d, a) PROVE GoodStep
  <2>1. run' = SetRun(d, a, "started") /\ run[d][a] = "claimed"
    BY <1>4 DEF StartRun
  <2>2. run' \in [Deployment -> [Agent -> RunState]]
    BY <2>1 DEF SetRun, IInv, TypeOK, RunState, Active
  <2>3. \A e \in Deployment, b \in Agent :
          run'[e][b] = IF e = d /\ b = a THEN "started" ELSE run[e][b]
    BY <2>1 DEF SetRun, IInv, TypeOK
  <2>4. \A e \in Deployment, b \in Agent :
          /\ run'[e][b] \in Unresolved => run[e][b] \in Unresolved
          /\ run[e][b] = "none" => run'[e][b] = "none"
    BY <2>1, <2>3 DEF Unresolved, OnAgent
  <2>. QED
    BY <1>1, <1>4, <2>2, <2>4 DEF StartRun, IInv, TypeOK
<1>. QED
  BY <1>2, <1>3, <1>4

\* StartLocal advances like a commit and then moves pending to running.
LEMMA StartStep ==
    ASSUME IInv, NEW d \in Deployment, StartLocal(d)
    PROVE  GoodStep
<1>. DEFINE E == EnvScopes(d)
            st == AdvanceStatus(E, status, run, cleanup)
            sl == AdvanceSlot(E, status, run, cleanup)
<1>1. /\ st[d] = "pending"
      /\ sl[ScopeOf[d]] = d
      /\ status' = [st EXCEPT ![d] = "running"]
      /\ slot' = sl
      /\ UNCHANGED <<run, recovered, cleanup>>
  BY DEF StartLocal
<1>2. Good(st, sl, run)
  BY AdvanceStep, TameNow, EnvScopesType
<1>. HIDE DEF st, sl
<1>3. /\ status' \in [Deployment -> Status]
      /\ \A e \in Deployment : status'[e] = IF e = d THEN "running" ELSE st[e]
  BY <1>1, <1>2 DEF Good, Status, Executing
<1>4. \A e \in Deployment : OccupiesAt(e, status', run) <=> OccupiesAt(e, st, run)
  BY <1>1, <1>3 DEF OccupiesAt, Executing
<1>5. LockMoves(status', run)
  BY <1>1, <1>2, <1>3, <1>4 DEF Good, LockMoves, Early
<1>6. Good(status', slot', run')
  BY <1>1, <1>2, <1>3, <1>4, <1>5 DEF Good, Early
<1>. QED
  BY <1>1, <1>6, GoodCommit DEF IInv, TypeOK

\* Steps on the runs of one deployment that leave every status alone.
LEMMA RunSteps ==
    ASSUME IInv, NEW d \in Deployment,
           \/ \E As \in SUBSET Agent : QueueRuns(d, As)
           \/ \E a \in Agent : \/ Claim(d, a)
                               \/ FailInvalid(d, a)
                               \/ \E result \in RunState : FinishRun(d, a, result)
                               \/ AckCancel(d, a)
    PROVE  GoodStep
<1>. USE EnvScopesType
<1>0. TypeOK
  BY DEF IInv
<1>1. ASSUME NEW As \in SUBSET Agent, QueueRuns(d, As) PROVE GoodStep
  <2>. DEFINE rn == [run EXCEPT ![d] = [a \in Agent |-> IF a \in As THEN "waiting" ELSE "none"]]
  <2>1. rn \in [Deployment -> [Agent -> RunState]]
    BY <1>0 DEF TypeOK, RunState, Active
  <2>2. \A e \in Deployment, a \in Agent :
          rn[e][a] = IF e = d THEN IF a \in As THEN "waiting" ELSE "none" ELSE run[e][a]
    BY <1>0 DEF TypeOK
  <2>3. status[d] = "running" /\ Commit(EnvScopes(d), status, rn, cleanup)
        /\ recovered' \in SUBSET (Deployment \X Agent)
    BY <1>0, <1>1 DEF QueueRuns, DeploymentTx, TypeOK
  <2>. HIDE DEF rn
  <2>4. Tame(status, rn, cleanup)
    <3>1. \A e \in Deployment :
            /\ status[e] \in Executing => status[e] \in Executing
            /\ status[e] \in Early => status[e] = status[e]
            /\ status[e] \in Early => status[e] = status[e]
      BY <1>0, <2>2, <2>3 DEF Early, Executing
    <3>2. \A e \in Deployment, b \in Agent :
            /\ rn[e][b] \in Unresolved => run[e][b] \in Unresolved \/ status[e] \in Executing
            /\ status[e] \in Early => rn[e][b] = "none"
      BY <1>0, <2>2, <2>3 DEF TypeOK, Unresolved, OnAgent, Early, Executing
    <3>. QED
      BY <1>0, <2>1, <2>2, <3>1, <3>2, TameRewrite DEF TypeOK
  <2>. QED
    BY <2>3, <2>4, CommitStep
<1>2. ASSUME NEW a \in Agent, NEW v \in RunState,
             v \in Unresolved => run[d][a] \in Unresolved \/ status[d] \in Executing,
             run[d][a] # "none",
             DeploymentTx(d, status, SetRun(d, a, v), cleanup), UNCHANGED recovered
      PROVE  GoodStep
  <2>1. SetRun(d, a, v) \in [Deployment -> [Agent -> RunState]]
    BY <1>0 DEF TypeOK, SetRun
  <2>2. \A e \in Deployment, b \in Agent :
          SetRun(d, a, v)[e][b] = IF e = d /\ b = a THEN v ELSE run[e][b]
    BY <1>0 DEF TypeOK, SetRun
  <2>3. status[d] \notin Early
    BY <1>0, <1>2 DEF TypeOK
  <2>4. Tame(status, SetRun(d, a, v), cleanup)
    <3>1. \A e \in Deployment :
            /\ status[e] \in Executing => status[e] \in Executing
            /\ status[e] \in Early => status[e] = status[e]
            /\ status[e] \in Early => status[e] = status[e]
      BY <1>0, <1>2, <2>2, <2>3 DEF Early, Executing
    <3>2. \A e \in Deployment, b \in Agent :
            /\ SetRun(d, a, v)[e][b] \in Unresolved => run[e][b] \in Unresolved \/ status[e] \in Executing
            /\ status[e] \in Early => SetRun(d, a, v)[e][b] = "none"
      BY <1>0, <1>2, <2>2, <2>3 DEF TypeOK, Unresolved, OnAgent
    <3>. QED
      BY <1>0, <2>1, <2>2, <3>1, <3>2, TameRewrite DEF TypeOK
  <2>. QED
    BY <1>0, <1>2, <2>4, CommitStep DEF DeploymentTx, TypeOK
<1>3. ASSUME NEW a \in Agent, Claim(d, a) PROVE GoodStep
  BY <1>2, <1>3 DEF Claim, Executing, RunState, Active
<1>4. ASSUME NEW a \in Agent, NEW result \in RunState, FinishRun(d, a, result)
      PROVE  GoodStep
  BY <1>2, <1>4 DEF FinishRun, Unresolved, OnAgent
<1>5. ASSUME NEW a \in Agent, AckCancel(d, a) PROVE GoodStep
  BY <1>2, <1>5 DEF AckCancel, RunState, Unresolved, OnAgent
<1>6. ASSUME NEW a \in Agent, FailInvalid(d, a) PROVE GoodStep
  <2>. DEFINE rn == [run EXCEPT ![d] =
                       [b \in Agent |-> IF @[b] = "waiting" THEN "failed" ELSE @[b]]]
  <2>1. PICK st : /\ st \in {status, Set(d, "failed")}
                  /\ Commit(EnvScopes(d), st, rn, cleanup)
                  /\ status[d] = "running"
                  /\ UNCHANGED recovered
    BY <1>6 DEF FailInvalid, DeploymentTx
  <2>2. rn \in [Deployment -> [Agent -> RunState]]
    BY <1>0 DEF TypeOK, RunState
  <2>3. \A e \in Deployment, b \in Agent :
          rn[e][b] = IF e = d /\ run[d][b] = "waiting" THEN "failed" ELSE run[e][b]
    BY <1>0 DEF TypeOK
  <2>. HIDE DEF rn
  <2>4. /\ st \in [Deployment -> Status]
        /\ \A e \in Deployment : st[e] = status[e] \/ (e = d /\ st[e] = "failed")
    BY <1>0, <2>1 DEF TypeOK, Set, Status, Terminal
  <2>5. Tame(st, rn, cleanup)
    <3>1. \A e \in Deployment :
            /\ st[e] \in Executing => status[e] \in Executing
            /\ st[e] \in Early => st[e] = status[e]
            /\ status[e] \in Early => st[e] = status[e]
      BY <1>0, <2>1, <2>3, <2>4 DEF Early, Executing
    <3>2. \A e \in Deployment, b \in Agent :
            /\ rn[e][b] \in Unresolved => run[e][b] \in Unresolved \/ status[e] \in Executing
            /\ status[e] \in Early => rn[e][b] = "none"
      BY <1>0, <2>1, <2>3, <2>4 DEF TypeOK, Unresolved, OnAgent, Early, Executing
    <3>. QED
      BY <1>0, <2>1, <2>2, <2>4, <3>1, <3>2, TameRewrite DEF TypeOK
  <2>. QED
    BY <1>0, <2>1, <2>5, CommitStep DEF TypeOK
<1>. QED
  BY <1>1, <1>3, <1>4, <1>5, <1>6

\* FailDeploymentsWithTerminalRemoteStepRuns only ends running deployments, or
\* turns failed into cleanup_unconfirmed.
LEMMA FailTerminalFacts ==
    ASSUME IInv, NEW rn
    PROVE  /\ FailTerminal(status, rn) \in [Deployment -> Status]
           /\ \A d \in Deployment :
                  \/ FailTerminal(status, rn)[d] = status[d]
                  \/ /\ status[d] \notin Early
                     /\ FailTerminal(status, rn)[d] \in Terminal
<1>. DEFINE uncertain(d) == \E a \in Agent : rn[d][a] \in Cleanup
            broken(d) == \E a \in Agent :
                \/ rn[d][a] \in {"failed", "lost", "cancel_unconfirmed"} \cup Cleanup
                \/ rn[d][a] = "cancelled" /\ <<d, a>> \in recovered
            ends(d) == /\ status[d] = "running" \/ (status[d] = "failed" /\ uncertain(d))
                       /\ broken(d)
                       /\ \A a \in Agent : rn[d][a] \notin Active
<1>1. FailTerminal(status, rn) =
        [d \in Deployment |-> IF ends(d)
            THEN IF uncertain(d) THEN "cleanup_unconfirmed" ELSE "failed" ELSE status[d]]
  BY DEF FailTerminal
<1>. HIDE DEF broken, uncertain
<1>. QED
  BY <1>1 DEF IInv, TypeOK, Status, Terminal, Early

\* A maintenance transaction with such statuses, on runs where nothing becomes
\* unresolved, is a good step.
LEMMA MaintenanceStep ==
    ASSUME IInv, NEW st \in [Deployment -> Status],
           NEW rn \in [Deployment -> [Agent -> RunState]],
           NEW cl \in [Deployment -> CleanupMark],
           NEW E \in SUBSET Scope,
           \A d \in Deployment :
               \/ st[d] = status[d]
               \/ status[d] \notin Early /\ st[d] \in Terminal,
           \A d \in Deployment, a \in Agent :
               /\ rn[d][a] \in Unresolved => run[d][a] \in Unresolved
               /\ run[d][a] = "none" => rn[d][a] = "none",
           Commit(E, st, rn, cl),
           recovered' \in SUBSET (Deployment \X Agent)
    PROVE  GoodStep
<1>1. \A d \in Deployment :
        /\ st[d] \in Executing => status[d] \in Executing
        /\ st[d] \in Early => st[d] = status[d]
        /\ status[d] \in Early => st[d] = status[d]
  BY DEF Executing, Early, Terminal
<1>2. \A d \in Deployment, a \in Agent :
        /\ rn[d][a] \in Unresolved => run[d][a] \in Unresolved \/ status[d] \in Executing
        /\ status[d] \in Early => rn[d][a] = "none"
  BY DEF IInv, TypeOK
<1>3. Tame(st, rn, cl)
  BY <1>1, <1>2, TameRewrite
<1>. QED
  BY <1>3, CommitStep

\* revokeAgent resolves nothing into existence.
LEMMA RevokedFacts ==
    ASSUME IInv, NEW a \in Agent
    PROVE  /\ Revoked(a, run) \in [Deployment -> [Agent -> RunState]]
           /\ \A d \in Deployment, b \in Agent :
                  /\ Revoked(a, run)[d][b] \in Unresolved => run[d][b] \in Unresolved
                  /\ run[d][b] = "none" => Revoked(a, run)[d][b] = "none"
<1>1. \A d \in Deployment, b \in Agent : Revoked(a, run)[d][b] =
        IF b # a THEN run[d][b]
        ELSE IF run[d][a] = "waiting" THEN "failed"
        ELSE IF run[d][a] \in OnAgent THEN "lost" ELSE run[d][a]
  BY DEF Revoked, IInv, TypeOK
<1>2. Revoked(a, run) \in [Deployment -> [Agent -> RunState]]
  BY DEF Revoked, IInv, TypeOK, RunState
<1>. QED
  BY <1>1, <1>2 DEF Unresolved, OnAgent

LEMMA ServerSteps == ASSUME IInv, ServerStep PROVE GoodStep
<1>. USE QueueScopesType
<1>0. TypeOK
  BY DEF IInv
<1>1. ASSUME NEW e \in Env, Reconcile(e) PROVE GoodStep
  <2>. DEFINE E == {s \in QueueScopes : EnvOf[s] = e}
  <2>1. E \in SUBSET Scope /\ Commit(E, status, run, cleanup)
    BY <1>1 DEF Reconcile
  <2>. HIDE DEF E
  <2>. QED
    BY <1>0, <1>1, <2>1, TameNow, CommitStep DEF Reconcile, TypeOK
<1>2. ASSUME NEW D \in SUBSET Deployment, ExpireGates(D) PROVE GoodStep
  <2>. DEFINE st == [d \in Deployment |-> IF d \in D THEN "expired" ELSE status[d]]
  <2>1. st \in [Deployment -> Status]
    BY <1>0 DEF TypeOK, Status, Terminal
  <2>2. \A d \in Deployment : st[d] = status[d] \/ (status[d] \notin Early /\ st[d] \in Terminal)
    BY <1>2 DEF ExpireGates, Early, Terminal
  <2>3. Commit(QueueScopes, st, run, cleanup) /\ UNCHANGED recovered
    BY <1>2 DEF ExpireGates, MaintenanceTx
  <2>. HIDE DEF st
  <2>. QED
    BY <1>0, <2>1, <2>2, <2>3, MaintenanceStep DEF TypeOK
<1>3. ASSUME NEW due \in SUBSET (Deployment \X Agent), Maintain(due) PROVE GoodStep
  <2>. DEFINE rn == [d \in Deployment |-> [a \in Agent |->
                  IF <<d, a>> \in due THEN Overdue(run[d][a]) ELSE run[d][a]]]
  <2>1. \A d \in Deployment, a \in Agent :
          /\ rn[d][a] \in RunState
          /\ rn[d][a] \in Unresolved => run[d][a] \in Unresolved
          /\ run[d][a] = "none" => rn[d][a] = "none"
    BY <1>0 DEF TypeOK, Overdue, RunState, Active, Unresolved, OnAgent
  <2>2. rn \in [Deployment -> [Agent -> RunState]]
    BY <2>1
  <2>3. Commit(QueueScopes, FailTerminal(status, rn), rn, cleanup) /\ UNCHANGED recovered
    BY <1>3 DEF Maintain, MaintenanceTx
  <2>. HIDE DEF rn
  <2>. QED
    <3>1. \A d \in Deployment, a \in Agent :
            /\ rn[d][a] \in Unresolved => run[d][a] \in Unresolved
            /\ run[d][a] = "none" => rn[d][a] = "none"
      BY <2>1
    <3>2. /\ FailTerminal(status, rn) \in [Deployment -> Status]
          /\ \A d \in Deployment :
                 \/ FailTerminal(status, rn)[d] = status[d]
                 \/ status[d] \notin Early /\ FailTerminal(status, rn)[d] \in Terminal
      BY FailTerminalFacts
    <3>3. recovered' \in SUBSET (Deployment \X Agent) /\ cleanup \in [Deployment -> CleanupMark]
      BY <1>0, <2>3 DEF TypeOK
    <3>. QED
      BY <2>2, <2>3, <3>1, <3>2, <3>3, MaintenanceStep
<1>4. ASSUME NEW a \in Agent, RevokeAgent(a) PROVE GoodStep
  <2>1. Commit(QueueScopes, FailTerminal(status, Revoked(a, run)), Revoked(a, run), cleanup)
        /\ UNCHANGED recovered
    BY <1>4 DEF RevokeAgent, MaintenanceTx
  <2>. QED
    BY <1>0, <2>1, RevokedFacts, FailTerminalFacts, MaintenanceStep DEF TypeOK
<1>5. ASSUME NEW a \in Agent, NEW ready \in BOOLEAN, NEW failed \in SUBSET Deployment,
             AgentPoll(a, ready, failed)
      PROVE  GoodStep
  <2>. DEFINE Polled(state, unsupported) ==
                  IF ready /\ state = "cleanup_unconfirmed" THEN "cleanup_confirmed"
                  ELSE IF unsupported /\ state = "waiting" THEN "failed" ELSE state
              rn == [d \in Deployment |-> [run[d] EXCEPT ![a] = Polled(@, d \in failed)]]
  <2>1. rn \in [Deployment -> [Agent -> RunState]]
    BY <1>0 DEF TypeOK, RunState, Cleanup
  <2>2. \A d \in Deployment, b \in Agent :
          rn[d][b] = IF b = a THEN Polled(run[d][a], d \in failed) ELSE run[d][b]
    BY <1>0 DEF TypeOK
  <2>3. \A d \in Deployment, b \in Agent :
          /\ rn[d][b] \in Unresolved => run[d][b] \in Unresolved
          /\ run[d][b] = "none" => rn[d][b] = "none"
    <3>. HIDE DEF rn
    <3>. QED
      BY <2>2 DEF Unresolved, OnAgent
  <2>4. Commit(QueueScopes, status, rn, cleanup) /\ UNCHANGED recovered
    BY <1>5 DEF AgentPoll, MaintenanceTx
  <2>. HIDE DEF rn
  <2>. QED
    BY <1>0, <2>1, <2>3, <2>4, MaintenanceStep DEF TypeOK
<1>6. ASSUME NEW a \in Agent, NEW revoked \in BOOLEAN, DeleteAgent(a, revoked)
      PROVE  GoodStep
  <2>. DEFINE rn == IF revoked THEN run ELSE Revoked(a, run)
              st == IF revoked THEN status ELSE FailTerminal(status, rn)
              rn2 == [d \in Deployment |-> [rn[d] EXCEPT ![a] = "none"]]
  <2>1. PICK cl \in [Deployment -> CleanupMark] :
          Commit(QueueScopes, st, rn2, cl) /\ recovered' = recovered \ (Deployment \X {a})
    <3>. DEFINE cl == [d \in Deployment |->
                          IF Preserved(d, a, st, rn) THEN "preserved" ELSE cleanup[d]]
    <3>1. Commit(QueueScopes, st, rn2, cl) /\ recovered' = recovered \ (Deployment \X {a})
      BY <1>6 DEF DeleteAgent, MaintenanceTx
    <3>2. cl \in [Deployment -> CleanupMark]
      BY <1>0 DEF TypeOK, CleanupMark
    <3>. QED
      BY <3>1, <3>2
  <2>2. /\ rn \in [Deployment -> [Agent -> RunState]]
        /\ \A d \in Deployment, b \in Agent :
              /\ rn[d][b] \in Unresolved => run[d][b] \in Unresolved
              /\ run[d][b] = "none" => rn[d][b] = "none"
    BY <1>0, RevokedFacts DEF TypeOK
  <2>3. /\ st \in [Deployment -> Status]
        /\ \A d \in Deployment : st[d] = status[d] \/ (status[d] \notin Early /\ st[d] \in Terminal)
    <3>. HIDE DEF rn
    <3>. QED
      BY <1>0, FailTerminalFacts DEF TypeOK
  <2>. HIDE DEF rn, st
  <2>4. /\ rn2 \in [Deployment -> [Agent -> RunState]]
        /\ \A d \in Deployment, b \in Agent : rn2[d][b] = IF b = a THEN "none" ELSE rn[d][b]
    BY <2>2 DEF RunState
  <2>. HIDE DEF rn2
  <2>5. \A d \in Deployment, b \in Agent :
          /\ rn2[d][b] \in Unresolved => run[d][b] \in Unresolved
          /\ run[d][b] = "none" => rn2[d][b] = "none"
    BY <2>2, <2>4 DEF Unresolved, OnAgent
  <2>6. recovered' \in SUBSET (Deployment \X Agent)
    BY <1>0, <2>1 DEF TypeOK
  <2>. QED
    BY <2>1, <2>3, <2>4, <2>5, <2>6, MaintenanceStep
<1>7. ASSUME ConfirmContainerCleanup PROVE GoodStep
  <2>. DEFINE Confirmed(d) == /\ status[d] \in {"running", "publishing_artifact", "cleanup_unconfirmed"}
                              /\ cleanup[d] = "namespace"
              uncertain(d) == \E a \in Agent : run[d][a] \in Cleanup
              st == [d \in Deployment |-> IF Confirmed(d) /\ ~uncertain(d) THEN "failed" ELSE status[d]]
              cl == [d \in Deployment |-> IF Confirmed(d) THEN "none" ELSE cleanup[d]]
  <2>1. Commit(QueueScopes, st, run, cl) /\ UNCHANGED recovered
    BY <1>7 DEF ConfirmContainerCleanup, MaintenanceTx
  <2>. HIDE DEF uncertain
  <2>2. st \in [Deployment -> Status] /\ cl \in [Deployment -> CleanupMark]
    BY <1>0 DEF TypeOK, Status, Terminal, CleanupMark
  <2>3. \A d \in Deployment : st[d] = status[d] \/ (status[d] \notin Early /\ st[d] \in Terminal)
    BY DEF Early, Terminal
  <2>. HIDE DEF st, cl
  <2>. QED
    BY <1>0, <2>1, <2>2, <2>3, MaintenanceStep DEF TypeOK
<1>8. ASSUME RecoverPending PROVE GoodStep
  <2>. DEFINE orphan == {p \in Deployment \X Agent :
                             status[p[1]] = "running" /\ run[p[1]][p[2]] \in Active}
              rn == [d \in Deployment |-> [a \in Agent |->
                        IF <<d, a>> \in orphan THEN Cancelling(run[d][a]) ELSE run[d][a]]]
              inFlight(d) == status[d] \in {"running", "publishing_artifact"}
              onAgent(d) == \E a \in Agent : rn[d][a] \in OnAgent
              idle(d) == \A a \in Agent : rn[d][a] # "cancel_requested"
              Recover(d) == IF inFlight(d) /\ cleanup[d] = "namespace" /\ ~onAgent(d)
                            THEN "cleanup_unconfirmed"
                            ELSE IF inFlight(d) /\ idle(d) THEN "failed" ELSE status[d]
              st == [d \in Deployment |-> Recover(d)]
  <2>1. Commit(QueueScopes, st, rn, cleanup) /\ recovered' = recovered \cup orphan
    BY <1>8 DEF RecoverPending, MaintenanceTx
  <2>2. recovered' \in SUBSET (Deployment \X Agent)
    BY <1>0, <2>1 DEF TypeOK
  <2>. HIDE DEF orphan
  <2>3. \A d \in Deployment, a \in Agent :
          /\ rn[d][a] \in RunState
          /\ rn[d][a] \in Unresolved => run[d][a] \in Unresolved
          /\ run[d][a] = "none" => rn[d][a] = "none"
    BY <1>0 DEF TypeOK, Cancelling, RunState, Active, Unresolved, OnAgent
  <2>4. rn \in [Deployment -> [Agent -> RunState]]
    BY <2>3
  <2>. HIDE DEF rn, onAgent, idle
  <2>5. \A d \in Deployment : st[d] = status[d] \/ (status[d] \notin Early /\ st[d] \in Terminal)
    BY DEF Early, Terminal
  <2>6. st \in [Deployment -> Status]
    BY <1>0, <2>5 DEF TypeOK, Status
  <2>. HIDE DEF st
  <2>. QED
    <3>1. \A d \in Deployment, a \in Agent :
            /\ rn[d][a] \in Unresolved => run[d][a] \in Unresolved
            /\ run[d][a] = "none" => rn[d][a] = "none"
      BY <2>3
    <3>2. cleanup \in [Deployment -> CleanupMark]
      BY <1>0 DEF TypeOK
    <3>. QED
      BY <2>1, <2>2, <2>4, <2>5, <2>6, <3>1, <3>2, MaintenanceStep
<1>. QED
  BY <1>1, <1>2, <1>3, <1>4, <1>5, <1>6, <1>7, <1>8 DEF ServerStep

\* Every step keeps the invariant and moves the lock's clients as it may.
LEMMA NextStep == IInv /\ Next => GoodStep
<1>. SUFFICES ASSUME IInv, Next PROVE GoodStep
  OBVIOUS
<1>1. ASSUME NEW d \in Deployment, DeploymentStep(d) PROVE GoodStep
  BY <1>1, StatusSteps, PlainSteps, StartStep, RunSteps DEF DeploymentStep, RunStep
<1>. QED
  BY <1>1, ServerSteps DEF Next

LEMMA InitInv == Init => IInv
BY DEF Init, IInv, TypeOK, SlotOwned, Occupies, Status, Early, Executing, RunState,
       CleanupMark, Unresolved, OnAgent

LEMMA Invariance == Spec => []IInv
<1>1. IInv /\ UNCHANGED vars => IInv'
  BY DEF IInv, TypeOK, SlotOwned, Occupies, vars
<1>2. IInv /\ Next => IInv'
  BY NextStep DEF GoodStep
<1>. QED
  BY <1>1, <1>2, InitInv, PTL DEF Spec

\* The columns stay within their CHECK constraints, slot rows stay in their
\* scope, and a deployment gets no runs before its admission.
THEOREM TypeCorrect == Spec => []TypeOK
<1>1. IInv => TypeOK
  BY DEF IInv
<1>. QED
  BY <1>1, Invariance, PTL

\* A deployment that occupies its scope owns the scope's slot row, whatever
\* the callers, agents and recovery passes do.
THEOREM SlotExclusive == Spec => []SlotOwned
<1>1. IInv => SlotOwned
  BY DEF IInv
<1>. QED
  BY <1>1, Invariance, PTL

\* A finished deployment that has let go of its scope never occupies it again.
THEOREM ReleasedForGood == Spec => NeverReoccupies
<1>1. IInv /\ [Next]_vars =>
        [\A d \in Deployment :
            status[d] \in Terminal /\ ~Occupies(d) => ~Occupies(d)']_vars
  <2>. SUFFICES ASSUME IInv, Next, NEW d \in Deployment,
                       status[d] \in Terminal, ~Occupies(d)
                PROVE  ~Occupies(d)'
    OBVIOUS
  <2>1. LockMoves(status', run')
    BY NextStep DEF GoodStep
  <2>2. Occupies(d)' <=> OccupiesAt(d, status', run')
    BY DEF Occupies, OccupiesAt
  <2>. QED
    BY <2>1, <2>2 DEF LockMoves, Early, Terminal
<1>. QED
  BY <1>1, Invariance, PTL DEF Spec, NeverReoccupies

\* The tables implement the abstract lock: exclusive, handed over in creation
\* order, never taken back.
THEOREM Refinement == Spec => ImplementsLock
<1>1. Init => Lock!Init
  BY DEF Init, Lock!Init, Phase
<1>2. ASSUME IInv, IInv', Next PROVE Lock!Next
  <2>. DEFINE ph == [d \in Deployment |-> Phase(d)]
              ph2 == [d \in Deployment |-> Phase(d)']
              Occ2(d) == OccupiesAt(d, status', run')
  <2>1. LockMoves(status', run')
    BY <1>2, NextStep DEF GoodStep
  <2>2. \A d \in Deployment : Occupies(d)' <=> Occ2(d)
    BY DEF Occupies, OccupiesAt
  <2>3. \A d \in Deployment : ph[d] =
          IF status[d] = "none" THEN "absent"
          ELSE IF status[d] = "pending_approval" THEN "parked"
          ELSE IF status[d] = "queued" THEN "waiting"
          ELSE IF Occupies(d) THEN "holding" ELSE "released"
    BY DEF Phase
  <2>4. \A d \in Deployment : ph2[d] =
          IF status'[d] = "none" THEN "absent"
          ELSE IF status'[d] = "pending_approval" THEN "parked"
          ELSE IF status'[d] = "queued" THEN "waiting"
          ELSE IF Occ2(d) THEN "holding" ELSE "released"
    BY <2>2 DEF Phase
  <2>5. \A d \in Deployment : Occ2(d) => status'[d] \notin Early /\ slot'[ScopeOf[d]] = d
    <3>1. \A d \in Deployment : Occupies(d)' => slot'[ScopeOf[d]] = d
      BY <1>2 DEF IInv, SlotOwned
    <3>2. \A d \in Deployment : status'[d] \in Early => ~Occupies(d)'
      BY <1>2 DEF IInv, TypeOK, Occupies, Early, Executing, Unresolved, OnAgent
    <3>. QED
      BY <2>2, <3>1, <3>2
  <2>6. \A d \in Deployment : Occupies(d) => status[d] \notin Early
    BY <1>2, EarlyIdle
  <2>. HIDE DEF ph, ph2, Occ2
  <2>7. \A d \in Deployment : ph2[d] # ph[d] => <<ph[d], ph2[d]>> \in Lock!Move
    <3>. TAKE d \in Deployment
    <3>1. /\ ph2[d] = "absent" => ph[d] = "absent"
          /\ ph2[d] = "parked" => ph[d] \in {"absent", "parked"}
          /\ ph2[d] = "waiting" => ph[d] \in {"absent", "parked", "waiting"}
          /\ ph2[d] = "holding" => ph[d] \in {"absent", "parked", "waiting", "holding"}
          /\ ph2[d] = "released" => ph[d] # "absent"
      BY <2>1, <2>3, <2>4, <2>5, <2>6 DEF LockMoves, Occ2, Early
    <3>2. /\ ph2[d] \in {"absent", "parked", "waiting", "holding", "released"}
          /\ ph[d] \in {"absent", "parked", "waiting", "holding", "released"}
      BY <2>3, <2>4
    <3>. QED
      BY <3>1, <3>2 DEF Lock!Move
  <2>8. ASSUME NEW d \in Deployment, ph2[d] # ph[d], ph2[d] = "holding",
               NEW e \in Deployment, ScopeOf[e] = ScopeOf[d], e # d
        PROVE  ph2[e] # "holding" /\ (e < d => ph2[e] # "waiting")
    <3>1. Occ2(d) /\ status[d] \in Early
      BY <2>1, <2>3, <2>4, <2>8 DEF LockMoves, Occ2, Early
    <3>2. ph2[e] # "holding"
      BY <2>4, <2>5, <2>8, <3>1
    <3>3. e < d => status'[e] # "queued"
      BY <2>1, <2>8, <3>1 DEF LockMoves, Occ2
    <3>. QED
      BY <2>4, <3>2, <3>3
  <2>9. ph2 \in [Deployment -> Lock!Phase]
    BY <2>4 DEF ph2, Lock!Phase
  <2>. QED
    BY <2>7, <2>8, <2>9 DEF Lock!Next, Lock!Acquires, Lock!Rivals, ph, ph2
<1>3. UNCHANGED vars => UNCHANGED [d \in Deployment |-> Phase(d)]
  BY DEF vars, Phase, Occupies
<1>4. IInv /\ IInv' /\ [Next]_vars => [Lock!Next]_[d \in Deployment |-> Phase(d)]
  BY <1>2, <1>3
<1>. QED
  BY <1>1, <1>4, Invariance, PTL DEF Spec, ImplementsLock, Lock!Spec

-----------------------------------------------------------------------------
Begun == {"started", "cancel_requested", "lost", "cancel_unconfirmed"}
Dispatchable == {"waiting", "claimed"}

LEMMA NotReplayed ==
    ASSUME IInv, Next, NEW d \in Deployment, NEW a \in Agent, run[d][a] \in Begun
    PROVE  run'[d][a] \notin Dispatchable
<1>. USE DEF Begun, Dispatchable
<1>0. run \in [Deployment -> [Agent -> RunState]]
  BY DEF IInv, TypeOK
<1>1. ASSUME run' = run PROVE run'[d][a] \notin Dispatchable
  BY <1>1
<1>2. ASSUME NEW x \in Deployment, DeploymentStep(x) PROVE run'[d][a] \notin Dispatchable
  <2>1. ASSUME NEW As \in SUBSET Agent, QueueRuns(x, As) PROVE run'[d][a] \notin Dispatchable
    <3>1. x # d
      BY <2>1 DEF QueueRuns
    <3>. QED
      BY <1>0, <2>1, <3>1 DEF QueueRuns, DeploymentTx, Commit
  <2>2. ASSUME RequestCancel(x) PROVE run'[d][a] \notin Dispatchable
    BY <1>0, <2>2 DEF RequestCancel, Cancelling
  <2>3. ASSUME NEW b \in Agent, Claim(x, b) PROVE run'[d][a] \notin Dispatchable
    <3>1. ~(x = d /\ b = a)
      BY <2>3 DEF Claim
    <3>. QED
      BY <1>0, <2>3, <3>1 DEF Claim, DeploymentTx, Commit, SetRun
  <2>4. ASSUME NEW b \in Agent, FailInvalid(x, b) PROVE run'[d][a] \notin Dispatchable
    BY <1>0, <2>4 DEF FailInvalid, DeploymentTx, Commit
  <2>5. ASSUME NEW b \in Agent, StartRun(x, b) PROVE run'[d][a] \notin Dispatchable
    BY <1>0, <2>5 DEF StartRun, SetRun
  <2>6. ASSUME NEW b \in Agent, NEW result \in RunState, FinishRun(x, b, result)
        PROVE  run'[d][a] \notin Dispatchable
    BY <1>0, <2>6 DEF FinishRun, DeploymentTx, Commit, SetRun
  <2>7. ASSUME NEW b \in Agent, AckCancel(x, b) PROVE run'[d][a] \notin Dispatchable
    BY <1>0, <2>7 DEF AckCancel, DeploymentTx, Commit, SetRun
  <2>. QED
    BY <1>1, <1>2, <2>1, <2>2, <2>3, <2>4, <2>5, <2>6, <2>7
       DEF DeploymentStep, RunStep, Create, Approve, CancelQueued, StartLocal, RecordNamespace,
           GateStep, Complete, DeploymentTx, Commit
<1>3. ASSUME ServerStep PROVE run'[d][a] \notin Dispatchable
  <2>1. ASSUME NEW due \in SUBSET (Deployment \X Agent), Maintain(due)
        PROVE  run'[d][a] \notin Dispatchable
    BY <2>1 DEF Maintain, MaintenanceTx, Commit, Overdue
  <2>2. ASSUME NEW b \in Agent, RevokeAgent(b) PROVE run'[d][a] \notin Dispatchable
    BY <1>0, <2>2 DEF RevokeAgent, Revoked, MaintenanceTx, Commit
  <2>3. ASSUME NEW b \in Agent, NEW ready \in BOOLEAN, NEW failed \in SUBSET Deployment,
               AgentPoll(b, ready, failed)
        PROVE  run'[d][a] \notin Dispatchable
    BY <1>0, <2>3 DEF AgentPoll, MaintenanceTx, Commit
  <2>4. ASSUME NEW b \in Agent, NEW revoked \in BOOLEAN, DeleteAgent(b, revoked)
        PROVE  run'[d][a] \notin Dispatchable
    <3>. DEFINE rn == IF revoked THEN run ELSE Revoked(b, run)
    <3>1. run'[d] = [rn[d] EXCEPT ![b] = "none"]
      BY <2>4 DEF DeleteAgent, MaintenanceTx, Commit
    <3>2. rn[d] \in [Agent -> RunState] /\ rn[d][a] \notin Dispatchable
      BY <1>0 DEF Revoked, RunState, OnAgent
    <3>. QED
      BY <3>1, <3>2
  <2>5. ASSUME RecoverPending PROVE run'[d][a] \notin Dispatchable
    BY <2>5 DEF RecoverPending, MaintenanceTx, Commit, Cancelling
  <2>. QED
    BY <1>1, <1>3, <2>1, <2>2, <2>3, <2>4, <2>5
       DEF ServerStep, Reconcile, ExpireGates, ConfirmContainerCleanup, MaintenanceTx, Commit
<1>. QED
  BY <1>2, <1>3 DEF Next

\* Work an agent started is never dispatched again, by no expiry, recovery,
\* maintenance pass or later step of its deployment.
THEOREM NeverReplayed == Spec => StartedNeverReplayed
<1>1. IInv /\ [Next]_vars =>
        [\A d \in Deployment, a \in Agent :
            run[d][a] \in {"started", "cancel_requested", "lost", "cancel_unconfirmed"}
                => run'[d][a] \notin {"waiting", "claimed"}]_vars
  BY NotReplayed DEF Begun, Dispatchable
<1>. QED
  BY <1>1, Invariance, PTL DEF Spec, StartedNeverReplayed

\* DeleteAgent keeps what a deployment in cleanup_unconfirmed owes: its rows
\* go, and what they said of the cleanup stays with the deployment.
LEMMA DeletionKeeps ==
    ASSUME IInv, NEW a \in Agent, NEW revoked \in BOOLEAN, DeleteAgent(a, revoked),
           NEW d \in Deployment, status[d] = "cleanup_unconfirmed"
    PROVE  Blocks(d, status, run, cleanup) <=> Blocks(d, status', run', cleanup')
<1>. DEFINE rn == IF revoked THEN run ELSE Revoked(a, run)
            st == IF revoked THEN status ELSE FailTerminal(status, rn)
<1>0. run \in [Deployment -> [Agent -> RunState]]
  BY DEF IInv, TypeOK
<1>1. st[d] = "cleanup_unconfirmed"
  BY DEF FailTerminal
<1>2. status'[d] = "cleanup_unconfirmed"
  BY <1>1 DEF DeleteAgent, MaintenanceTx, Commit, AdvanceStatus, Oldest, QueuedIn
<1>3. /\ run[d][a] \notin Unresolved /\ ~Referenced(d, a, st, rn)
      /\ run'[d] = [rn[d] EXCEPT ![a] = "none"]
      /\ cleanup'[d] = IF Preserved(d, a, st, rn) THEN "preserved" ELSE cleanup[d]
  BY DEF DeleteAgent, MaintenanceTx, Commit
<1>4. /\ \A b \in Agent : b # a => rn[d][b] = run[d][b]
      /\ rn[d] \in [Agent -> RunState]
      /\ rn[d][a] \in Cleanup <=> run[d][a] \in Cleanup
      /\ rn[d][a] = "cleanup_confirmed" <=> run[d][a] = "cleanup_confirmed"
      /\ rn[d][a] \notin Unresolved
      /\ rn[d][a] = "none" <=> run[d][a] = "none"
  BY <1>0, <1>3 DEF Revoked, RunState, OnAgent, Unresolved, Cleanup, Active
<1>. HIDE DEF rn, st
<1>5. /\ \A b \in Agent : b # a => run'[d][b] = run[d][b]
      /\ run'[d][a] = "none"
  BY <1>3, <1>4
<1>6. (\E b \in Agent : run[d][b] \in Unresolved) <=> (\E b \in Agent : run'[d][b] \in Unresolved)
  BY <1>3, <1>5 DEF Unresolved, OnAgent
<1>7. \/ run[d][a] = "none"
      \/ cleanup[d] = "preserved"
      \/ cleanup[d] = "none" /\ \E b \in Agent : rn[d][b] = "cleanup_confirmed"
  BY <1>1, <1>3, <1>4 DEF Referenced, Terminal, IInv, TypeOK, CleanupMark
<1>. QED
  BY <1>1, <1>2, <1>3, <1>4, <1>5, <1>6, <1>7
     DEF Blocks, Executing, Cleanup, Preserved, Unresolved, Referenced

\* Removing the registration of an agent neither settles nor revives what a
\* deployment owes (PreserveAgentDeploymentCleanup).
THEOREM CleanupOutlivesAgent == Spec => DeletionKeepsCleanup
<1>1. IInv /\ [Next]_vars =>
        [\A a \in Agent, revoked \in BOOLEAN : DeleteAgent(a, revoked) =>
            \A d \in Deployment : status[d] = "cleanup_unconfirmed" =>
                (Blocks(d, status, run, cleanup) <=>
                     Blocks(d, status', run', cleanup'))]_vars
  BY DeletionKeeps
<1>. QED
  BY <1>1, Invariance, PTL DEF Spec, DeletionKeepsCleanup

=============================================================================
