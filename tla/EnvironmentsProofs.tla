------------------------- MODULE EnvironmentsProofs -------------------------
(***************************************************************************)
(* The check of an environment and the checks of its deployments, for any  *)
(* number of requests, API updates, deployments and restarts.              *)
(*                                                                         *)
(* SucceededIsVerified is about a deployment that has ended; what makes it *)
(* so happened in the goroutine before.  Inv adds what that goroutine      *)
(* knows: while it checks, the deployment is running and so is its row,    *)
(* which therefore no sweep, deletion or lost agent can close; and when it *)
(* is about to complete with success, the row has been closed as passed or *)
(* there is none.                                                          *)
(***************************************************************************)
EXTENDS Environments, TLAPS

Errors == {"none", "failed", "cancelled", "cleanup"}
Statuses == {"pending", "running", "succeeded", "failed", "cancelled"}

Coherent(c) ==
    /\ c.kind = "http" => c.target = "url"
    /\ c.kind = "bash" => c.target # "blank"
    /\ c.kind = "none" => c.target = "blank"

Edits == [pc : {"none", "done"}]
         \cup [pc : {"read"}, given : SUBSET Fields, check : Settings]
Checks == {NoCheck} \cup [status : Statuses, settings : Settings]
Runs == [pc : {"none", "steps", "check"}]
        \cup [pc : {"close"}, error : Errors]
        \cup [pc : {"complete"}, status : Ended, wins : BOOLEAN]

Typed ==
    /\ place \in {"new", "here", "gone"}
    /\ setting \in Settings
    /\ edit \in [Edit -> Edits]
    /\ deployment \in [Deployment -> {"none", "deleted"} \cup Active \cup Ended]
    /\ check \in [Deployment -> Checks]
    /\ run \in [Deployment -> Runs]
    /\ cancelled \subseteq Deployment /\ passed \subseteq Deployment
    /\ restarts \in Nat

\* What an update will write is coherent, and so is what is written.
EditsCoherent ==
    /\ Coherent(setting)
    /\ \A e \in Edit : edit[e].pc = "read" => Coherent(edit[e].check)

\* A goroutine belongs to a deployment that was launched.
Launched ==
    \A d \in Deployment : run[d].pc # "none" => deployment[d] \notin {"none", "waiting"}

\* While it checks, the deployment and the row are running.
Checking ==
    \A d \in Deployment : run[d].pc \in {"check", "close"} =>
        /\ deployment[d] = "running" /\ check[d].status = "running"
        /\ run[d].pc = "close" /\ run[d].error = "none" => d \in passed

Verified(d) == check[d] = NoCheck \/ (check[d].status = "succeeded" /\ d \in passed)

\* It completes with success only what is verified.
Completing ==
    \A d \in Deployment : run[d].pc = "complete" /\ run[d].status = "succeeded" => Verified(d)

Inv == Typed /\ EditsCoherent /\ Launched /\ Checking /\ Completing /\ SucceededIsVerified

-----------------------------------------------------------------------------
\* The merge of a partial request is again a whole check, except for a
\* timeout out of range, which Valid refuses.
LEMMA MergeTyped ==
    ASSUME NEW q \in Requests, NEW c \in Settings, Valid(Merge(q, c))
    PROVE  Parse(Merge(q, c)) \in Settings /\ Coherent(Parse(Merge(q, c)))
<1>1. /\ Merge(q, c).kind \in Kinds /\ Merge(q, c).target \in Targets
      /\ Merge(q, c).timeout \in Timeouts
  BY DEF Merge, Or, Requests, Settings, Valid, Kinds, Targets, Timeouts
<1>2. Merge(q, c) \in Settings
  BY <1>1 DEF Merge, Settings
<1>. QED
  BY <1>2 DEF Parse, Coherent, Valid, Settings, Kinds, Targets

\* A sweep changes the open rows of ended deployments only.
LEMMA Sweep ==
    ASSUME check \in [Deployment -> Checks], NEW dep,
           check' = Reconciled(check, dep)
    PROVE  /\ check' \in [Deployment -> Checks]
           /\ \A d \in Deployment : check'[d] = check[d] \/ (dep[d] \in Ended /\ Open(check[d]))
           /\ \A d \in Deployment : (check'[d] = NoCheck) <=> (check[d] = NoCheck)
<1>1. ASSUME NEW d \in Deployment
      PROVE  /\ check'[d] \in Checks
             /\ check'[d] = check[d] \/ (dep[d] \in Ended /\ Open(check[d]))
             /\ (check'[d] = NoCheck) <=> (check[d] = NoCheck)
  <2>1. CASE Open(check[d]) /\ dep[d] \in Ended
    <3>1. check[d] \in [status : Statuses, settings : Settings]
      BY <2>1 DEF Open, Checks, NoCheck
    <3>2. check'[d] = [check[d] EXCEPT !.status = Closing(dep[d])]
      BY <2>1 DEF Reconciled
    <3>3. Closing(dep[d]) \in Statuses
      BY DEF Closing, Statuses
    <3>4. check'[d] \in [status : Statuses, settings : Settings]
      BY <3>1, <3>2, <3>3
    <3>. QED
      BY <2>1, <3>1, <3>4 DEF Checks, NoCheck, Statuses
  <2>2. CASE ~(Open(check[d]) /\ dep[d] \in Ended)
    BY <2>2 DEF Reconciled
  <2>. QED
    BY <2>1, <2>2
<1>. QED
  BY <1>1 DEF Reconciled

\* Closing a row touches no other, and no row that is closed.
LEMMA Closes ==
    ASSUME check \in [Deployment -> Checks], NEW d \in Deployment, NEW s \in Statuses,
           FinishDeploymentVerification(d, s)
    PROVE  /\ check' \in [Deployment -> Checks]
           /\ \A x \in Deployment : x # d => check'[x] = check[x]
           /\ check[d] = NoCheck => check'[d] = NoCheck
           /\ check[d].status = "running" => check'[d].status = s /\ check'[d] # NoCheck
           /\ ~Open(check[d]) => check'[d] = check[d]
BY DEF FinishDeploymentVerification, Checks, NoCheck, Statuses, Open

\* The goroutine goes on to its completion, with one status.
LEMMA Completes ==
    ASSUME run \in [Deployment -> Runs], NEW d \in Deployment, NEW s \in Ended,
           NEW wins \in BOOLEAN, ToComplete(d, s, wins)
    PROVE  /\ run' \in [Deployment -> Runs]
           /\ run'[d].pc = "complete" /\ run'[d].status = s
           /\ \A x \in Deployment : x # d => run'[x] = run[x]
BY DEF ToComplete, Runs

\* After a check it completes with success only without an error.
LEMMA AfterCheck ==
    ASSUME run \in [Deployment -> Runs], NEW d \in Deployment, NEW error \in Errors,
           AfterVerification(d, error)
    PROVE  /\ run' \in [Deployment -> Runs]
           /\ run'[d].pc = "complete" /\ (run'[d].status = "succeeded" => error = "none")
           /\ \A x \in Deployment : x # d => run'[x] = run[x]
<1>1. CASE error = "none"
  BY <1>1, Completes DEF AfterVerification, Ended
<1>2. CASE error = "cleanup"
  BY <1>2, Completes DEF AfterVerification, Ended
<1>3. CASE error = "cancelled"
  BY <1>3, Completes DEF AfterVerification, Ended
<1>4. CASE error = "failed"
  BY <1>4, Completes DEF AfterVerification, Ended
<1>. QED
  BY <1>1, <1>2, <1>3, <1>4 DEF Errors

\* What closing a check does: the row, and where the goroutine goes.
LEMMA Finishes ==
    ASSUME Typed, NEW d \in Deployment, NEW saved \in BOOLEAN, finishVerification(d, saved)
    PROVE  /\ check' \in [Deployment -> Checks] /\ run' \in [Deployment -> Runs]
           /\ \A x \in Deployment : x # d => check'[x] = check[x] /\ run'[x] = run[x]
           /\ run[d].pc = "close" /\ run'[d].pc = "complete"
           /\ run'[d].status = "succeeded" => saved /\ run[d].error = "none"
           /\ ~Open(check[d]) => check'[d] = check[d]
           /\ saved /\ run[d].error = "none" /\ check[d].status = "running" =>
                 check'[d].status = "succeeded"
<1>. DEFINE error == run[d].error
<1>1. run[d].pc = "close" /\ error \in Errors
  BY DEF finishVerification, Typed, Runs
<1>2. /\ run' \in [Deployment -> Runs] /\ run'[d].pc = "complete"
      /\ run'[d].status = "succeeded" => saved /\ error = "none"
      /\ \A x \in Deployment : x # d => run'[x] = run[x]
  <2>1. CASE error = "none" /\ ~saved
    BY <2>1, AfterCheck DEF finishVerification, Typed, Errors
  <2>2. CASE ~(error = "none" /\ ~saved)
    BY <1>1, <2>2, AfterCheck DEF finishVerification, Typed
  <2>. QED
    BY <2>1, <2>2
<1>3. VerificationStatus(error) \in Statuses /\ (error = "none" => VerificationStatus(error) = "succeeded")
  BY DEF VerificationStatus, Statuses
<1>4. /\ check' \in [Deployment -> Checks]
      /\ \A x \in Deployment : x # d => check'[x] = check[x]
      /\ ~Open(check[d]) => check'[d] = check[d]
      /\ saved /\ error = "none" /\ check[d].status = "running" => check'[d].status = "succeeded"
  <2>1. CASE saved
    BY <1>3, <2>1, Closes DEF finishVerification, Typed
  <2>2. CASE ~saved
    BY <2>2 DEF finishVerification, Typed
  <2>. QED
    BY <2>1, <2>2
<1>. QED
  BY <1>1, <1>2, <1>4

\* The check begins, or the goroutine goes on to its completion.
LEMMA Begins ==
    ASSUME Typed, NEW d \in Deployment, BeginVerification(d)
    PROVE  /\ check' \in [Deployment -> Checks] /\ run' \in [Deployment -> Runs]
           /\ \A x \in Deployment : x # d => check'[x] = check[x] /\ run'[x] = run[x]
           /\ run[d].pc = "steps" /\ deployment[d] = "running"
           /\ \/ run'[d].pc = "complete" /\ run'[d].status = "cancelled"
              \/ run'[d].pc = "complete" /\ check'[d] = NoCheck
              \/ run'[d].pc = "check" /\ check'[d].status = "running"
<1>1. CASE d \in cancelled
  BY <1>1, Completes DEF BeginVerification, Ended, Typed
<1>2. CASE d \notin cancelled /\ check[d] = NoCheck
  BY <1>2, Completes DEF BeginVerification, Ended, Typed
<1>3. CASE d \notin cancelled /\ check[d] # NoCheck
  BY <1>3 DEF BeginVerification, Typed, Checks, Statuses, Runs
<1>. QED
  BY <1>1, <1>2, <1>3

LEMMA EmptyTyped == Empty \in Settings /\ Coherent(Empty)
BY DEF Empty, Settings, Kinds, Targets, Timeouts, Coherent

LEMMA TypedStep == ASSUME EnvironmentAssumption, Typed, Next PROVE Typed'
<1>. USE DEF Typed, environment, work, EnvironmentAssumption
<1>1. ASSUME NEW q \in Request, NEW admin \in BOOLEAN, CreateEnvironment(admin, q)
      PROVE  Typed'
  BY <1>1, MergeTyped, EmptyTyped
     DEF CreateEnvironment, Empty
<1>2. ASSUME NEW q \in Request, UpdateEnvironmentPage(q)
      PROVE  Typed'
  BY <1>2, MergeTyped, EmptyTyped
     DEF UpdateEnvironmentPage, Empty
<1>3. ASSUME NEW e \in Edit, NEW q \in Request, NEW admin \in BOOLEAN,
             UpdateEnvironment(e, admin, q)
      PROVE  Typed'
  BY <1>3, MergeTyped
     DEF UpdateEnvironment, Given, Edits
<1>4. ASSUME NEW e \in Edit, SaveEnvironment(e)
      PROVE  Typed'
  BY <1>4
     DEF SaveEnvironment, Edits, WriteSettings
<1>5. ASSUME DeleteEnvironment
      PROVE  Typed'
  BY <1>5
     DEF DeleteEnvironment, Checks, Runs
<1>6. ASSUME NEW d \in Deployment, NEW steps \in BOOLEAN, CreateDeployment(d, steps)
      PROVE  Typed'
  BY <1>6
     DEF CreateDeployment, Checks, NoCheck, Statuses, Runs, Active
<1>7. ASSUME NEW d \in Deployment, Launch(d)
      PROVE  Typed'
  BY <1>7
     DEF Launch, Runs, Active
<1>8. ASSUME NEW d \in Deployment, CancelQueuedDeployment(d)
      PROVE  Typed'
  BY <1>8, Closes
     DEF CancelQueuedDeployment, Statuses, Runs, Ended, Active
<1>9. ASSUME NEW d \in Deployment, CancelRun(d)
      PROVE  Typed'
  BY <1>9
     DEF CancelRun, Runs
<1>10. ASSUME NEW d \in Deployment, NEW s \in {"failed", "cleanup_unconfirmed"},
             LoseRemoteStep(d, s)
      PROVE  Typed'
  BY <1>10, Sweep
     DEF LoseRemoteStep, Runs, Ended
<1>11. ASSUME NEW d \in Deployment, FailInvalidRemoteSteps(d)
      PROVE  Typed'
  BY <1>11
     DEF FailInvalidRemoteSteps, Runs, Ended
<1>12. ASSUME NEW d \in Deployment, StepsFail(d)
      PROVE  Typed'
  BY <1>12, Completes DEF StepsFail, Ended
<1>13. ASSUME NEW d \in Deployment, BeginVerification(d)
      PROVE  Typed'
  BY <1>13, Begins DEF BeginVerification
<1>14. ASSUME NEW d \in Deployment, VerificationUnstarted(d)
      PROVE  Typed'
  BY <1>14
     DEF VerificationUnstarted, ToComplete, Ended, Runs
<1>15. ASSUME NEW d \in Deployment, NEW error \in Errors, RunCheck(d, error)
      PROVE  Typed'
  BY <1>15
     DEF RunCheck, Runs
<1>16. ASSUME NEW d \in Deployment, NEW ok \in BOOLEAN, finishVerification(d, ok)
      PROVE  Typed'
  BY <1>16, Finishes DEF finishVerification
<1>17. ASSUME NEW d \in Deployment, NEW ok \in BOOLEAN, completeDeployment(d, ok)
      PROVE  Typed'
  BY <1>17, Closes
     DEF completeDeployment, Closing, NoRun, Statuses, Ended, Runs
<1>18. ASSUME NEW d \in Deployment, CompletionLost(d)
      PROVE  Typed'
  BY <1>18
     DEF CompletionLost, NoRun, Runs
<1>19. ASSUME ReconcileTerminalVerifications
      PROVE  Typed'
  BY <1>19, Sweep
     DEF ReconcileTerminalVerifications, Runs
<1>20. ASSUME NEW left \in SUBSET Deployment, Restart(left)
      PROVE  Typed'
  BY <1>20, Sweep
     DEF Restart, Edits, Runs, NoRun, Ended, Active
<1>. QED
  BY <1>1, <1>2, <1>3, <1>4, <1>5, <1>6, <1>7, <1>8, <1>9, <1>10, <1>11, <1>12, <1>13, <1>14, <1>15, <1>16, <1>17, <1>18, <1>19, <1>20
     DEF Next, Configure, Deploy, Errors

LEMMA Step == ASSUME EnvironmentAssumption, Inv, Next PROVE Inv'
<1>. USE DEF Inv, environment, work
<1>0. Typed'
  BY TypedStep
<1>1. ASSUME NEW q \in Request, NEW admin \in BOOLEAN, CreateEnvironment(admin, q)
      PROVE  Inv'
  <2>1. EditsCoherent'
    BY <1>1, <1>0, MergeTyped, EmptyTyped DEF CreateEnvironment, Empty, Typed, EditsCoherent, EnvironmentAssumption
  <2>2. Launched'
    BY <1>1, <1>0, MergeTyped, EmptyTyped DEF CreateEnvironment, Empty, Typed, Launched, EnvironmentAssumption
  <2>3. Checking'
    BY <1>1, <1>0, MergeTyped, EmptyTyped DEF CreateEnvironment, Empty, Typed, Checking, EnvironmentAssumption
  <2>4. Completing'
    BY <1>1, <1>0, MergeTyped, EmptyTyped DEF CreateEnvironment, Empty, Typed, Completing, Verified, EnvironmentAssumption
  <2>5. SucceededIsVerified'
    BY <1>1, <1>0, MergeTyped, EmptyTyped DEF CreateEnvironment, Empty, Typed, SucceededIsVerified, EnvironmentAssumption
  <2>. QED
    BY <1>0, <2>1, <2>2, <2>3, <2>4, <2>5
<1>2. ASSUME NEW q \in Request, UpdateEnvironmentPage(q)
      PROVE  Inv'
  <2>1. EditsCoherent'
    BY <1>2, <1>0, MergeTyped, EmptyTyped DEF UpdateEnvironmentPage, Empty, Typed, EditsCoherent, EnvironmentAssumption
  <2>2. Launched'
    BY <1>2, <1>0, MergeTyped, EmptyTyped DEF UpdateEnvironmentPage, Empty, Typed, Launched, EnvironmentAssumption
  <2>3. Checking'
    BY <1>2, <1>0, MergeTyped, EmptyTyped DEF UpdateEnvironmentPage, Empty, Typed, Checking, EnvironmentAssumption
  <2>4. Completing'
    BY <1>2, <1>0, MergeTyped, EmptyTyped DEF UpdateEnvironmentPage, Empty, Typed, Completing, Verified, EnvironmentAssumption
  <2>5. SucceededIsVerified'
    BY <1>2, <1>0, MergeTyped, EmptyTyped DEF UpdateEnvironmentPage, Empty, Typed, SucceededIsVerified, EnvironmentAssumption
  <2>. QED
    BY <1>0, <2>1, <2>2, <2>3, <2>4, <2>5
<1>3. ASSUME NEW e \in Edit, NEW q \in Request, NEW admin \in BOOLEAN,
             UpdateEnvironment(e, admin, q)
      PROVE  Inv'
  <2>1. EditsCoherent'
    BY <1>3, <1>0, MergeTyped DEF UpdateEnvironment, Given, Typed, EditsCoherent, EnvironmentAssumption
  <2>2. Launched'
    BY <1>3, <1>0, MergeTyped DEF UpdateEnvironment, Given, Typed, Launched, EnvironmentAssumption
  <2>3. Checking'
    BY <1>3, <1>0, MergeTyped DEF UpdateEnvironment, Given, Typed, Checking, EnvironmentAssumption
  <2>4. Completing'
    BY <1>3, <1>0, MergeTyped DEF UpdateEnvironment, Given, Typed, Completing, Verified, EnvironmentAssumption
  <2>5. SucceededIsVerified'
    BY <1>3, <1>0, MergeTyped DEF UpdateEnvironment, Given, Typed, SucceededIsVerified, EnvironmentAssumption
  <2>. QED
    BY <1>0, <2>1, <2>2, <2>3, <2>4, <2>5
<1>4. ASSUME NEW e \in Edit, SaveEnvironment(e)
      PROVE  Inv'
  <2>1. EditsCoherent'
    BY <1>4, <1>0 DEF SaveEnvironment, WriteSettings, Typed, EditsCoherent
  <2>2. Launched'
    BY <1>4, <1>0 DEF SaveEnvironment, WriteSettings, Typed, Launched
  <2>3. Checking'
    BY <1>4, <1>0 DEF SaveEnvironment, WriteSettings, Typed, Checking
  <2>4. Completing'
    BY <1>4, <1>0 DEF SaveEnvironment, WriteSettings, Typed, Completing, Verified
  <2>5. SucceededIsVerified'
    BY <1>4, <1>0 DEF SaveEnvironment, WriteSettings, Typed, SucceededIsVerified
  <2>. QED
    BY <1>0, <2>1, <2>2, <2>3, <2>4, <2>5
<1>5. ASSUME DeleteEnvironment
      PROVE  Inv'
  <2>1. EditsCoherent'
    BY <1>5, <1>0 DEF DeleteEnvironment, Typed, EditsCoherent
  <2>2. Launched'
    BY <1>5, <1>0 DEF DeleteEnvironment, Typed, Launched, Active
  <2>3. Checking'
    BY <1>5, <1>0 DEF DeleteEnvironment, Typed, Checking, Active
  <2>4. Completing'
    BY <1>5, <1>0 DEF DeleteEnvironment, Typed, Completing, Verified
  <2>5. SucceededIsVerified'
    BY <1>5, <1>0 DEF DeleteEnvironment, Typed, SucceededIsVerified
  <2>. QED
    BY <1>0, <2>1, <2>2, <2>3, <2>4, <2>5
<1>6. ASSUME NEW d \in Deployment, NEW steps \in BOOLEAN, CreateDeployment(d, steps)
      PROVE  Inv'
  <2>1. EditsCoherent'
    BY <1>6, <1>0 DEF CreateDeployment, Typed, EditsCoherent
  <2>2. Launched'
    BY <1>6, <1>0 DEF CreateDeployment, Typed, Launched, Active
  <2>3. Checking'
    BY <1>6, <1>0 DEF CreateDeployment, Typed, Checking, Launched
  <2>4. Completing'
    BY <1>6, <1>0 DEF CreateDeployment, Typed, Completing, Verified, Launched, Active
  <2>5. SucceededIsVerified'
    BY <1>6, <1>0 DEF CreateDeployment, Typed, SucceededIsVerified
  <2>. QED
    BY <1>0, <2>1, <2>2, <2>3, <2>4, <2>5
<1>7. ASSUME NEW d \in Deployment, Launch(d)
      PROVE  Inv'
  <2>1. EditsCoherent'
    BY <1>7, <1>0 DEF Launch, Typed, EditsCoherent
  <2>2. Launched'
    BY <1>7, <1>0 DEF Launch, Typed, Launched
  <2>3. Checking'
    BY <1>7, <1>0 DEF Launch, Typed, Checking
  <2>4. Completing'
    BY <1>7, <1>0 DEF Launch, Typed, Completing, Verified
  <2>5. SucceededIsVerified'
    BY <1>7, <1>0 DEF Launch, Typed, SucceededIsVerified
  <2>. QED
    BY <1>0, <2>1, <2>2, <2>3, <2>4, <2>5
<1>8. ASSUME NEW d \in Deployment, CancelQueuedDeployment(d)
      PROVE  Inv'
  <2>1. EditsCoherent'
    BY <1>8, <1>0, Closes DEF CancelQueuedDeployment, Statuses, Typed, EditsCoherent, Open
  <2>2. Launched'
    BY <1>8, <1>0, Closes DEF CancelQueuedDeployment, Statuses, Typed, Launched, Open
  <2>3. Checking'
    BY <1>8, <1>0, Closes DEF CancelQueuedDeployment, Statuses, Typed, Checking, Open
  <2>4. Completing'
    BY <1>8, <1>0, Closes DEF CancelQueuedDeployment, Statuses, Typed, Completing, Verified, Open
  <2>5. SucceededIsVerified'
    BY <1>8, <1>0, Closes DEF CancelQueuedDeployment, Statuses, Typed, SucceededIsVerified, Open
  <2>. QED
    BY <1>0, <2>1, <2>2, <2>3, <2>4, <2>5
<1>9. ASSUME NEW d \in Deployment, CancelRun(d)
      PROVE  Inv'
  <2>1. EditsCoherent'
    BY <1>9, <1>0 DEF CancelRun, Typed, EditsCoherent
  <2>2. Launched'
    BY <1>9, <1>0 DEF CancelRun, Typed, Launched
  <2>3. Checking'
    BY <1>9, <1>0 DEF CancelRun, Typed, Checking
  <2>4. Completing'
    BY <1>9, <1>0 DEF CancelRun, Typed, Completing, Verified
  <2>5. SucceededIsVerified'
    BY <1>9, <1>0 DEF CancelRun, Typed, SucceededIsVerified
  <2>. QED
    BY <1>0, <2>1, <2>2, <2>3, <2>4, <2>5
<1>10. ASSUME NEW d \in Deployment, NEW s \in {"failed", "cleanup_unconfirmed"},
             LoseRemoteStep(d, s)
      PROVE  Inv'
  <2>0. /\ run[d].pc = "steps" /\ run' = run /\ passed' = passed
        /\ \A x \in Deployment : x # d => deployment'[x] = deployment[x]
        /\ \A x \in Deployment : check'[x] = check[x] \/ deployment'[x] \in Ended
    BY <1>10, Sweep DEF LoseRemoteStep, Typed
  <2>1. EditsCoherent'
    BY <1>10, Sweep, <1>0 DEF LoseRemoteStep, Typed, Open, EditsCoherent
  <2>2. Launched'
    BY <1>10, Sweep, <1>0 DEF LoseRemoteStep, Typed, Open, Launched
  <2>3. Checking'
    BY <2>0 DEF Checking, Ended
  <2>4. Completing'
    BY <1>10, Sweep, <1>0 DEF LoseRemoteStep, Typed, Open, Completing, Verified
  <2>5. SucceededIsVerified'
    BY <1>10, Sweep, <1>0 DEF LoseRemoteStep, Typed, Open, SucceededIsVerified
  <2>. QED
    BY <1>0, <2>1, <2>2, <2>3, <2>4, <2>5
<1>11. ASSUME NEW d \in Deployment, FailInvalidRemoteSteps(d)
      PROVE  Inv'
  <2>1. EditsCoherent'
    BY <1>11, <1>0 DEF FailInvalidRemoteSteps, Typed, EditsCoherent
  <2>2. Launched'
    BY <1>11, <1>0 DEF FailInvalidRemoteSteps, Typed, Launched
  <2>3. Checking'
    BY <1>11, <1>0 DEF FailInvalidRemoteSteps, Typed, Checking
  <2>4. Completing'
    BY <1>11, <1>0 DEF FailInvalidRemoteSteps, Typed, Completing, Verified
  <2>5. SucceededIsVerified'
    BY <1>11, <1>0 DEF FailInvalidRemoteSteps, Typed, SucceededIsVerified
  <2>. QED
    BY <1>0, <2>1, <2>2, <2>3, <2>4, <2>5
<1>12. ASSUME NEW d \in Deployment, StepsFail(d)
      PROVE  Inv'
  <2>1. EditsCoherent'
    BY <1>12, <1>0 DEF StepsFail, ToComplete, Ended, Typed, EditsCoherent
  <2>2. Launched'
    BY <1>12, <1>0 DEF StepsFail, ToComplete, Ended, Typed, Launched
  <2>3. Checking'
    BY <1>12, <1>0 DEF StepsFail, ToComplete, Ended, Typed, Checking
  <2>4. Completing'
    BY <1>12, <1>0 DEF StepsFail, ToComplete, Ended, Typed, Completing, Verified
  <2>5. SucceededIsVerified'
    BY <1>12, <1>0 DEF StepsFail, ToComplete, Ended, Typed, SucceededIsVerified
  <2>. QED
    BY <1>0, <2>1, <2>2, <2>3, <2>4, <2>5
<1>13. ASSUME NEW d \in Deployment, BeginVerification(d)
      PROVE  Inv'
  <2>1. EditsCoherent'
    BY <1>13, Begins, <1>0 DEF BeginVerification, Typed, EditsCoherent
  <2>2. Launched'
    BY <1>13, Begins, <1>0 DEF BeginVerification, Typed, Launched
  <2>3. Checking'
    BY <1>13, Begins, <1>0 DEF BeginVerification, Typed, Checking
  <2>4. Completing'
    BY <1>13, Begins, <1>0 DEF BeginVerification, Typed, Completing, Verified
  <2>5. SucceededIsVerified'
    BY <1>13, Begins, <1>0 DEF BeginVerification, Typed, SucceededIsVerified
  <2>. QED
    BY <1>0, <2>1, <2>2, <2>3, <2>4, <2>5
<1>14. ASSUME NEW d \in Deployment, VerificationUnstarted(d)
      PROVE  Inv'
  <2>1. EditsCoherent'
    BY <1>14, <1>0 DEF VerificationUnstarted, ToComplete, Ended, Typed, EditsCoherent
  <2>2. Launched'
    BY <1>14, <1>0 DEF VerificationUnstarted, ToComplete, Ended, Typed, Launched
  <2>3. Checking'
    BY <1>14, <1>0 DEF VerificationUnstarted, ToComplete, Ended, Typed, Checking
  <2>4. Completing'
    BY <1>14, <1>0 DEF VerificationUnstarted, ToComplete, Ended, Typed, Completing, Verified
  <2>5. SucceededIsVerified'
    BY <1>14, <1>0 DEF VerificationUnstarted, ToComplete, Ended, Typed, SucceededIsVerified
  <2>. QED
    BY <1>0, <2>1, <2>2, <2>3, <2>4, <2>5
<1>15. ASSUME NEW d \in Deployment, NEW error \in Errors, RunCheck(d, error)
      PROVE  Inv'
  <2>1. EditsCoherent'
    BY <1>15, <1>0 DEF RunCheck, Typed, EditsCoherent
  <2>2. Launched'
    BY <1>15, <1>0 DEF RunCheck, Typed, Launched
  <2>3. Checking'
    BY <1>15, <1>0 DEF RunCheck, Typed, Checking
  <2>4. Completing'
    BY <1>15, <1>0 DEF RunCheck, Typed, Completing, Verified
  <2>5. SucceededIsVerified'
    BY <1>15, <1>0 DEF RunCheck, Typed, SucceededIsVerified
  <2>. QED
    BY <1>0, <2>1, <2>2, <2>3, <2>4, <2>5
<1>16. ASSUME NEW d \in Deployment, NEW ok \in BOOLEAN, finishVerification(d, ok)
      PROVE  Inv'
  <2>1. EditsCoherent'
    BY <1>16, Finishes, <1>0 DEF finishVerification, Typed, EditsCoherent
  <2>2. Launched'
    BY <1>16, Finishes, <1>0 DEF finishVerification, Typed, Launched, Checking
  <2>3. Checking'
    BY <1>16, Finishes, <1>0 DEF finishVerification, Typed, Checking
  <2>4. Completing'
    BY <1>16, Finishes, <1>0 DEF finishVerification, Typed, Completing, Verified, Checking, NoCheck
  <2>5. SucceededIsVerified'
    BY <1>16, Finishes, <1>0 DEF finishVerification, Typed, SucceededIsVerified, Checking
  <2>. QED
    BY <1>0, <2>1, <2>2, <2>3, <2>4, <2>5
<1>17. ASSUME NEW d \in Deployment, NEW ok \in BOOLEAN, completeDeployment(d, ok)
      PROVE  Inv'
  <2>1. EditsCoherent'
    BY <1>17, <1>0, Closes DEF completeDeployment, Closing, NoRun, Statuses, Ended, Typed, EditsCoherent, Open
  <2>2. Launched'
    BY <1>17, <1>0, Closes DEF completeDeployment, Closing, NoRun, Statuses, Ended, Typed, Launched, Open
  <2>3. Checking'
    BY <1>17, <1>0, Closes DEF completeDeployment, Closing, NoRun, Statuses, Ended, Typed, Checking, Open
  <2>4. Completing'
    BY <1>17, <1>0, Closes DEF completeDeployment, Closing, NoRun, Statuses, Ended, Typed, Completing, Verified, Open
  <2>5. SucceededIsVerified'
    BY <1>17, <1>0, Closes DEF completeDeployment, Closing, NoRun, Statuses, Ended, Typed, SucceededIsVerified, Completing, Verified, Open
  <2>. QED
    BY <1>0, <2>1, <2>2, <2>3, <2>4, <2>5
<1>18. ASSUME NEW d \in Deployment, CompletionLost(d)
      PROVE  Inv'
  <2>1. EditsCoherent'
    BY <1>18, <1>0 DEF CompletionLost, NoRun, Typed, EditsCoherent
  <2>2. Launched'
    BY <1>18, <1>0 DEF CompletionLost, NoRun, Typed, Launched
  <2>3. Checking'
    BY <1>18, <1>0 DEF CompletionLost, NoRun, Typed, Checking
  <2>4. Completing'
    BY <1>18, <1>0 DEF CompletionLost, NoRun, Typed, Completing, Verified
  <2>5. SucceededIsVerified'
    BY <1>18, <1>0 DEF CompletionLost, NoRun, Typed, SucceededIsVerified
  <2>. QED
    BY <1>0, <2>1, <2>2, <2>3, <2>4, <2>5
<1>19. ASSUME ReconcileTerminalVerifications
      PROVE  Inv'
  <2>1. EditsCoherent'
    BY <1>19, Sweep, <1>0 DEF ReconcileTerminalVerifications, Typed, Open, EditsCoherent
  <2>2. Launched'
    BY <1>19, Sweep, <1>0 DEF ReconcileTerminalVerifications, Typed, Open, Launched
  <2>3. Checking'
    BY <1>19, Sweep, <1>0 DEF ReconcileTerminalVerifications, Typed, Open, Checking, Ended
  <2>4. Completing'
    BY <1>19, Sweep, <1>0 DEF ReconcileTerminalVerifications, Typed, Open, Completing, Verified
  <2>5. SucceededIsVerified'
    BY <1>19, Sweep, <1>0 DEF ReconcileTerminalVerifications, Typed, Open, SucceededIsVerified
  <2>. QED
    BY <1>0, <2>1, <2>2, <2>3, <2>4, <2>5
<1>20. ASSUME NEW left \in SUBSET Deployment, Restart(left)
      PROVE  Inv'
  <2>1. EditsCoherent'
    BY <1>20, <1>0, Sweep DEF Restart, NoRun, Typed, EditsCoherent, Open
  <2>2. Launched'
    BY <1>20, <1>0, Sweep DEF Restart, NoRun, Typed, Launched, Open
  <2>3. Checking'
    BY <1>20, <1>0, Sweep DEF Restart, NoRun, Typed, Checking, Open
  <2>4. Completing'
    BY <1>20, <1>0, Sweep DEF Restart, NoRun, Typed, Completing, Verified, Open
  <2>5. SucceededIsVerified'
    BY <1>20, <1>0, Sweep DEF Restart, NoRun, Typed, SucceededIsVerified, Open
  <2>. QED
    BY <1>0, <2>1, <2>2, <2>3, <2>4, <2>5
<1>. QED
  BY <1>1, <1>2, <1>3, <1>4, <1>5, <1>6, <1>7, <1>8, <1>9, <1>10, <1>11, <1>12, <1>13, <1>14, <1>15, <1>16, <1>17, <1>18, <1>19, <1>20
     DEF Next, Configure, Deploy, Errors

-----------------------------------------------------------------------------
LEMMA Start == ASSUME Init PROVE Inv
<1>1. /\ \A d \in Deployment : deployment[d] = "none" /\ check[d] = NoCheck /\ run[d].pc = "none"
      /\ \A e \in Edit : edit[e].pc = "none"
  BY DEF Init, NoRun
<1>2. Typed
  BY EmptyTyped DEF Init, Typed, Edits, Checks, Runs, NoRun
<1>. QED
  BY <1>1, <1>2, EmptyTyped
     DEF Init, Inv, EditsCoherent, Launched, Checking, Completing, SucceededIsVerified

LEMMA Holds == ASSUME Inv PROVE TypeOK /\ CheckCoherent /\ SucceededIsVerified
<1>1. \A d \in Deployment :
        /\ check[d] = NoCheck \/ check[d].settings \in Settings
        /\ check[d].status \in {"none", "pending", "running", "succeeded", "failed", "cancelled"}
        /\ run[d].pc \in {"none", "steps", "check", "close", "complete"}
  BY DEF Inv, Typed, Checks, NoCheck, Statuses, Runs
<1>. QED
  BY <1>1 DEF Inv, Typed, TypeOK, CheckCoherent, EditsCoherent, Coherent

\* Only the save itself moves an update to "done", and a restart, which writes
\* no settings.
LEMMA Keeps ==
    ASSUME Inv, [Next]_vars, NEW e \in Edit,
           edit[e].pc = "read", edit'[e].pc = "done", edit[e].given = {}
    PROVE  setting' = setting
<1>1. ASSUME NEW x \in Edit, SaveEnvironment(x) PROVE setting' = setting
  <2>1. x = e
    BY <1>1 DEF SaveEnvironment, Inv, Typed
  <2>. QED
    BY <1>1, <2>1 DEF SaveEnvironment, WriteSettings
<1>2. ASSUME NEW left \in SUBSET Deployment, Restart(left) PROVE setting' = setting
  BY <1>2 DEF Restart
<1>3. ASSUME NEW x \in Edit, NEW q \in Request, NEW admin \in BOOLEAN,
             UpdateEnvironment(x, admin, q)
      PROVE  setting' = setting
  BY <1>3 DEF UpdateEnvironment
<1>4. ASSUME edit' = edit PROVE FALSE
  BY <1>4
<1>5. CASE Configure
  BY <1>1, <1>3, <1>4, <1>5
     DEF Configure, CreateEnvironment, UpdateEnvironmentPage, DeleteEnvironment
<1>6. ASSUME NEW d \in Deployment, Deploy(d) PROVE edit' = edit
  BY <1>6
     DEF Deploy, environment, CreateDeployment, Launch, CancelQueuedDeployment, CancelRun,
         LoseRemoteStep, FailInvalidRemoteSteps, StepsFail, BeginVerification,
         VerificationUnstarted, RunCheck, finishVerification, completeDeployment, CompletionLost
<1>. QED
  BY <1>2, <1>4, <1>5, <1>6 DEF Next, vars, ReconcileTerminalVerifications, environment

\* However partial updates, sweeps, cancellations, lost agents, deletions and
\* restarts interleave: the stored check is valid as a whole, a save that does
\* not name it leaves it alone, and a deployment is succeeded only if it has no
\* check or its check ran, passed and is recorded so
\* (verifyDeployment, completeDeployment, configure_verification).
THEOREM EnvironmentSafe ==
    EnvironmentAssumption =>
        (Spec => [](TypeOK /\ CheckCoherent /\ SucceededIsVerified) /\ OthersKeepCheck)
<1>. SUFFICES ASSUME EnvironmentAssumption
              PROVE  Spec => [](TypeOK /\ CheckCoherent /\ SucceededIsVerified) /\ OthersKeepCheck
  OBVIOUS
<1>1. Init => Inv
  BY Start
<1>2. Inv /\ [Next]_vars => Inv'
  <2>1. CASE Next
    BY <2>1, Step
  <2>2. CASE UNCHANGED vars
    BY <2>2 DEF vars, Inv, Typed, EditsCoherent, Launched, Checking, Completing, Verified,
                SucceededIsVerified
  <2>. QED
    BY <2>1, <2>2
<1>3. Inv => TypeOK /\ CheckCoherent /\ SucceededIsVerified
  BY Holds
<1>4. Inv /\ [Next]_vars =>
        [\A e \in Edit :
            (/\ edit[e].pc = "read" /\ edit'[e].pc = "done"
             /\ edit[e].given = {}) => setting' = setting]_vars
  BY Keeps
<1>. QED
  BY <1>1, <1>2, <1>3, <1>4, PTL DEF Spec, OthersKeepCheck

=============================================================================
