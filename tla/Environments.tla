---------------------------- MODULE Environments ----------------------------
(***************************************************************************)
(* An environment, its post-deployment check, and the checks of its        *)
(* deployments.                                                            *)
(*                                                                         *)
(* An administrator sets the check of an environment on its page or by the *)
(* API, whose partial request is merged with what was read before; others  *)
(* may save the rest of the environment.  A deployment keeps the check its *)
(* environment has when it is created.  Its runner, the dispatcher, the    *)
(* ticker and the startup recovery then start and close that check.        *)
(* Admission, steps and cleanup are the subject of DeploymentQueue and     *)
(* Runner; runbook executions have no check.                               *)
(***************************************************************************)
EXTENDS Naturals, FiniteSets

CONSTANTS
    Request,     \* bound: what a save says of the check
    Edit,        \* bound: API updates ever made
    Deployment,  \* bound: deployments ever created
    MaxRestarts  \* bound

Fields == {"kind", "target", "timeout"}
Kinds == {"none", "http", "bash"}
Targets == {"blank", "url", "script"}
Timeouts == {"default", "other"}

Settings == [kind : Kinds, target : Targets, timeout : Timeouts]
\* A request may leave fields out, or give a timeout out of range.
Requests == [kind : Kinds \cup {"absent"}, target : Targets \cup {"absent"},
             timeout : Timeouts \cup {"absent", "zero"}]

EnvironmentAssumption == MaxRestarts \in Nat /\ Request \subseteq Requests

VARIABLES
    place,      \* the environment: "new", "here", "gone"
    setting,    \* its check
    edit,       \* API updates between their read and their write
    deployment, \* status of each deployment
    check,      \* rows of deployment_verifications
    run,        \* the runner's goroutine of each deployment
    cancelled,  \* deployments whose run context is cancelled
    restarts,
    passed      \* ghost: deployments whose check really passed

vars == <<place, setting, edit, deployment, check, run, cancelled, restarts,
          passed>>
environment == <<place, setting, edit>>
work == <<deployment, check, run, cancelled, restarts, passed>>

NoCheck == [status |-> "none"]
Open(c) == c.status \in {"pending", "running"}
Ended == {"succeeded", "failed", "cancelled", "cleanup_unconfirmed"}
Active == {"waiting", "running"}
NoRun == [pc |-> "none"]

-----------------------------------------------------------------------------
(* Settings *)

Valid(c) == /\ c.timeout \in Timeouts
            /\ c.kind = "http" => c.target = "url"
            /\ c.kind = "bash" => c.target # "blank"
Parse(c) == IF c.kind = "none" THEN [c EXCEPT !.target = "blank"] ELSE c

Given(q) == {f \in Fields : q[f] # "absent"}
hasVerification(q) == Given(q) # {}
Or(given, kept) == IF given = "absent" THEN kept ELSE given
Merge(q, c) == [kind |-> Or(q.kind, c.kind), target |-> Or(q.target, c.target),
                timeout |-> Or(q.timeout, c.timeout)]

Empty == [kind |-> "none", target |-> "blank", timeout |-> "default"]

CreateEnvironment(admin, q) ==
    /\ place = "new"
    /\ hasVerification(q) => admin
    /\ Valid(Merge(q, Empty))
    /\ place' = "here" /\ setting' = Parse(Merge(q, Empty))
    /\ UNCHANGED <<edit, work>>

\* The page, in one statement: a form without the kind keeps the check.
UpdateEnvironmentPage(q) ==
    /\ place = "here"
    /\ Valid(Merge(q, Empty))
    /\ setting' = IF q.kind # "absent" THEN Parse(Merge(q, Empty)) ELSE setting
    /\ UNCHANGED <<place, edit, work>>

\* The API reads the environment, merges, validates ...
UpdateEnvironment(e, admin, q) ==
    /\ edit[e].pc = "none" /\ place = "here"
    /\ hasVerification(q) => admin
    /\ Valid(Merge(q, setting))
    /\ edit' = [edit EXCEPT ![e] = [pc |-> "read", given |-> Given(q),
                                    check |-> Parse(Merge(q, setting))]]
    /\ UNCHANGED <<place, setting, work>>

\* ... and writes all of the check, or none of it.
WriteSettings(e) ==
    setting' = IF edit[e].given # {} THEN edit[e].check ELSE setting

SaveEnvironment(e) ==
    /\ edit[e].pc = "read"
    /\ edit' = [edit EXCEPT ![e] = [pc |-> "done"]]
    /\ IF place = "here" THEN WriteSettings(e) ELSE UNCHANGED setting
    /\ UNCHANGED <<place, work>>

\* A deployment whose cleanup is unconfirmed may have been confirmed since.
DeleteEnvironment ==
    /\ place = "here"
    /\ \A d \in Deployment : deployment[d] \notin Active
    /\ place' = "gone"
    /\ deployment' = [d \in Deployment |->
          IF deployment[d] = "none" THEN "none" ELSE "deleted"]
    /\ check' = [d \in Deployment |-> NoCheck]
    /\ UNCHANGED <<setting, edit, run, cancelled, restarts, passed>>

-----------------------------------------------------------------------------
(* Deployments *)

\* A Bash check needs a step whose place it can take.
CreateDeployment(d, steps) ==
    /\ place = "here" /\ deployment[d] = "none"
    /\ setting.kind = "bash" => steps
    /\ deployment' = [deployment EXCEPT ![d] = "waiting"]
    /\ check' = [check EXCEPT ![d] =
          IF setting.kind = "none" THEN NoCheck
          ELSE [status |-> "pending", settings |-> setting]]
    /\ UNCHANGED <<environment, run, cancelled, restarts, passed>>

FinishDeploymentVerification(d, status) ==
    check' = IF Open(check[d]) THEN [check EXCEPT ![d].status = status] ELSE check

Closing(s) == IF s = "cancelled" THEN "cancelled" ELSE "failed"

Reconciled(rows, dep) == [d \in Deployment |->
    IF Open(rows[d]) /\ dep[d] \in Ended
    THEN [rows[d] EXCEPT !.status = Closing(dep[d])] ELSE rows[d]]

ReconcileTerminalVerifications ==
    /\ check' = Reconciled(check, deployment)
    /\ UNCHANGED <<environment, deployment, run, cancelled, restarts, passed>>

Launch(d) ==
    /\ deployment[d] = "waiting"
    /\ deployment' = [deployment EXCEPT ![d] = "running"]
    /\ run' = [run EXCEPT ![d] = [pc |-> "steps"]]
    /\ UNCHANGED <<environment, check, cancelled, restarts, passed>>

CancelQueuedDeployment(d) ==
    /\ deployment[d] = "waiting"
    /\ deployment' = [deployment EXCEPT ![d] = "cancelled"]
    /\ FinishDeploymentVerification(d, "cancelled")
    /\ UNCHANGED <<environment, run, cancelled, restarts, passed>>

CancelRun(d) ==
    /\ deployment[d] = "running" /\ run[d].pc # "none"
    /\ cancelled' = cancelled \cup {d}
    /\ UNCHANGED <<environment, deployment, check, run, restarts, passed>>

\* The dispatcher finds the agent of a step lost.
LoseRemoteStep(d, status) ==
    /\ deployment[d] = "running" /\ run[d].pc = "steps"
    /\ deployment' = [deployment EXCEPT ![d] = status]
    /\ check' = Reconciled(check, deployment')
    /\ UNCHANGED <<environment, run, cancelled, restarts, passed>>

\* A claim finds the step unfit for an agent: the check stays open.
FailInvalidRemoteSteps(d) ==
    /\ deployment[d] = "running" /\ run[d].pc = "steps"
    /\ deployment' = [deployment EXCEPT ![d] = "failed"]
    /\ UNCHANGED <<environment, check, run, cancelled, restarts, passed>>

-----------------------------------------------------------------------------
(* The runner *)

ToComplete(d, status, wins) ==
    run' = [run EXCEPT ![d] = [pc |-> "complete", status |-> status, wins |-> wins]]

StepsFail(d) ==
    /\ run[d].pc = "steps"
    /\ IF d \in cancelled THEN ToComplete(d, "cancelled", FALSE)
       ELSE ToComplete(d, "failed", TRUE)
    /\ UNCHANGED <<environment, deployment, check, cancelled, restarts, passed>>

\* All steps succeeded, so none was lost; the check begins, if there is one.
\* The context may be cancelled any time after it is looked at.
BeginVerification(d) ==
    /\ run[d].pc = "steps" /\ deployment[d] = "running"
    /\ CASE d \in cancelled -> ToComplete(d, "cancelled", FALSE) /\ UNCHANGED check
         [] d \notin cancelled /\ check[d] = NoCheck ->
              ToComplete(d, "succeeded", TRUE) /\ UNCHANGED check
         [] d \notin cancelled /\ check[d] # NoCheck ->
              /\ check[d].status = "pending"
              /\ check' = [check EXCEPT ![d].status = "running"]
              /\ run' = [run EXCEPT ![d] = [pc |-> "check"]]
    /\ UNCHANGED <<environment, deployment, cancelled, restarts, passed>>

\* The row cannot be read or started.
VerificationUnstarted(d) ==
    /\ run[d].pc = "steps" /\ deployment[d] = "running" /\ d \notin cancelled
    /\ ToComplete(d, "failed", TRUE)
    /\ UNCHANGED <<environment, deployment, check, cancelled, restarts, passed>>

\* A check passes; fails, by its answer, its timeout, even one that passes too
\* late, or a log that cannot be written; is cancelled; or, when it is a Bash
\* check, leaves a container behind.
RunCheck(d, error) ==
    /\ run[d].pc = "check"
    /\ error = "cancelled" => d \in cancelled
    /\ error = "cleanup" => check[d].settings.kind = "bash"
    /\ error = "none" /\ check[d].settings.kind = "bash" => d \notin cancelled
    /\ passed' = IF error = "none" THEN passed \cup {d} ELSE passed
    /\ run' = [run EXCEPT ![d] = [pc |-> "close", error |-> error]]
    /\ UNCHANGED <<environment, deployment, check, cancelled, restarts>>

VerificationStatus(error) ==
    CASE error = "none" -> "succeeded"
      [] error = "cancelled" -> "cancelled"
      [] OTHER -> "failed"

\* What run does with the error verifyDeployment returns.
AfterVerification(d, error) ==
    CASE error = "none" -> ToComplete(d, "succeeded", TRUE)
      [] error = "cleanup" -> ToComplete(d, "cleanup_unconfirmed", FALSE)
      [] error = "cancelled" -> ToComplete(d, "cancelled", FALSE)
      [] error = "failed" -> ToComplete(d, "failed", d \notin cancelled)

MutantFinishVerification(d, saved) ==
    /\ run[d].pc = "close"
    /\ IF saved THEN FinishDeploymentVerification(d, VerificationStatus(run[d].error))
       ELSE UNCHANGED check
    /\ AfterVerification(d, run[d].error)
    /\ UNCHANGED <<environment, deployment, cancelled, restarts, passed>>
\* saved: whether the row could be written; an error is added to the other.
finishVerification(d, saved) ==
    /\ run[d].pc = "close"
    /\ LET error == run[d].error IN
       /\ IF saved THEN FinishDeploymentVerification(d, VerificationStatus(error))
          ELSE UNCHANGED check
       /\ AfterVerification(d, IF error = "none" /\ ~saved THEN "failed" ELSE error)
    /\ UNCHANGED <<environment, deployment, cancelled, restarts, passed>>

\* clean: whether the artifact of the deployment could be removed.  A deployment
\* that has ended keeps its status, unless what is left behind is to be noted.
completeDeployment(d, clean) ==
    /\ run[d].pc = "complete"
    /\ LET asked == CASE ~clean -> "cleanup_unconfirmed"
                      [] clean /\ run[d].wins /\ d \in cancelled -> "cancelled"
                      [] OTHER -> run[d].status
           kept == \/ deployment[d] = "deleted"
                   \/ deployment[d] \in Ended /\ asked # "cleanup_unconfirmed"
       IN  IF kept THEN UNCHANGED <<deployment, check>>
           ELSE /\ deployment' = [deployment EXCEPT ![d] = asked]
                /\ FinishDeploymentVerification(d, Closing(asked))
    /\ run' = [run EXCEPT ![d] = NoRun]
    /\ UNCHANGED <<environment, cancelled, restarts, passed>>

\* The completion cannot be saved for 30 seconds: the deployment stays running.
CompletionLost(d) ==
    /\ run[d].pc = "complete"
    /\ run' = [run EXCEPT ![d] = NoRun]
    /\ UNCHANGED <<environment, deployment, check, cancelled, restarts, passed>>

\* A crash loses the goroutines and the API updates; the startup recovery fails
\* what was running, and may find a container left behind.
Restart(left) ==
    /\ restarts < MaxRestarts /\ restarts' = restarts + 1
    /\ deployment' = [d \in Deployment |->
          IF deployment[d] # "running" THEN deployment[d]
          ELSE IF d \in left THEN "cleanup_unconfirmed" ELSE "failed"]
    /\ check' = Reconciled(check, deployment')
    /\ run' = [d \in Deployment |-> NoRun]
    /\ cancelled' = {}
    /\ edit' = [e \in Edit |->
          IF edit[e].pc = "read" THEN [pc |-> "done"] ELSE edit[e]]
    /\ UNCHANGED <<place, setting, passed>>

-----------------------------------------------------------------------------
Init ==
    /\ place = "new" /\ setting = Empty
    /\ edit = [e \in Edit |-> [pc |-> "none"]]
    /\ deployment = [d \in Deployment |-> "none"]
    /\ check = [d \in Deployment |-> NoCheck]
    /\ run = [d \in Deployment |-> NoRun]
    /\ cancelled = {} /\ restarts = 0 /\ passed = {}

Configure ==
    \/ \E q \in Request, admin \in BOOLEAN : CreateEnvironment(admin, q)
    \/ \E q \in Request : UpdateEnvironmentPage(q)
    \/ \E e \in Edit, q \in Request, admin \in BOOLEAN : UpdateEnvironment(e, admin, q)
    \/ \E e \in Edit : SaveEnvironment(e)
    \/ DeleteEnvironment

Deploy(d) ==
    \/ \E steps \in BOOLEAN : CreateDeployment(d, steps)
    \/ Launch(d) \/ CancelQueuedDeployment(d) \/ CancelRun(d)
    \/ \E s \in {"failed", "cleanup_unconfirmed"} : LoseRemoteStep(d, s)
    \/ FailInvalidRemoteSteps(d)
    \/ StepsFail(d) \/ BeginVerification(d) \/ VerificationUnstarted(d)
    \/ \E error \in {"none", "failed", "cancelled", "cleanup"} : RunCheck(d, error)
    \/ \E ok \in BOOLEAN : finishVerification(d, ok) \/ completeDeployment(d, ok)
    \/ CompletionLost(d)

Next ==
    \/ Configure
    \/ \E d \in Deployment : Deploy(d)
    \/ ReconcileTerminalVerifications
    \/ \E left \in SUBSET Deployment : Restart(left)

Spec == Init /\ [][Next]_vars

-----------------------------------------------------------------------------
(* Every variable has its type; a stored timeout is within its range.      *)
TypeOK ==
    /\ place \in {"new", "here", "gone"}
    /\ setting \in Settings
    /\ deployment \in [Deployment -> {"none", "deleted"} \cup Active \cup Ended]
    /\ \A d \in Deployment : check[d] = NoCheck \/ check[d].settings \in Settings
    /\ \A d \in Deployment :
          check[d].status \in {"none", "pending", "running", "succeeded",
                               "failed", "cancelled"}
    /\ \A d \in Deployment :
          run[d].pc \in {"none", "steps", "check", "close", "complete"}
    /\ cancelled \subseteq Deployment /\ passed \subseteq Deployment

(* However partial updates of several administrators overlap, the check an *)
(* environment stores is one that Parse accepts as a whole: an HTTP check  *)
(* never has a script for its address, a Bash check is never blank.        *)
CheckCoherent ==
    /\ setting.kind = "http" => setting.target = "url"
    /\ setting.kind = "bash" => setting.target # "blank"
    /\ setting.kind = "none" => setting.target = "blank"

(* A save that names no field of the check leaves the check as it is at    *)
(* that moment, though it read the environment before another save changed *)
(* it: configure_verification keeps the columns.                           *)
OthersKeepCheck ==
    [][\A e \in Edit :
          (/\ edit[e].pc = "read" /\ edit'[e].pc = "done"
           /\ edit[e].given = {}) => setting' = setting]_vars

(* A deployment is succeeded only if its environment had no check when it  *)
(* was created, or the check ran, passed, and is recorded so; whatever is  *)
(* cancelled, lost, unsaved, swept or restarted around it.                 *)
SucceededIsVerified ==
    \A d \in Deployment : deployment[d] = "succeeded" /\ check[d] # NoCheck =>
        check[d].status = "succeeded" /\ d \in passed

=============================================================================
