---------------------------- MODULE ArtifactGate ----------------------------
(***************************************************************************)
(* One deployment whose steps stop for the approval of an artifact.        *)
(*                                                                         *)
(* A gated deployment runs in segments.  A segment pins the images of all  *)
(* local steps, restores the context approved at the gate before it, and   *)
(* runs steps until one of them asks for an approval: its staging area is  *)
(* stored in encrypted chunks beside a gate row that expires after a day,  *)
(* and the run pauses.  Administrators approve or reject what they saw,    *)
(* anybody with write access cancels, a minute ticker expires what nobody  *)
(* decided, releases images and deletes old chunks, and the server may     *)
(* crash between any two of these.                                         *)
(*                                                                         *)
(* Queueing and scope locks are DeploymentQueue's, attempts, remote steps  *)
(* and a completion the database refuses are Runner's: a step here is one  *)
(* local execution and a completion one transaction.  Time is relative:    *)
(* gates count down to their expiry, an ended deployment counts up.        *)
(***************************************************************************)
EXTENDS Naturals, Sequences

CONSTANTS Steps,      \* number of steps; step indexes are 0..Steps-1
          Gates,      \* indexes of the steps that ask for an approval
          Contents,   \* staging areas a step can produce, with their checksums
          Images,     \* ids of container images, Nat
          Admins,     \* administrators deciding concurrently
          None,       \* no value
          Life,       \* ticks until a gate expires (24 hours)
          Keep,       \* ticks an ended deployment's chunks are kept (7 days)
          MaxCrashes, \* bound: crashes of the server
          MaxPushes,  \* bound: moves of the image tag
          MaxErrors   \* bound: failed admissions

StepIds == 0..(Steps - 1)

ArtifactGateAssumption ==
    /\ Steps \in Nat /\ Gates \subseteq StepIds
    /\ Life \in Nat \ {0} /\ Keep \in Nat
    /\ MaxCrashes \in Nat /\ MaxPushes \in Nat /\ MaxErrors \in Nat
    /\ Images \subseteq Nat \ {0}

VARIABLES status,   \* deployments.status
          age,      \* ticks since deployments.finished_at, at most Keep
          run,      \* artifact_gate_runs: next step, claimed
          gate,     \* artifact_gates, with the ticks left to expires_at
          chunks,   \* artifact_gate_chunks: the content stored for a gate
          pin,      \* artifact_gate_images
          ref,      \* external: retained image containers, by step
          tag,      \* external: the image the steps' tag names
          job,      \* the goroutine of DeploymentRunner.Run
          decision, \* approvals whose bundle was verified, by administrator
          cancel,   \* the cancel request in flight
          stray,    \* an admission that failed and is about to fail the deployment
          server,   \* phase of the server process
          faults,   \* crashes, pushes and failed admissions so far
          produced, \* ghost: what the gate's step left in its staging area
          approved, \* ghost: the checksum an administrator approved
          ran,      \* ghost: images each step was executed with
          accepted  \* ghost: a cancel request was answered with success

vars == <<status, age, run, gate, chunks, pin, ref, tag, job, decision, cancel,
          stray, server, faults, produced, approved, ran, accepted>>

NoGate == [status |-> "none", sha |-> None, left |-> 0, by |-> None]
NoJob == [pc |-> "off", at |-> 0, next |-> 0, context |-> None,
          registered |-> FALSE, cancelled |-> FALSE]
NoDecision == [gate |-> 0, sha |-> None]
NoCancel == "idle"

\* Statuses that hold image references and from which a run may still go on.
ActiveStatus == {"pending", "running", "publishing", "awaiting"}
FinalStatus == {"succeeded", "failed", "cancelled", "rejected", "expired"}
EndStatus == FinalStatus \cup {"cleanup_unconfirmed"}

Up == server = "up"

-----------------------------------------------------------------------------
(* Queries *)

GetArtifactGate(g) == IF g \in Gates THEN gate[g] ELSE NoGate
GetArtifactGateChunk(g) == IF g \in Gates THEN chunks[g] ELSE None
GetArtifactGateImage(s) == pin[s]

ClaimArtifactGateRun == ~run.claimed /\ status = "pending"
                        /\ run' = [run EXCEPT !.claimed = TRUE]
AdvanceArtifactGateRun(next) == run' = [next |-> next, claimed |-> FALSE]

CreateArtifactGate(g, c) ==
    /\ gate[g].status = "none"
    /\ gate' = [gate EXCEPT ![g] =
                   [status |-> "awaiting", sha |-> c, left |-> Life, by |-> None]]
CreateArtifactGateChunk(g, c) == chunks' = [chunks EXCEPT ![g] = c]
CreateArtifactGateImage(s, id) == pin' = [pin EXCEPT ![s] = id]

ApproveArtifactGate(g, sha, admin) ==
    /\ gate[g].status = "awaiting" /\ gate[g].sha = sha /\ gate[g].left > 0
    /\ gate' = [gate EXCEPT ![g].status = "approved", ![g].by = admin]

FinishArtifactGates(s) ==
    gate' = [g \in Gates |-> IF gate[g].status = "awaiting"
                             THEN [gate[g] EXCEPT !.status = s] ELSE gate[g]]

PublishArtifactGateDeployment == status = "running" /\ status' = "publishing"
PauseArtifactGateDeployment == status = "publishing" /\ status' = "awaiting"
ResumeArtifactGateDeployment == status = "awaiting" /\ status' = "pending"

CancelQueuedDeployment == status = "pending" /\ status' = "cancelled" /\ age' = 0
UpdateDeploymentStatus(s) == status' = s /\ age' = 0

\* The gate a continuation depends on has run out of time.
Lapsed == run.next > 0 /\ run.next - 1 \in Gates /\ gate[run.next - 1].left = 0
                       /\ gate[run.next - 1].status # "none"
MutantExpirePending == IF status = "pending" /\ Lapsed THEN "expired" ELSE status
ExpireArtifactGateDeployments ==
    IF status \in {"awaiting", "pending"} /\ Lapsed THEN "expired" ELSE status
ExpireArtifactGates(s, gs) ==
    [g \in Gates |->
        IF /\ gs[g].status \in {"awaiting", "approved"} /\ gs[g].left = 0
           /\ s = "expired" /\ g + 1 = run.next
        THEN [gs[g] EXCEPT !.status = "expired"] ELSE gs[g]]
CancelTerminalArtifactGates(s, gs) ==
    [g \in Gates |->
        IF gs[g].status = "awaiting" /\ s \in {"failed", "cancelled", "cleanup_unconfirmed"}
        THEN [gs[g] EXCEPT !.status = "cancelled"] ELSE gs[g]]
DeleteExpiredArtifactGateChunks(s, a) ==
    IF s \in FinalStatus /\ a = Keep THEN [g \in Gates |-> None] ELSE chunks
ConfirmContainerCleanup ==
    IF status \in {"running", "publishing", "cleanup_unconfirmed"} THEN "failed" ELSE status

-----------------------------------------------------------------------------
(* The bundle of a gate: its chunks decrypt to the content of its checksum *)

WriteArtifactGateBundle(g) ==
    GetArtifactGateChunk(g) # None /\ GetArtifactGateChunk(g) = GetArtifactGate(g).sha

-----------------------------------------------------------------------------
(* Completion *)

\* Under r.mu a cancellation seen by then wins, an unconfirmed cleanup replaces
\* any status, and an ended deployment otherwise stays as it is.
completeDeployment(want, clean, cancelled) ==
    IF status \in EndStatus /\ clean THEN UNCHANGED <<status, age, gate>>
    ELSE /\ UpdateDeploymentStatus(CASE ~clean -> "cleanup_unconfirmed"
                                      [] clean /\ cancelled -> "cancelled"
                                      [] OTHER -> want)
         /\ FinishArtifactGates("cancelled")

\* The job ends with a completion; its cleanup may fail.
persistCompletion(want) ==
    /\ \E clean \in BOOLEAN : completeDeployment(want, clean, job.cancelled)
    /\ job' = NoJob
    /\ UNCHANGED <<run, chunks, pin, ref, tag, decision, cancel, stray, server, faults,
                   produced, approved, ran, accepted>>

failUnlessCancelled == persistCompletion("failed")

-----------------------------------------------------------------------------
(* DeploymentRunner.Run *)

\* The claim and the start are one transaction under r.mu, with the registration.
\* Run is called by a decision, by the queue's ticker and by the recovery.
BeginArtifactGateRun ==
    /\ Up /\ job.pc = "off"
    /\ ClaimArtifactGateRun
    /\ status' = "running"
    /\ job' = [NoJob EXCEPT !.pc = "pin", !.next = run.next, !.registered = TRUE]
    /\ UNCHANGED <<age, gate, chunks, pin, ref, tag, decision, cancel, stray, server,
                   faults, produced, approved, ran, accepted>>

\* The database refuses the admission: the mutex is free again before the
\* deployment is failed, and another Run may begin in between.
BeginFails ==
    /\ Up /\ job.pc = "off" /\ ~stray /\ faults.errors < MaxErrors
    /\ status = "pending"
    /\ stray' = TRUE
    /\ faults' = [faults EXCEPT !.errors = @ + 1]
    /\ UNCHANGED <<status, age, run, gate, chunks, pin, ref, tag, job, decision, cancel,
                   server, produced, approved, ran, accepted>>

\* Its completion also forgets a registration made in between.
StrayFails ==
    /\ Up /\ stray
    /\ IF status = "cancelled" THEN UNCHANGED <<status, age, gate, job>>
       ELSE /\ \E clean \in BOOLEAN : completeDeployment("failed", clean, FALSE)
            /\ job' = [job EXCEPT !.registered = FALSE]
    /\ stray' = FALSE
    /\ UNCHANGED <<run, chunks, pin, ref, tag, decision, cancel, server, faults,
                   produced, approved, ran, accepted>>

jobOnly == <<status, age, run, gate, chunks, tag, decision, cancel, stray, server,
             faults, produced, approved, accepted>>

\* retainArtifactGateImage: an existing container must hold the same image.
retainArtifactGateImage(s, id) ==
    /\ ref[s] \in {None, id}
    /\ ref' = [ref EXCEPT ![s] = id]

artifactGateImageID == tag

\* A step without a row: the container is retained first, the row follows.
RetainTagged ==
    /\ Up /\ job.pc = "pin" /\ job.at \in StepIds /\ GetArtifactGateImage(job.at) = None
    /\ retainArtifactGateImage(job.at, artifactGateImageID)
    /\ job' = [job EXCEPT !.pc = "row"]
    /\ UNCHANGED <<pin, ran, jobOnly>>

saveArtifactGateImage ==
    /\ Up /\ job.pc = "row"
    /\ CreateArtifactGateImage(job.at, ref[job.at])
    /\ job' = [job EXCEPT !.pc = "pin", !.at = @ + 1]
    /\ UNCHANGED <<ref, ran, jobOnly>>

\* A step with a row keeps its image, whatever the tag names by now.
pinArtifactGateImages ==
    /\ Up /\ job.pc = "pin" /\ job.at \in StepIds /\ GetArtifactGateImage(job.at) # None
    /\ retainArtifactGateImage(job.at, GetArtifactGateImage(job.at))
    /\ job' = [job EXCEPT !.at = @ + 1]
    /\ UNCHANGED <<pin, ran, jobOnly>>

PinDone ==
    /\ Up /\ job.pc = "pin" /\ job.at = Steps
    /\ job' = [job EXCEPT !.pc = IF job.next > 0 THEN "restore" ELSE "step",
                          !.at = job.next]
    /\ UNCHANGED <<pin, ref, ran, jobOnly>>

\* The runtime refuses, a row is missing, a limit is exceeded.
PrepareFails ==
    /\ Up /\ job.pc \in {"pin", "row", "restore"}
    /\ failUnlessCancelled

MutantRestoreFirst ==
    /\ Up /\ job.pc = "restore" /\ ~job.cancelled
    /\ LET g == GetArtifactGate(job.next - 1)
       IN  g.status = "approved" /\ g.left > 0 /\ g.by # None
    /\ job' = [job EXCEPT !.pc = "step", !.context = GetArtifactGateChunk(0)]
    /\ UNCHANGED <<pin, ref, ran, jobOnly>>
restoreArtifactGate ==
    /\ Up /\ job.pc = "restore" /\ ~job.cancelled
    /\ LET g == GetArtifactGate(job.next - 1)
       IN  g.status = "approved" /\ g.left > 0 /\ g.by # None
    /\ WriteArtifactGateBundle(job.next - 1)
    /\ job' = [job EXCEPT !.pc = "step", !.context = GetArtifactGateChunk(job.next - 1)]
    /\ UNCHANGED <<pin, ref, ran, jobOnly>>

\* A step starts with the image of its row.
StepStarts ==
    /\ Up /\ job.pc = "step" /\ job.at \in StepIds /\ ~job.cancelled
    /\ job' = [job EXCEPT !.pc = "exec"]
    /\ ran' = [ran EXCEPT ![job.at] = Append(@, GetArtifactGateImage(job.at))]
    /\ UNCHANGED <<pin, ref, jobOnly>>

\* A step succeeds; what a gate's step leaves in its staging area is its own.
StepSucceeds ==
    /\ Up /\ job.pc = "exec"
    /\ IF job.at \in Gates
       THEN /\ \E c \in Contents : produced' = [produced EXCEPT ![job.at] = c]
            /\ job' = [job EXCEPT !.pc = "capture"]
       ELSE /\ job' = [job EXCEPT !.pc = "step", !.at = @ + 1]
            /\ UNCHANGED produced
    /\ UNCHANGED <<status, age, run, gate, chunks, pin, ref, tag, decision, cancel, stray,
                   server, faults, approved, ran, accepted>>

\* A step fails, or the run was cancelled before the next one.
StepFails == Up /\ job.pc = "exec" /\ failUnlessCancelled
LoopCancelled == Up /\ job.pc = "step" /\ job.cancelled /\ failUnlessCancelled
RunSucceeds == Up /\ job.pc = "step" /\ job.at = Steps /\ persistCompletion("succeeded")

\* SaveArtifactGate: status, row and chunks are one transaction.
SaveArtifactGate(g, c) ==
    /\ PublishArtifactGateDeployment
    /\ CreateArtifactGate(g, c)
    /\ CreateArtifactGateChunk(g, c)

captureArtifactGate ==
    /\ Up /\ job.pc = "capture" /\ ~job.cancelled
    /\ SaveArtifactGate(job.at, produced[job.at])
    /\ job' = [job EXCEPT !.pc = "clean"]
    /\ UNCHANGED <<age, run, pin, ref, tag, decision, cancel, stray, server, faults,
                   produced, approved, ran, accepted>>

\* The export is invalid, or the deployment is no longer running.
CaptureFails == Up /\ job.pc = "capture" /\ failUnlessCancelled

cleanupArtifact ==
    /\ Up /\ job.pc = "clean"
    /\ job' = [job EXCEPT !.pc = "pause"]
    /\ UNCHANGED <<pin, ref, ran, jobOnly>>

CleanupFails == Up /\ job.pc = "clean" /\ failUnlessCancelled

\* Under r.mu: no cancellation so far, and none can find the run afterwards.
PauseArtifactGate ==
    /\ Up /\ job.pc = "pause" /\ ~job.cancelled
    /\ PauseArtifactGateDeployment
    /\ AdvanceArtifactGateRun(job.at + 1)
    /\ job' = NoJob
    /\ UNCHANGED <<age, gate, chunks, pin, ref, tag, decision, cancel, stray, server,
                   faults, produced, approved, ran, accepted>>

PauseFails ==
    /\ Up /\ job.pc = "pause" /\ (job.cancelled \/ status # "publishing")
    /\ failUnlessCancelled

-----------------------------------------------------------------------------
(* Decisions.  An administrator sends the checksum of the page in front of *)
(* them, whatever it shows by now.                                         *)

decisionOnly == <<age, run, chunks, pin, ref, tag, job, cancel, stray, server, faults,
                  produced, ran>>

\* ApproveArtifact reads the gate and scans its chunks without a write lock ...
VerifyApproval(a, g, sha) ==
    /\ Up /\ decision[a] = NoDecision
    /\ GetArtifactGate(g).status = "awaiting" /\ GetArtifactGate(g).sha = sha
    /\ GetArtifactGate(g).left > 0
    /\ WriteArtifactGateBundle(g)
    /\ decision' = [decision EXCEPT ![a] = [gate |-> g, sha |-> sha]]
    /\ UNCHANGED <<status, gate, approved, accepted, decisionOnly>>

\* ... then checks everything again under the lock and resumes the deployment.
ApproveArtifact(a) ==
    /\ Up /\ decision[a] # NoDecision
    /\ ResumeArtifactGateDeployment
    /\ ApproveArtifactGate(decision[a].gate, decision[a].sha, a)
    /\ approved' = [approved EXCEPT ![decision[a].gate] = decision[a].sha]
    /\ decision' = [decision EXCEPT ![a] = NoDecision]
    /\ UNCHANGED <<accepted, decisionOnly>>

ApprovalConflicts(a) ==
    /\ Up /\ decision[a] # NoDecision
    /\ LET g == GetArtifactGate(decision[a].gate)
       IN  status # "awaiting" \/ g.status # "awaiting" \/ g.left = 0
    /\ decision' = [decision EXCEPT ![a] = NoDecision]
    /\ UNCHANGED <<status, gate, approved, accepted, decisionOnly>>

\* rejectArtifact: the deployment waits, and every awaiting gate is finished.
rejectArtifact(s) ==
    /\ status = "awaiting"
    /\ FinishArtifactGates(s)
    /\ UpdateDeploymentStatus(s)

RejectArtifactGate(g, sha) ==
    /\ Up
    /\ GetArtifactGate(g).status = "awaiting" /\ GetArtifactGate(g).left > 0
    /\ GetArtifactGate(g).sha = sha
    /\ rejectArtifact("rejected")
    /\ UNCHANGED <<run, chunks, pin, ref, tag, job, decision, cancel, stray, server,
                   faults, produced, approved, ran, accepted>>

decide == \E g \in Gates, sha \in Contents :
              \/ \E a \in Admins : VerifyApproval(a, g, sha)
              \/ RejectArtifactGate(g, sha)

-----------------------------------------------------------------------------
(* Cancellation: the status is read first and chooses what is called. *)

cancelOnly == <<run, chunks, pin, ref, tag, decision, stray, server, faults,
                produced, approved, ran>>

ReadForCancel ==
    /\ Up /\ cancel = NoCancel /\ ~accepted   \* bound: until one is accepted
    /\ status \in ActiveStatus
    /\ cancel' = status
    /\ UNCHANGED <<status, age, gate, job, accepted, cancelOnly>>

\* A run admitted between the read and the lock is cancelled as a running one.
CancelPrestart ==
    \/ /\ CancelQueuedDeployment
       /\ accepted' = TRUE /\ cancel' = NoCancel
       /\ UNCHANGED <<gate, job>>
    \/ /\ status # "pending"
       /\ cancel' = "running"
       /\ UNCHANGED <<status, age, gate, job, accepted>>

\* RejectArtifact("cancelled"), refused when the review is over.
CancelAwaiting ==
    /\ cancel' = NoCancel /\ UNCHANGED job
    /\ \/ rejectArtifact("cancelled") /\ accepted' = TRUE
       \/ status # "awaiting" /\ UNCHANGED <<status, age, gate, accepted>>

\* Runner.Cancel looks the run up under r.mu; the run may have paused by then,
\* and after the lookup the review is ended instead.
Cancel ==
    /\ IF job.registered
       THEN /\ job' = [job EXCEPT !.cancelled = TRUE]
            /\ accepted' = TRUE /\ cancel' = NoCancel
       ELSE cancel' = "unregistered" /\ UNCHANGED <<job, accepted>>
    /\ UNCHANGED <<status, age, gate>>

CancelReview == CancelAwaiting

CancelDeployment ==
    /\ Up
    /\ CASE cancel = "pending" -> CancelPrestart
         [] cancel = "awaiting" -> CancelAwaiting
         [] cancel \in {"running", "publishing"} -> Cancel
         [] cancel = "unregistered" -> CancelReview
         [] OTHER -> FALSE
    /\ UNCHANGED cancelOnly

-----------------------------------------------------------------------------
(* Maintenance, every minute and at startup *)

rest == <<run, pin, tag, job, decision, cancel, stray, faults, produced,
          approved, ran, accepted>>

maintain ==
    LET s == ExpireArtifactGateDeployments
        a == IF s # status THEN 0 ELSE age
    IN  /\ status' = s /\ age' = a
        /\ gate' = CancelTerminalArtifactGates(s, ExpireArtifactGates(s, gate))
        /\ chunks' = DeleteExpiredArtifactGateChunks(s, a)

MaintainArtifactGates ==
    /\ Up /\ maintain
    /\ UNCHANGED <<ref, server, rest>>

\* References of deployments that are not active are removed.
releaseImages ==
    ref' = IF status \in ActiveStatus THEN ref ELSE [s \in StepIds |-> None]

CleanupArtifactGateImages ==
    /\ Up /\ releaseImages
    /\ UNCHANGED <<status, age, gate, chunks, server, rest>>

-----------------------------------------------------------------------------
(* Crash and startup: reconcile the runtime, maintain, recover, serve *)

Crash ==
    /\ server # "down" /\ faults.crashes < MaxCrashes
    /\ server' = "down"
    /\ job' = NoJob /\ stray' = FALSE /\ cancel' = NoCancel
    /\ decision' = [a \in Admins |-> NoDecision]
    /\ faults' = [faults EXCEPT !.crashes = @ + 1]
    /\ UNCHANGED <<status, age, run, gate, chunks, pin, ref, tag, produced, approved,
                   ran, accepted>>

\* reconcileAttempts: with a runtime that answers, images of ended deployments
\* are released and interrupted runs fail; otherwise local work is disabled.
reconcileAttempts ==
    /\ server = "down"
    /\ \/ /\ releaseImages
          /\ status' = ConfirmContainerCleanup
          /\ server' = "reconciled"
       \/ server' = "unreconciled" /\ UNCHANGED <<status, ref>>
    /\ UNCHANGED <<age, gate, chunks, rest>>

StartupMaintain ==
    /\ server \in {"reconciled", "unreconciled"} /\ maintain
    /\ server' = IF server = "reconciled" THEN "recovering" ELSE "blind"
    /\ UNCHANGED <<ref, rest>>

\* Interrupted runs fail; without a confirmed cleanup a run that may have had
\* containers keeps its claim on the scope.
InterruptedStatus(s) ==
    IF status \in {"running", "publishing"}
    THEN s = "failed" \/ (server = "blind" /\ s = "cleanup_unconfirmed")
    ELSE s = status

recoverPendingDeployments ==
    /\ server \in {"recovering", "blind"}
    /\ \E s \in {status, "pending", "failed", "cleanup_unconfirmed"} :
           /\ InterruptedStatus(s)
           /\ status' = s
           /\ gate' = CancelTerminalArtifactGates(s, gate)
    /\ server' = "up"
    /\ UNCHANGED <<age, chunks, ref, rest>>

-----------------------------------------------------------------------------
(* Environment *)

\* External: somebody moves the tag.
Push ==
    /\ faults.pushes < MaxPushes
    /\ \E i \in Images : i > tag /\ tag' = i
    /\ faults' = [faults EXCEPT !.pushes = @ + 1]
    /\ UNCHANGED <<status, age, run, gate, chunks, pin, ref, job, decision, cancel, stray,
                   server, produced, approved, ran, accepted>>

Ticked(g) == [gate[g] EXCEPT !.left = IF @ > 0 THEN @ - 1 ELSE 0]

Tick ==
    /\ \/ \E g \in Gates : gate[g].left > 0
       \/ status \in EndStatus /\ age < Keep
    /\ gate' = [g \in Gates |-> Ticked(g)]
    /\ age' = IF status \in EndStatus /\ age < Keep THEN age + 1 ELSE age
    /\ UNCHANGED <<status, run, chunks, pin, ref, tag, job, decision, cancel, stray,
                   server, faults, produced, approved, ran, accepted>>

Init ==
    /\ status = "pending" /\ age = 0
    /\ run = [next |-> 0, claimed |-> FALSE]
    /\ gate = [g \in Gates |-> NoGate] /\ chunks = [g \in Gates |-> None]
    /\ pin = [s \in StepIds |-> None] /\ ref = [s \in StepIds |-> None]
    /\ tag = CHOOSE i \in Images : \A j \in Images : i <= j
    /\ job = NoJob /\ decision = [a \in Admins |-> NoDecision] /\ cancel = NoCancel
    /\ stray = FALSE /\ server = "up"
    /\ faults = [crashes |-> 0, pushes |-> 0, errors |-> 0]
    /\ produced = [g \in Gates |-> None] /\ approved = [g \in Gates |-> None]
    /\ ran = [s \in StepIds |-> <<>>] /\ accepted = FALSE

Run ==
    \/ BeginArtifactGateRun \/ RetainTagged \/ saveArtifactGateImage
    \/ pinArtifactGateImages \/ PinDone \/ PrepareFails \/ restoreArtifactGate
    \/ StepStarts \/ StepSucceeds \/ StepFails \/ LoopCancelled \/ RunSucceeds
    \/ captureArtifactGate \/ CaptureFails \/ cleanupArtifact \/ CleanupFails
    \/ PauseArtifactGate \/ PauseFails
Startup == reconcileAttempts \/ StartupMaintain \/ recoverPendingDeployments

Next ==
    \/ Run \/ BeginFails \/ StrayFails \/ decide
    \/ \E a \in Admins : ApproveArtifact(a) \/ ApprovalConflicts(a)
    \/ ReadForCancel \/ CancelDeployment
    \/ MaintainArtifactGates \/ CleanupArtifactGateImages
    \/ Crash \/ Startup \/ Push \/ Tick

Spec == Init /\ [][Next]_vars

-----------------------------------------------------------------------------
(* Properties *)

\* Every variable has its type.
TypeOK ==
    /\ status \in ActiveStatus \cup EndStatus /\ age \in 0..Keep
    /\ run \in [next : 0..Steps, claimed : BOOLEAN]
    /\ \A g \in Gates : gate[g].left \in 0..Life /\ gate[g].by \in Admins \cup {None}
    /\ pin \in [StepIds -> Images \cup {None}] /\ ref \in [StepIds -> Images \cup {None}]
    /\ job.at \in 0..Steps /\ job.next \in 0..Steps
    /\ server \in {"up", "down", "reconciled", "unreconciled", "recovering", "blind"}

\* docs/artifact-approval.md: a crash during execution fails the run and does not
\* replay an uncertain apply.  Whatever crashes, repeated launches and approvals
\* happen, no step of a gated deployment is started twice.
StepsAtMostOnce == \A s \in StepIds : Len(ran[s]) <= 1

\* Code after a gate runs only if an administrator approved exactly what the
\* gate's own step produced, through any stale page and any decision race
\* (ApproveArtifact, RejectArtifactGate, BeginArtifactGateRun).
ReviewedBeforeApply ==
    \A g \in Gates, s \in StepIds :
        s > g /\ ran[s] # <<>> => approved[g] # None /\ approved[g] = produced[g]

\* A continuation that executes has the approved content in its /approved
\* directory (restoreArtifactGate, DeleteExpiredArtifactGateChunks).
AppliesApproved ==
    job.pc = "exec" /\ job.next > 0 => job.context = approved[job.next - 1]

\* While a review or its continuation is open, the stored context is whole.
ContextKept ==
    status \in {"awaiting", "pending"} /\ run.next > 0
        => chunks[run.next - 1] # None /\ chunks[run.next - 1] = gate[run.next - 1].sha

\* "Stopped container references retain those exact images through approval
\* waits and restarts": a pinned image of an active deployment is retained.
PinnedImagesKept ==
    status \in ActiveStatus => \A s \in StepIds : pin[s] # None => ref[s] = pin[s]

\* An accepted cancel ends the deployment: it never waits for a review again and
\* never resumes (PauseArtifactGate and Runner.Cancel under r.mu).
CancelHolds == accepted => status \notin {"awaiting", "pending"}

\* A gate decided stays decided; an approval only lapses with its deployment.
DecisionsStay ==
    [][\A g \in Gates :
          gate[g].status \notin {"none", "awaiting"} /\ gate'[g].status # gate[g].status
              => gate[g].status = "approved" /\ gate'[g].status = "expired"
                 /\ status' = "expired"]_vars

=============================================================================
