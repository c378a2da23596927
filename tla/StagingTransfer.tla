-------------------------- MODULE StagingTransfer --------------------------
(***************************************************************************)
(* The transfers of staged files between the server and the agents of one  *)
(* step.                                                                   *)
(*                                                                         *)
(* An agent downloads the input of its step and uploads its output, with   *)
(* repeated and overlapping requests.  Admission is limited per agent and  *)
(* over all agents.  The runner charges each agent for the time of the     *)
(* step in which none of its transfers was open.  When all agents          *)
(* succeeded it merges their outputs and deletes what was staged.          *)
(***************************************************************************)
EXTENDS Naturals, Integers, FiniteSets

CONSTANTS Agents,
          Requests,  \* requests of agents
          Outputs,   \* contents an agent may upload
          PerAgent,  \* Limits.Transfer.PerAgent
          Global,    \* Limits.Transfer.Global
          Timeout,   \* the timeout of the step, in ticks
          MaxTime,   \* bound: ticks
          Drains     \* an agent may be draining

TransferAssumption ==
    /\ PerAgent \in Nat \ {0} /\ Global \in Nat \ {0}
    /\ Timeout \in Nat \ {0} /\ MaxTime \in Nat /\ Drains \in BOOLEAN

None == 0

VARIABLES request,  \* the requests: what they want and how far they are
          admitted, \* transfers.admitted, per agent
          active,   \* transfers.active
          timer,    \* transfers.runs: open transfers and their time, per agent
          run,      \* the agent's run: "waiting", "claimed", "started", ...
          draining, \* draining agents
          stored,   \* the output saved for an agent
          input,    \* the input of the step is staged
          now,      \* time
          wait,     \* the runner's loop: last check, budgets, transfer times
          idle      \* ghost: time without an open transfer, now and at the last check

vars == <<request, admitted, active, timer, run, draining, stored, input, now, wait, idle>>
transfers == <<admitted, active, timer>>

Active == {"waiting", "claimed", "started", "cancel_requested"}
NoRequest == [pc |-> "none", agent |-> None, upload |-> FALSE, output |-> None, orphan |-> FALSE]
NoTimer == [open |-> 0, started |-> 0, elapsed |-> 0]

Of(a) == {r \in Requests : request[r].agent = a}
\* Requests of an agent whose timer runs.
Timed(a) == {r \in Of(a) : request[r].pc \in {"open", "saved"}}

-----------------------------------------------------------------------------
(* The run of an agent *)

Move(a, from, to) ==
    /\ run[a] \in from
    /\ run' = [run EXCEPT ![a] = to]
    /\ UNCHANGED <<request, transfers, draining, stored, input, now, wait, idle>>

Claim(a) == wait.pc = "polling" /\ a \notin draining /\ Move(a, {"waiting"}, "claimed")
ClaimExpires(a) == Move(a, {"claimed"}, "waiting")
Start(a) == Move(a, {"claimed"}, "started")
Lost(a) == Move(a, {"started"}, "lost")
Unconfirmed(a) == Move(a, {"cancel_requested"}, "cancel_unconfirmed")
Cancelled(a) == Move(a, {"cancel_requested", "cancel_unconfirmed"}, "cancelled")
\* finishRemoteStep: a success needs the output.
Finishable == {"started", "lost", "cancel_unconfirmed"}
Succeed(a) == (input => stored[a] # None) /\ Move(a, Finishable, "succeeded")
Fail(a) == Move(a, Finishable, "failed")

Drain(a) ==
    /\ Drains
    /\ draining' = IF a \in draining THEN draining \ {a} ELSE draining \cup {a}
    /\ UNCHANGED <<request, transfers, run, stored, input, now, wait, idle>>

-----------------------------------------------------------------------------
(* Requests *)

\* liveStagingRun: the claim is live and the step has an input.
liveStagingRun(a) == run[a] \in {"claimed", "started"} /\ input

\* DownloadStaging and UploadStaging check the claim, an upload also the start.
Arrive(r, a, upload, o) ==
    /\ request[r].pc = "none" /\ liveStagingRun(a)
    /\ upload => run[a] = "started"
    /\ request' = [request EXCEPT ![r] = [NoRequest EXCEPT !.pc = "live", !.agent = a,
                      !.upload = upload, !.output = o]]
    /\ UNCHANGED <<transfers, run, draining, stored, input, now, wait, idle>>

Room(a) == admitted[a] < PerAgent /\ active < Global

\* A rejected request waits for nothing and may be repeated.
Reject(r) ==
    /\ request[r].pc = "live" /\ ~Room(request[r].agent)
    /\ request' = [request EXCEPT ![r] = NoRequest]
    /\ UNCHANGED <<transfers, run, draining, stored, input, now, wait, idle>>

TryBeginStagingTransfer(r) ==
    /\ request[r].pc = "live" /\ Room(request[r].agent)
    /\ request' = [request EXCEPT ![r].pc = "admitted"]
    /\ admitted' = [admitted EXCEPT ![request[r].agent] = @ + 1]
    /\ active' = active + 1
    /\ UNCHANGED <<timer, run, draining, stored, input, now, wait, idle>>

MutantBegun(t) == [t EXCEPT !.open = @ + 1, !.started = now]
\* The time of overlapping requests counts once.
Begun(t) == [t EXCEPT !.open = @ + 1, !.started = IF t.open = 0 THEN now ELSE @]

BeginStagingTransfer(r) ==
    /\ request[r].pc = "admitted"
    /\ request' = [request EXCEPT ![r].pc = "open"]
    /\ timer' = [timer EXCEPT ![request[r].agent] = Begun(@)]
    /\ UNCHANGED <<admitted, active, run, draining, stored, input, now, wait, idle>>

\* publishStaging validates the claim again, in the transaction that saves.
LiveClaim(r) == liveStagingRun(request[r].agent) /\ run[request[r].agent] = "started"

First(r) == stored[request[r].agent] \in {None, request[r].output}

\* publishStaging: the first output stays; the same one again is a success.
publishStaging(r) ==
    /\ request[r].pc = "open" /\ request[r].upload
    /\ request' = [request EXCEPT ![r].pc = "saved"]
    /\ stored' = IF LiveClaim(r) /\ First(r)
                 THEN [stored EXCEPT ![request[r].agent] = request[r].output] ELSE stored
    /\ UNCHANGED <<transfers, run, draining, input, now, wait, idle>>

Ended(t) == [t EXCEPT !.open = @ - 1,
                      !.elapsed = IF t.open = 1 THEN @ + (now - t.started) ELSE @]

\* The completion function, on every way out of the handler.  A timer that
\* was cleared meanwhile is nobody's.
Finish(r) ==
    /\ request[r].pc \in {"open", "saved"}
    /\ timer' = IF request[r].orphan THEN timer
                ELSE [timer EXCEPT ![request[r].agent] = Ended(@)]
    /\ active' = active - 1
    /\ admitted' = [admitted EXCEPT ![request[r].agent] = @ - 1]
    /\ request' = [request EXCEPT ![r] = NoRequest]
    /\ UNCHANGED <<run, draining, stored, input, now, wait, idle>>

-----------------------------------------------------------------------------
(* The runner *)

Tick ==
    /\ now < MaxTime
    /\ now' = now + 1
    /\ idle' = [a \in Agents |-> [idle[a] EXCEPT !.now = IF Timed(a) = {} THEN @ + 1 ELSE @]]
    /\ UNCHANGED <<request, transfers, run, draining, stored, input, wait>>

StagingTransferDuration(a) ==
    timer[a].elapsed + (IF timer[a].open > 0 THEN now - timer[a].started ELSE 0)

\* Maintenance pauses a target that waits, not one that was issued.
Charged(a) == run[a] \in Active /\ (run[a] # "waiting" \/ a \notin draining)

AtLeast0(n) == IF n < 0 THEN 0 ELSE n
Budget(a) ==
    wait.remaining[a] - AtLeast0((now - wait.checked)
                                 - (StagingTransferDuration(a) - wait.transferred[a]))

Expired(left) == \E a \in Agents : run[a] \in Active /\ left[a] <= 0
Failed == \E a \in Agents : run[a] \notin Active \cup {"succeeded"}

\* One round of the loop of runRemoteStep.
Poll ==
    /\ wait.pc = "polling" /\ now > wait.checked
    /\ LET left == [a \in Agents |-> IF Charged(a) THEN Budget(a) ELSE wait.remaining[a]] IN
       wait' = [wait EXCEPT !.checked = now, !.remaining = left,
                   !.transferred = [a \in Agents |-> IF Charged(a) THEN StagingTransferDuration(a)
                                                     ELSE wait.transferred[a]],
                   !.cancelling = @ \/ Expired(left) \/ Failed]
    /\ idle' = [a \in Agents |-> IF run[a] \in Active
                                 THEN [idle[a] EXCEPT !.checked = idle[a].now] ELSE idle[a]]
    /\ UNCHANGED <<request, transfers, run, draining, stored, input, now>>

\* The operator cancels the deployment.
CancelSignal ==
    /\ wait.pc = "polling" /\ ~wait.cancelling
    /\ wait' = [wait EXCEPT !.cancelling = TRUE]
    /\ UNCHANGED <<request, transfers, run, draining, stored, input, now, idle>>

\* An expired, failed or cancelled step: what waits is cancelled, the agents
\* that work are asked to stop.
RequestRemoteStepCancellation ==
    /\ wait.pc = "polling" /\ wait.cancelling
    /\ \E a \in Agents : run[a] \in {"waiting", "claimed", "started"}
    /\ run' = [a \in Agents |-> IF run[a] = "waiting" THEN "cancelled"
                               ELSE IF run[a] \in {"claimed", "started"} THEN "cancel_requested"
                               ELSE run[a]]
    /\ UNCHANGED <<request, transfers, draining, stored, input, now, wait, idle>>

\* runRemoteStep returns: ClearStagingTransfers forgets the timers.
Return ==
    /\ wait.pc = "polling" /\ \A a \in Agents : run[a] \notin Active
    /\ wait' = [wait EXCEPT !.pc = IF \A a \in Agents : run[a] = "succeeded" THEN "merge"
                                   ELSE "failed"]
    /\ timer' = [a \in Agents |-> NoTimer]
    /\ request' = [r \in Requests |-> [request[r] EXCEPT
                      !.orphan = request[r].pc \in {"open", "saved"}]]
    /\ UNCHANGED <<admitted, active, run, draining, stored, input, now, idle>>

\* mergeRemoteStaging: the outputs are merged, DeleteStepStaging removes them.
Merge ==
    /\ wait.pc = "merge"
    /\ wait' = [wait EXCEPT !.pc = "merged"]
    /\ stored' = [a \in Agents |-> None] /\ input' = FALSE
    /\ UNCHANGED <<request, transfers, run, draining, now, idle>>

\* Outputs conflict or exceed the limits: the step fails.
MergeFails ==
    /\ wait.pc = "merge"
    /\ wait' = [wait EXCEPT !.pc = "failed"]
    /\ UNCHANGED <<request, transfers, run, draining, stored, input, now, idle>>

\* PurgeTerminalStaging: the deployment ended.
Purge ==
    /\ wait.pc = "failed"
    /\ wait' = [wait EXCEPT !.pc = "purged"]
    /\ stored' = [a \in Agents |-> None] /\ input' = FALSE
    /\ UNCHANGED <<request, transfers, run, draining, now, idle>>

-----------------------------------------------------------------------------
Init ==
    /\ request = [r \in Requests |-> NoRequest]
    /\ admitted = [a \in Agents |-> 0] /\ active = 0 /\ timer = [a \in Agents |-> NoTimer]
    /\ run = [a \in Agents |-> "waiting"] /\ draining = {}
    /\ stored = [a \in Agents |-> None] /\ input = TRUE /\ now = 0
    /\ wait = [pc |-> "polling", checked |-> 0, remaining |-> [a \in Agents |-> Timeout],
               transferred |-> [a \in Agents |-> 0], cancelling |-> FALSE]
    /\ idle = [a \in Agents |-> [now |-> 0, checked |-> 0]]

Next ==
    \/ \E a \in Agents : \/ Claim(a) \/ ClaimExpires(a) \/ Start(a) \/ Succeed(a) \/ Fail(a)
                         \/ Lost(a) \/ Unconfirmed(a) \/ Cancelled(a) \/ Drain(a)
    \/ \E r \in Requests, a \in Agents :
           \/ Arrive(r, a, FALSE, None)
           \/ \E o \in Outputs : Arrive(r, a, TRUE, o)
    \/ \E r \in Requests : \/ Reject(r) \/ TryBeginStagingTransfer(r)
                           \/ BeginStagingTransfer(r) \/ publishStaging(r) \/ Finish(r)
    \/ Tick \/ Poll \/ CancelSignal \/ RequestRemoteStepCancellation
    \/ Return \/ Merge \/ MergeFails \/ Purge

Spec == Init /\ [][Next]_vars

-----------------------------------------------------------------------------
(* Properties *)

\* Timers and budgets are what they can be.
TypeOK ==
    /\ active \in 0..Cardinality(Requests)
    /\ \A a \in Agents : /\ admitted[a] \in 0..Cardinality(Requests)
                         /\ timer[a].open \in 0..Cardinality(Requests)
                         /\ timer[a].elapsed \in 0..now
                         /\ wait.remaining[a] \in (0 - MaxTime)..Timeout

\* Limits hold, and what is counted is exactly what is open: an agent never stays
\* locked out (TryBeginStagingTransfer and its completion function).
Holders(a) == {r \in Of(a) : request[r].pc \in {"admitted", "open", "saved"}}
LimitsHold ==
    /\ active = Cardinality(UNION {Holders(a) : a \in Agents}) /\ active <= Global
    /\ \A a \in Agents : admitted[a] = Cardinality(Holders(a)) /\ admitted[a] <= PerAgent

\* An agent is never charged for time in which one of its transfers was open,
\* whatever overlaps (StagingTransferDuration, runRemoteStep).
TransfersAreFree == \A a \in Agents : wait.remaining[a] >= Timeout - idle[a].checked

\* Time without a transfer is charged, once: transfers do not stretch a step
\* beyond their own time (runRemoteStep).
IdleIsCharged == \A a \in Agents : wait.remaining[a] <= Timeout - idle[a].checked

\* After the merge, or the end of the deployment, nothing is staged any more,
\* whatever uploads were under way (publishStaging).
NothingLeft == ~input => \A a \in Agents : stored[a] = None

\* An output that was saved is the one that is merged (publishStaging).
OutputStays ==
    [][\A a \in Agents : stored[a] # None /\ input' => stored'[a] = stored[a]]_vars
=============================================================================
