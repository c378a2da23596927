----------------------------- MODULE RemoteStep -----------------------------
(***************************************************************************)
(* The protocol between the server and one agent: long polls, claims,      *)
(* start, heartbeats, log batches, staged output, results and cancellation *)
(* acknowledgements, over a network that loses, delays and repeats them.   *)
(* Each server action is one handler of agentserver with the transactions  *)
(* it commits; the agent is outside this repository and does what the      *)
(* protocol lets it.  Deployment d has one remote step and hence one row   *)
(* of remote_step_runs; who may hold a scope is the subject of             *)
(* DeploymentQueue.                                                        *)
(***************************************************************************)
EXTENDS Integers, FiniteSets, Sequences

CONSTANTS
    Deployment,     \* ids; (created_at, id) order is <
    Poll,           \* connections on which the agent may hold a long poll
    Cap,            \* capability reports: [modes, staging, ready]
    Needs,          \* the execution mode each deployment's step needs
    Staged,         \* deployments whose step has a staging input
    Defect,         \* "none", "limits" or "environment", by deployment
    ClaimTimeout, LostThreshold, CancelTimeout,   \* in ticks
    FirstSeq, LastSeq,  \* the agent numbers its log lines FirstSeq .. LastSeq
    Split,          \* lines that end inside a secret which the next one continues
    MaxLogEvents,   \* lines per batch and per buffer
    MaxClaims       \* bound on the number of claims ever issued

RemoteAssumption ==
    /\ Deployment \subseteq Nat
    /\ Cap \subseteq [modes : SUBSET {"host", "container"}, staging : BOOLEAN, ready : BOOLEAN]
    /\ Staged \subseteq Deployment
    /\ {ClaimTimeout, LostThreshold, CancelTimeout} \subseteq Nat \ {0}
    /\ FirstSeq \in {0, 1} /\ LastSeq \in Nat
    /\ MaxLogEvents \in Nat \ {0}

VARIABLES
    agent,      \* the agents row and its stored capabilities
    polls,      \* the capabilities each open long poll reported, or NoPoll
    run,        \* remote_step_runs, by deployment
    status,     \* deployments.status
    staging,    \* deployments whose agent output is in deployment_staging_snapshots
    claims,     \* every claim issued; its index stands for the token
    log         \* deployment_logs of the step, in id order

rvars == <<agent, polls, run, status, staging, claims, log>>

NoPoll == [modes |-> {}, staging |-> FALSE, ready |-> FALSE]
NoBuffer == [through |-> -2, suppressed |-> FALSE, tail |-> {}, gaps |-> {}]
Seqs == FirstSeq .. LastSeq
Times == {ClaimTimeout, LostThreshold, CancelTimeout}
MaxAge == CHOOSE n \in Times : \A m \in Times : m <= n
Tokens == 1 .. Len(claims)

Began == {"running", "succeeded", "failed", "cleanup_unconfirmed", "stopped"}
Active == {"waiting", "claimed", "started", "cancel_requested"}
Finished == {"succeeded", "failed", "cleanup_unconfirmed", "cancelled"}

NoRun == [state |-> "none", token |-> 0, age |-> 0, buffer |-> NoBuffer,
          confirmed |-> FALSE, dropped |-> FALSE]

-----------------------------------------------------------------------------
(* Capabilities and eligibility. *)

\* HasStagingInput: the transaction that ends a deployment purges its staging.
Input(d) == d \in Staged /\ status[d] = "running"
PurgeTerminalStaging(st) == {d \in staging : st[d] = "running"}

\* The view eligible_remote_step_agents, for the one agent.
Eligible(d) == /\ agent.status = "active"
               /\ Needs[d] \in agent.caps.modes
               /\ Input(d) => agent.caps.staging

\* recordExecutionCapabilities and recordTransferCapabilities: the report
\* replaces what is stored, except that staging support is kept.
Recorded(c) == [c EXCEPT !.staging = @ \/ agent.caps.staging]

pollCapabilitiesMatch(c, d) ==
    /\ Input(d) => c.staging
    /\ c.modes = agent.caps.modes /\ c.ready = agent.caps.ready

Unclean == \E d \in Deployment : /\ run[d].state = "cleanup_unconfirmed"
                                 /\ ~run[d].confirmed

\* ListWaitingRemoteStepRuns, its first row only.
Candidates == {d \in Deployment : /\ run[d].state = "waiting" /\ status[d] = "running"
                                  /\ Eligible(d) /\ ~Unclean}
Oldest(S) == {d \in S : \A e \in S : d <= e}

Invalid(c, d) == \/ Defect[d] = "limits"
                 \/ Defect[d] = "environment" /\ pollCapabilitiesMatch(c, d)

-----------------------------------------------------------------------------
(* Polling and claiming. *)

\* The waiting runs a report no longer supports.
FailUnsupportedWaitingRemoteStepRuns(c) ==
    {d \in Deployment : /\ run[d].state = "waiting"
                        /\ \/ Needs[d] \notin c.modes
                           \/ Input(d) /\ ~Recorded(c).staging}

ConfirmRemoteStepCleanup(c) ==
    {d \in Deployment : c.ready /\ run[d].state = "cleanup_unconfirmed"}

\* RecordAgentPollCapabilities: the effect of a report on the agent's runs.
AfterPoll(c) ==
    [d \in Deployment |->
        [run[d] EXCEPT
            !.state = IF d \in FailUnsupportedWaitingRemoteStepRuns(c) THEN "failed" ELSE @,
            !.confirmed = @ \/ d \in ConfirmRemoteStepCleanup(c)]]

PollArrives(p, c) ==
    /\ polls[p] = NoPoll
    /\ agent.status = "active"
    /\ agent' = [agent EXCEPT !.caps = Recorded(c)]
    /\ run' = AfterPoll(c)
    /\ polls' = [polls EXCEPT ![p] = c]
    /\ UNCHANGED <<status, staging, claims, log>>

\* claimRemoteStepPayload with a valid payload: the reply carries a new token.
ClaimStep(p, d) ==
    /\ polls[p] # NoPoll /\ ~agent.draining
    /\ d \in Oldest(Candidates)
    /\ ~Invalid(polls[p], d) /\ pollCapabilitiesMatch(polls[p], d)
    /\ Len(claims) < MaxClaims
    /\ claims' = Append(claims, [d |-> d, caps |-> polls[p], agent |-> "sent",
                                 granted |-> FALSE, told |-> FALSE, acked |-> {}])
    /\ run' = [run EXCEPT ![d].state = "claimed", ![d].token = Len(claims) + 1,
                          ![d].age = 0]
    /\ polls' = [polls EXCEPT ![p] = NoPoll]
    /\ UNCHANGED <<agent, status, staging, log>>

\* failInvalidRemoteSteps: the transaction fails the waiting run and the
\* deployment; the poll stays open.
ClaimInvalid(p, d) ==
    /\ polls[p] # NoPoll /\ ~agent.draining
    /\ d \in Oldest(Candidates)
    /\ Invalid(polls[p], d)
    /\ run' = [run EXCEPT ![d].state = "failed"]
    /\ status' = [status EXCEPT ![d] = "failed"]
    /\ staging' = PurgeTerminalStaging(status')
    /\ UNCHANGED <<agent, polls, claims, log>>

\* Dispatcher.Poll returns without work: errStaleAgentPoll, the 25-second
\* deadline, or a connection that went away.
PollEnds(p) ==
    /\ polls[p] # NoPoll
    /\ polls' = [polls EXCEPT ![p] = NoPoll]
    /\ UNCHANGED <<agent, run, status, staging, claims, log>>

-----------------------------------------------------------------------------
(* Requests made with a claim token.  remoteStepRun finds the row only      *)
(* while it still carries the token's hash.                                *)

Owns(t) == run[claims[t].d].token = t

StartRemoteStepRun(t) ==
    LET r == run[claims[t].d] IN
    /\ Owns(t)
    /\ r.state = "claimed" /\ r.age < ClaimTimeout
    /\ agent.status = "active"

\* The first request starts the run, a repeated one is answered again, also
\* while a cancellation is pending.
StartRemoteStep(t) ==
    LET d == claims[t].d IN
    \/ /\ Owns(t) /\ run[d].state \in {"started", "cancel_requested"}
       /\ UNCHANGED run
    \/ /\ StartRemoteStepRun(t)
       /\ run' = [run EXCEPT ![d].state = "started", ![d].token = t, ![d].age = 0]

Start(t) ==
    /\ claims[t].agent # "sent"
    /\ StartRemoteStep(t)
    /\ claims' = [claims EXCEPT ![t].granted = TRUE]
    /\ UNCHANGED <<agent, polls, status, staging, log>>

\* The agent is seen; only a run that is started has its clock reset.
HeartbeatRemoteStep(t) ==
    LET d == claims[t].d IN
    /\ Owns(t) /\ run[d].state \in {"started", "cancel_requested"}
    /\ agent.status = "active"
    /\ run' = [run EXCEPT ![d].age = IF run[d].state = "started" THEN 0 ELSE @]

\* The reply tells whether a cancellation is pending.
Heartbeat(t) ==
    LET d == claims[t].d IN
    /\ claims[t].agent \in Began
    /\ HeartbeatRemoteStep(t)
    /\ claims' = [claims EXCEPT ![t].told = @ \/ run[d].state = "cancel_requested"]
    /\ UNCHANGED <<agent, polls, status, staging, log>>

liveStagingRun(t) ==
    LET d == claims[t].d IN
    /\ Owns(t) /\ run[d].state = "started" /\ run[d].age < LostThreshold
    /\ Input(d)

\* publishStaging of a claim: the same archive again is a success.
SaveStaging(t) ==
    LET d == claims[t].d IN
    /\ claims[t].agent \in Began
    /\ liveStagingRun(t)
    /\ staging' = staging \cup {d}
    /\ UNCHANGED <<agent, polls, run, status, claims, log>>

-----------------------------------------------------------------------------
(* Log batches.  A buffer holds the lines received in order but held back   *)
(* because they may end inside a secret (tail) and the lines received ahead *)
(* of a missing one (gaps).  Lines are their sequence numbers.             *)

Published(d) == {log[d][i].seq : i \in DOMAIN log[d]}

GetLastRemoteStepLogSequence(d) ==
    CHOOSE n \in Published(d) \cup {-1} : \A m \in Published(d) : m <= n

remoteLogEventsFit(S) == Cardinality(S) <= MaxLogEvents

Expected(S, cursor) == IF cursor = -1 /\ 0 \notin S THEN 1 ELSE cursor + 1

\* The prefix of S that continues the cursor without a gap.
contiguous(S, cursor) ==
    {n \in S : \A m \in Expected(S, cursor) .. n : m \in S}

SetMax(S) == CHOOSE n \in S : \A m \in S : m <= n

Advanced(S, cursor) ==
    IF contiguous(S, cursor) = {} THEN cursor ELSE SetMax(contiguous(S, cursor))

\* validateRemoteLogGaps: the last gap is near enough to be filled.
GapsAllowed(G, cursor) ==
    /\ remoteLogEventsFit(G)
    /\ G # {} => SetMax(G) - (IF cursor = -1 THEN 1 ELSE cursor + 1) < MaxLogEvents

\* admitRemoteLogEvents: what is not yet received, with the buffered gaps.
Merged(b, S) == b.gaps \cup {n \in S : n > b.through}

Admissible(b, S) ==
    LET M == Merged(b, S) IN
    /\ remoteLogEventsFit(S)
    /\ GapsAllowed(M \ contiguous(M, b.through), Advanced(M, b.through))

\* scrubber.PendingBytes and readyEventCount: the trailing lines that are
\* the beginning of a secret.
HeldBack(S) == {n \in S : \A m \in S : m >= n => m \in Split}

decodeRemoteLogBuffer(d) ==
    IF run[d].buffer = NoBuffer
    THEN [through |-> GetLastRemoteStepLogSequence(d), suppressed |-> FALSE,
          tail |-> {}, gaps |-> {}]
    ELSE run[d].buffer

\* prepareRemoteLogEvents without flush: the lines to publish and the buffer.
prepareRemoteLogEvents(b, S) ==
    LET M == Merged(b, S)
        C == contiguous(M, b.through)
        all == b.tail \cup C
        gaps == M \ C
        tail == IF b.suppressed THEN {} ELSE HeldBack(all)
        overflow == ~remoteLogEventsFit(tail \cup gaps)
        hidden == b.suppressed \/ overflow
        kept == IF overflow THEN {} ELSE tail
    IN  [ready |-> all \ kept, hidden |-> hidden,
         buffer |-> [through |-> Advanced(M, b.through), suppressed |-> hidden,
                     tail |-> kept, gaps |-> gaps]]

\* admitRemoteLogEvents sorts the lines it admits by their numbers.
InSequence(S) ==
    CHOOSE s \in [1 .. Cardinality(S) -> S] :
        /\ \A i, j \in 1 .. Cardinality(S) : i < j => s[i] < s[j]
        /\ \A n \in S : \E i \in 1 .. Cardinality(S) : s[i] = n

\* Mutant of Lines: the rows are not inserted in sequence order.
LinesUnsorted(d, S, hidden) ==
    LET new == S \ Published(d)
        last == Cardinality(new)
    IN  log[d] \o [i \in 1 .. last |->
            [seq |-> InSequence(new)[last + 1 - i], tx |-> Len(log[d]), hidden |-> hidden]]

\* CreateRemoteStepLogSequence: insert the lines in sequence order, skipping
\* the ones already there.
Lines(d, S, hidden) ==
    LET new == S \ Published(d)
    IN  log[d] \o [i \in 1 .. Cardinality(new) |->
            [seq |-> InSequence(new)[i], tx |-> Len(log[d]), hidden |-> hidden]]

\* AppendRemoteStepLogs.
Logs(t, S) ==
    LET d == claims[t].d
        b == decodeRemoteLogBuffer(d)
        p == prepareRemoteLogEvents(b, S)
    IN  /\ claims[t].agent \in Began
        /\ Owns(t) /\ run[d].state \in {"started", "cancel_requested"}
        /\ Admissible(b, S)
        /\ log' = [log EXCEPT ![d] = Lines(d, p.ready, p.hidden)]
        /\ run' = [run EXCEPT ![d].buffer = p.buffer]
        /\ claims' = [claims EXCEPT ![t].acked = @ \cup S]
        /\ UNCHANGED <<agent, polls, status, staging>>

\* Mutant of Flushed: the buffered lines are dropped.
FlushedNothing(d) == log[d]

\* appendRemoteStepLogs with flush, in the transaction that finishes the run.
Flushed(d) ==
    LET b == decodeRemoteLogBuffer(d)
    IN  Lines(d, b.tail \cup b.gaps, b.suppressed)

-----------------------------------------------------------------------------
(* Ends of a run. *)

FinishRemoteStepRun(t, s) ==
    LET d == claims[t].d IN
    /\ Owns(t)
    /\ \/ run[d].state \in {"started", "lost", "cancel_unconfirmed"}
       \/ run[d].state = "cancel_requested" /\ s = "cleanup_unconfirmed"

\* finishRemoteStep refuses a success before the output has been published.
OutputPresent(d, s) == s = "succeeded" /\ Input(d) => d \in staging

Finish(d, s) ==
    /\ run' = [run EXCEPT ![d].state = s, ![d].buffer = NoBuffer]
    /\ log' = [log EXCEPT ![d] = Flushed(d)]
    /\ UNCHANGED <<agent, polls, status, staging, claims>>

\* FinishRemoteStepWithLogs with the outcome the agent reached.
Result(t) ==
    LET s == claims[t].agent IN
    /\ s \in {"succeeded", "failed", "cleanup_unconfirmed"}
    /\ FinishRemoteStepRun(t, s) /\ OutputPresent(claims[t].d, s)
    /\ Finish(claims[t].d, s)

AcknowledgeRemoteStepCancellation(t) ==
    /\ Owns(t)
    /\ run[claims[t].d].state \in {"cancel_requested", "cancel_unconfirmed"}

\* FinishRemoteStepWithLogs with "cancelled".
Cancelled(t) ==
    /\ claims[t].agent = "stopped"
    /\ AcknowledgeRemoteStepCancellation(t)
    /\ Finish(claims[t].d, "cancelled")

-----------------------------------------------------------------------------
(* The rest of the server. *)

QueueRun(d) ==
    /\ run[d].state = "none" /\ status[d] = "running" /\ Eligible(d)
    /\ run' = [run EXCEPT ![d].state = "waiting"]
    /\ UNCHANGED <<agent, polls, status, staging, claims, log>>

\* Mutant of RequestCancel: the run is cancelled without the agent.
CancelAtOnce(d) ==
    /\ run[d].state \in {"waiting", "claimed", "started"}
    /\ run' = [run EXCEPT ![d].state = "cancelled"]
    /\ UNCHANGED <<agent, polls, status, staging, claims, log>>

RequestCancel(d) ==
    /\ run[d].state \in {"waiting", "claimed", "started"}
    /\ run' = [run EXCEPT ![d].state = IF @ = "waiting" THEN "cancelled"
                                       ELSE "cancel_requested",
                          ![d].age = 0]
    /\ UNCHANGED <<agent, polls, status, staging, claims, log>>

\* Mutant of LoseStaleRemoteStepRuns: a silent agent keeps its started run.
LoseNothing(r) == FALSE

\* Giving up on a run drops its buffer.
GivenUp(r, s) == [r EXCEPT !.state = s, !.buffer = NoBuffer, !.dropped = TRUE]

\* Mutant of Expired: the work of a silent agent is offered again.
ExpiredStarted(r) ==
    CASE r.state \in {"claimed", "started"} /\ r.age >= ClaimTimeout ->
            [r EXCEPT !.state = "waiting", !.token = 0, !.age = 0]
      [] r.state = "cancel_requested" /\ r.age >= CancelTimeout ->
            GivenUp(r, "cancel_unconfirmed")
      [] OTHER -> r

ExpireRemoteStepClaims(r) == r.state = "claimed" /\ r.age >= ClaimTimeout
ExpireRemoteStepCancellations(r) == r.state = "cancel_requested" /\ r.age >= CancelTimeout
LoseStaleRemoteStepRuns(r) == r.state = "started" /\ r.age >= LostThreshold

Expired(r) ==
    CASE ExpireRemoteStepClaims(r) -> [r EXCEPT !.state = "waiting", !.token = 0, !.age = 0]
      [] ExpireRemoteStepCancellations(r) -> GivenUp(r, "cancel_unconfirmed")
      [] LoseStaleRemoteStepRuns(r) -> GivenUp(r, "lost")
      [] OTHER -> r

\* FailDeploymentsWithTerminalRemoteStepRuns.
FailTerminal(st, rn) ==
    [d \in Deployment |->
        IF rn[d].state = "cleanup_unconfirmed" /\ st[d] \in {"running", "failed"}
        THEN "cleanup_unconfirmed"
        ELSE IF rn[d].state \in {"failed", "lost", "cancel_unconfirmed"} /\ st[d] = "running"
        THEN "failed" ELSE st[d]]

Maintain ==
    LET rn == [d \in Deployment |-> Expired(run[d])] IN
    /\ run' = rn
    /\ status' = FailTerminal(status, rn)
    /\ staging' = PurgeTerminalStaging(status')
    /\ UNCHANGED <<agent, polls, claims, log>>

\* The runner's completion, once it has seen the run end.
Complete(d) ==
    /\ status[d] = "running" /\ run[d].state \in {"succeeded", "failed", "cancelled"}
    /\ status' = [status EXCEPT ![d] = run[d].state]
    /\ staging' = PurgeTerminalStaging(status')
    /\ UNCHANGED <<agent, polls, run, claims, log>>

SetDraining(b) ==
    /\ agent.status = "active" /\ agent.draining # b
    /\ agent' = [agent EXCEPT !.draining = b]
    /\ UNCHANGED <<polls, run, status, staging, claims, log>>

\* Mutant of RevokeAgentRemoteStepRuns: runs that have ended are given up, too.
RevokedFinished(r) == IF r.token # 0 THEN GivenUp(r, "lost") ELSE r

RevokeAgentRemoteStepRuns(r) ==
    IF r.state = "waiting" THEN [r EXCEPT !.state = "failed"]
    ELSE IF r.state \in Active THEN GivenUp(r, "lost") ELSE r

RevokeAgent ==
    LET rn == [d \in Deployment |-> RevokeAgentRemoteStepRuns(run[d])]
    IN  /\ agent.status = "active"
        /\ agent' = [agent EXCEPT !.status = "revoked"]
        /\ run' = rn
        /\ status' = FailTerminal(status, rn)
        /\ staging' = PurgeTerminalStaging(status')
        /\ UNCHANGED <<polls, claims, log>>

Tick ==
    /\ \E d \in Deployment : run[d].age < MaxAge
    /\ run' = [d \in Deployment |-> [run[d] EXCEPT !.age = IF @ < MaxAge THEN @ + 1 ELSE @]]
    /\ UNCHANGED <<agent, polls, status, staging, claims, log>>

-----------------------------------------------------------------------------
(* The agent (external).  A reply reaches it late or never; it executes a   *)
(* claim at most once, after a positive reply to start.                    *)

AgentStep(t, from, to) ==
    /\ claims[t].agent = from
    /\ claims' = [claims EXCEPT ![t].agent = to]
    /\ UNCHANGED <<agent, polls, run, status, staging, log>>

AgentReceives(t) == AgentStep(t, "sent", "held")
AgentBegins(t) == claims[t].granted /\ AgentStep(t, "held", "running")
AgentEnds(t, s) == AgentStep(t, "running", s)
AgentStops(t) == claims[t].told /\ AgentStep(t, "running", "stopped")

-----------------------------------------------------------------------------

Init ==
    /\ agent \in {[status |-> "active", draining |-> FALSE, caps |-> c] : c \in Cap}
    /\ polls = [p \in Poll |-> NoPoll]
    /\ run = [d \in Deployment |-> NoRun]
    /\ status = [d \in Deployment |-> "running"]
    /\ staging = {}
    /\ claims = <<>>
    /\ log = [d \in Deployment |-> <<>>]

Next ==
    \/ \E p \in Poll : \/ \E c \in Cap : PollArrives(p, c)
                       \/ \E d \in Deployment : ClaimStep(p, d) \/ ClaimInvalid(p, d)
                       \/ PollEnds(p)
    \/ \E t \in Tokens :
        \/ Start(t) \/ Heartbeat(t) \/ SaveStaging(t) \/ Result(t) \/ Cancelled(t)
        \/ \E S \in (SUBSET Seqs) \ {{}} : Logs(t, S)
        \/ AgentReceives(t) \/ AgentBegins(t) \/ AgentStops(t)
        \/ \E s \in {"succeeded", "failed", "cleanup_unconfirmed"} : AgentEnds(t, s)
    \/ \E d \in Deployment : QueueRun(d) \/ RequestCancel(d) \/ Complete(d)
    \/ \E b \in BOOLEAN : SetDraining(b)
    \/ Maintain \/ RevokeAgent \/ Tick

\* Time passes and the maintenance loop of cmd/server runs; nothing is
\* assumed of the agent or the network.
RemoteSpec == Init /\ [][Next]_rvars /\ WF_rvars(Maintain) /\ WF_rvars(Tick)

-----------------------------------------------------------------------------
(* Properties. *)

RemoteTypeOK ==
    /\ agent \in [status : {"active", "revoked"}, draining : BOOLEAN,
                  caps : [modes : {c.modes : c \in Cap}, staging : BOOLEAN, ready : BOOLEAN]]
    /\ staging \subseteq Staged
    /\ \A d \in Deployment :
        /\ run[d].state \in Active \cup Finished \cup {"none", "lost", "cancel_unconfirmed"}
        /\ run[d].token \in 0 .. Len(claims)
        /\ run[d].age \in 0 .. MaxAge

\* A step is executed under at most one claim, whatever is lost, repeated or
\* late: a claim that expired is never started, and started work is never
\* offered again (docs/agent-protocol.md "started work is never ... replayed").
ExecutesOnce ==
    \A t, u \in Tokens :
        /\ claims[t].d = claims[u].d
        /\ claims[t].agent \in Began
        /\ claims[u].agent \in Began
        => t = u

\* What a finished run records is what the agent that executed it reached:
\* FinishRemoteStep and the acknowledgement of a cancellation accept only the
\* claim that owns the row.
OutcomeHonest ==
    \A t \in Tokens :
        LET r == run[claims[t].d] IN
        /\ r.token = t
        /\ r.state \in Finished
        => claims[t].agent = (IF r.state = "cancelled" THEN "stopped" ELSE r.state)

\* A recorded outcome is final: late, repeated and contradicting reports,
\* cancellation requests, expiry and revocation leave it alone.
OutcomeStays ==
    [][\A d \in Deployment : run[d].state \in Finished => run'[d].state = run[d].state]_rvars

\* A claim goes only to a poll that reported what the step needs, although the
\* agent may hold an older poll open while a newer one replaced its report.
ClaimFits ==
    \A t \in Tokens : /\ Needs[claims[t].d] \in claims[t].caps.modes
                      /\ claims[t].d \in Staged => claims[t].caps.staging

\* While the deployment runs, a staged step that succeeded has its output: the
\* runner merges the outputs without asking the agent again.
SuccessHasOutput ==
    \A d \in Deployment :
        Input(d) /\ run[d].state = "succeeded" => d \in staging

\* What a run says is backed: its claim went to a poll that fits it, its outcome
\* is the one its agent reached, and a success has the output the next step
\* reads.
OutcomeBacked == ClaimFits /\ OutcomeHonest /\ SuccessHasOutput

\* Lines are published once and in the order the agent numbered them.
LogOrdered ==
    \A d \in Deployment : \A i, j \in DOMAIN log[d] :
        i < j => log[d][i].seq < log[d][j].seq

\* Every line the server acknowledged is published when the run finishes,
\* unless the server had given the run up.
AcknowledgedPublished ==
    \A t \in Tokens :
        LET d == claims[t].d IN
        /\ run[d].token = t
        /\ run[d].state \in Finished
        /\ ~run[d].dropped
        => claims[t].acked \subseteq Published(d)

\* Two lines a secret spans are never published apart in the clear: redaction
\* sees a secret only when both lines are scrubbed in one transaction.
SecretWhole ==
    \A d \in Deployment : \A i, j \in DOMAIN log[d] :
        /\ log[d][i].seq \in Split
        /\ log[d][j].seq = log[d][i].seq + 1
        => \/ log[d][i].tx = log[d][j].tx
           \/ log[d][i].hidden \/ log[d][j].hidden

\* A stored buffer always passes validateRemoteLogState when it is read back;
\* otherwise every later batch and the result itself would be refused.
BufferReadable ==
    \A d \in Deployment :
        LET b == run[d].buffer
            last == GetLastRemoteStepLogSequence(d)
        IN  b # NoBuffer =>
            /\ last <= b.through
            /\ b.suppressed => b.tail = {}
            /\ remoteLogEventsFit(b.tail \cup b.gaps)
            /\ b.tail = contiguous(b.tail, last)
            /\ Advanced(b.tail, last) = b.through
            /\ \A n \in b.gaps : n > b.through
            /\ contiguous(b.gaps, b.through) = {}
            /\ GapsAllowed(b.gaps, b.through)

\* However batches are cut, repeated and reordered, the log of a run is in order,
\* no secret was published in parts, and the buffered rest can be read again.
LogHolds == LogOrdered /\ SecretWhole /\ BufferReadable

=============================================================================
