---------------------------- MODULE MCEventually ----------------------------
(*****************************************************************************)
(* What the loops of the server bring about in the end: the maintenance      *)
(* ticker, the scheduler, the followers of logs and the health monitor, each *)
(* with the fairness its loop has.  A behaviour is about one of them; the    *)
(* safety of the same parts is checked by MCRemoteStep, MCIdentity,          *)
(* MCDelivery and MCOperations.                                              *)
(*****************************************************************************)
EXTENDS Naturals, FiniteSets, Sequences, TLC

CONSTANTS
    p1, i1, e1, v1, u1, t1, c1, a1, d1, none

VARIABLES
    subject,  \* the part a behaviour is about: it never changes
    agent, polls, run, status, staging, claims, log, pairing, caps, work, age,
    challenges, req, listener, restarts, confirmed, admitted, activated, alarm,
    renamed, now, sched, target, gate, tick, ask, fired, refused, stops, book,
    versions, execs, rsched, place, chunks, pin, ref, tag, job, decision,
    cancel, stray, server, faults, produced, approved, ran, accepted, rows,
    kind, last, writer, lock, active, stream, wakeups, client, access, seconds,
    late, drops, setting, edit, deployment, check, cancelled, passed

everything == <<subject,
    agent, polls, run, status, staging, claims, log, pairing, caps, work, age,
    challenges, req, listener, restarts, confirmed, admitted, activated, alarm,
    renamed, now, sched, target, gate, tick, ask, fired, refused, stops, book,
    versions, execs, rsched, place, chunks, pin, ref, tag, job, decision,
    cancel, stray, server, faults, produced, approved, ran, accepted, rows,
    kind, last, writer, lock, active, stream, wakeups, client, access, seconds,
    late, drops, setting, edit, deployment, check, cancelled, passed>>
On(part) == subject = part

Old == [modes |-> {"host"}, staging |-> FALSE, ready |-> FALSE]
New == [modes |-> {"host", "container"}, staging |-> TRUE, ready |-> TRUE]
AllFormats == {"structured", "sse", "ndjson"}
\* One check of each kind, and a save that does not name the check.
FewRequests ==
    {[kind |-> "none", target |-> "blank", timeout |-> "default"],
     [kind |-> "http", target |-> "url", timeout |-> "default"],
     [kind |-> "bash", target |-> "script", timeout |-> "default"],
     [kind |-> "absent", target |-> "absent", timeout |-> "absent"]}

-----------------------------------------------------------------------------
\* An agent claims a step and may never answer again.
Claims == INSTANCE RemoteStep WITH Deployment <- {1}, Poll <- {p1}, Cap <-
    {Old, New}, Needs <- <<"container">>, Staged <- {1}, Defect <- <<"none">>,
    ClaimTimeout <- 2, LostThreshold <- 2, CancelTimeout <- 1, FirstSeq <- 1,
    LastSeq <- 0, Split <- {}, MaxLogEvents <- 1, MaxClaims <- 1
\* An agent is heard of and falls silent.
Health == INSTANCE Pairing WITH Ids <- {i1}, Endpoints <- {e1}, Pins <- {p1},
    Codes <- {p1}, Labels <- {}, Environments <- {}, None <- none, MaxRequests
    <- 2, MaxRestarts <- 0, StaleAfter <- 1, OfflineAfter <- 2, Start <- {},
    Ops <- {"pair", "retry", "poll", "revoke", "drain", "health"}
\* A schedule comes due, and the server stops once.
Firing == INSTANCE Schedules WITH Server <- {v1}, Sched <- {1}, User <- {u1},
    Target <- {t1}, Cron <- {1}, First <- 0, MaxTime <- 2, MaxArm <- 1, MaxStop
    <- 1
\* The scheduled version of a runbook is legacy, misconfigured or fine.
Books == INSTANCE Runbooks WITH Book <- {1}, RSched <- {1}, Server <- {v1},
    User <- {u1}, Step <- {"ok", "legacy", "config"}, Gates <- {"open",
    "blocked"}, MaxVer <- 1, MaxExec <- 1, MaxTime <- 1
\* One gate, an administrator and a crash.
Review == INSTANCE ArtifactGate WITH Steps <- 2, Gates <- {0}, Contents <-
    {c1}, Images <- {1}, Admins <- {a1}, None <- none, Life <- 1, Keep <- 1,
    MaxCrashes <- 1, MaxPushes <- 0, MaxErrors <- 0
\* A client that reads.
Follow == INSTANCE LogStream WITH Clients <- {c1}, Formats <- {"sse"}, MaxRows
    <- 2, MaxDrops <- 0, Buffer <- 1, Batch <- 1
\* A client that may stop reading.
Stalled == INSTANCE LogStream WITH Clients <- {c1}, Formats <- AllFormats,
    MaxRows <- 1, MaxDrops <- 0, Buffer <- 1, Batch <- 1
\* Deployments with checks end in every way.
Verify == INSTANCE Environments WITH Request <- FewRequests, Edit <- {},
    Deployment <- {d1}, MaxRestarts <- 1

ASSUME Instances ==
    /\ Claims!RemoteAssumption
    /\ Health!PairingAssumption
    /\ Firing!ScheduleAssumption
    /\ Books!RunbookAssumption
    /\ Review!ArtifactGateAssumption
    /\ Follow!LogStreamAssumption
    /\ Stalled!LogStreamAssumption
    /\ Verify!EnvironmentAssumption

\* The variables of the other parts, which a behaviour leaves alone.
beyondRemoteStep == <<pairing, caps, work, age, challenges, req, listener, restarts, confirmed,
    admitted, activated, alarm, renamed, now, sched, target, gate, tick, ask,
    fired, refused, stops, book, versions, execs, rsched, place, chunks, pin,
    ref, tag, job, decision, cancel, stray, server, faults, produced, approved,
    ran, accepted, rows, kind, last, writer, lock, active, stream, wakeups,
    client, access, seconds, late, drops, setting, edit, deployment, check,
    cancelled, passed>>
beyondPairing == <<polls, run, status, staging, claims, log, now, sched, target, gate, tick,
    ask, fired, refused, stops, book, versions, execs, rsched, place, chunks,
    pin, ref, tag, job, decision, cancel, stray, server, faults, produced,
    approved, ran, accepted, rows, kind, last, writer, lock, active, stream,
    wakeups, client, access, seconds, late, drops, setting, edit, deployment,
    check, cancelled, passed>>
beyondSchedules == <<agent, polls, run, status, staging, claims, log, pairing, caps, work, age,
    challenges, req, listener, restarts, confirmed, admitted, activated, alarm,
    renamed, book, versions, execs, rsched, place, chunks, pin, ref, tag, job,
    decision, cancel, stray, server, faults, produced, approved, ran, accepted,
    rows, kind, last, writer, lock, active, stream, wakeups, client, access,
    seconds, late, drops, setting, edit, deployment, check, cancelled, passed>>
beyondRunbooks == <<agent, polls, run, status, staging, claims, log, pairing, caps, work, age,
    challenges, req, listener, restarts, confirmed, admitted, activated, alarm,
    renamed, sched, target, fired, refused, stops, chunks, pin, ref, tag, job,
    decision, cancel, stray, server, faults, produced, approved, ran, accepted,
    rows, kind, last, writer, lock, active, stream, wakeups, client, access,
    seconds, late, drops, setting, edit, deployment, check, cancelled, passed>>
beyondArtifactGate == <<agent, polls, staging, claims, log, pairing, caps, work, challenges, req,
    listener, restarts, confirmed, admitted, activated, alarm, renamed, now,
    sched, target, tick, ask, fired, refused, stops, book, versions, execs,
    rsched, place, rows, kind, last, writer, lock, active, stream, wakeups,
    client, access, seconds, late, drops, setting, edit, deployment, check,
    cancelled, passed>>
beyondLogStream == <<agent, polls, run, staging, claims, log, pairing, caps, work, age,
    challenges, req, listener, restarts, confirmed, admitted, activated, alarm,
    renamed, now, sched, target, gate, tick, ask, fired, refused, stops, book,
    versions, execs, rsched, place, chunks, pin, ref, tag, job, decision,
    cancel, stray, server, faults, produced, approved, ran, accepted, setting,
    edit, deployment, check, cancelled, passed>>
beyondEnvironments == <<agent, polls, status, staging, claims, log, pairing, caps, work, age,
    challenges, req, listener, confirmed, admitted, activated, alarm, renamed,
    now, sched, target, gate, tick, ask, fired, refused, stops, book, versions,
    execs, rsched, chunks, pin, ref, tag, job, decision, cancel, stray, server,
    faults, produced, approved, ran, accepted, rows, kind, last, writer, lock,
    active, stream, wakeups, client, access, seconds, late, drops>>

WithoutRemoteStep ==
    /\ pairing = 0 /\ caps = 0 /\ work = 0 /\ age = 0 /\ challenges = 0
    /\ req = 0 /\ listener = 0 /\ restarts = 0 /\ confirmed = 0
    /\ admitted = 0 /\ activated = 0 /\ alarm = 0 /\ renamed = 0 /\ now = 0
    /\ sched = 0 /\ target = 0 /\ gate = 0 /\ tick = 0 /\ ask = 0 /\ fired = 0
    /\ refused = 0 /\ stops = 0 /\ book = 0 /\ versions = 0 /\ execs = 0
    /\ rsched = 0 /\ place = 0 /\ chunks = 0 /\ pin = 0 /\ ref = 0 /\ tag = 0
    /\ job = 0 /\ decision = 0 /\ cancel = 0 /\ stray = 0 /\ server = 0
    /\ faults = 0 /\ produced = 0 /\ approved = 0 /\ ran = 0 /\ accepted = 0
    /\ rows = 0 /\ kind = 0 /\ last = 0 /\ writer = 0 /\ lock = 0
    /\ active = 0 /\ stream = 0 /\ wakeups = 0 /\ client = 0 /\ access = 0
    /\ seconds = 0 /\ late = 0 /\ drops = 0 /\ setting = 0 /\ edit = 0
    /\ deployment = 0 /\ check = 0 /\ cancelled = 0 /\ passed = 0
WithoutPairing ==
    /\ polls = 0 /\ run = 0 /\ status = 0 /\ staging = 0 /\ claims = 0
    /\ log = 0 /\ now = 0 /\ sched = 0 /\ target = 0 /\ gate = 0 /\ tick = 0
    /\ ask = 0 /\ fired = 0 /\ refused = 0 /\ stops = 0 /\ book = 0
    /\ versions = 0 /\ execs = 0 /\ rsched = 0 /\ place = 0 /\ chunks = 0
    /\ pin = 0 /\ ref = 0 /\ tag = 0 /\ job = 0 /\ decision = 0 /\ cancel = 0
    /\ stray = 0 /\ server = 0 /\ faults = 0 /\ produced = 0 /\ approved = 0
    /\ ran = 0 /\ accepted = 0 /\ rows = 0 /\ kind = 0 /\ last = 0
    /\ writer = 0 /\ lock = 0 /\ active = 0 /\ stream = 0 /\ wakeups = 0
    /\ client = 0 /\ access = 0 /\ seconds = 0 /\ late = 0 /\ drops = 0
    /\ setting = 0 /\ edit = 0 /\ deployment = 0 /\ check = 0 /\ cancelled = 0
    /\ passed = 0
WithoutSchedules ==
    /\ agent = 0 /\ polls = 0 /\ run = 0 /\ status = 0 /\ staging = 0
    /\ claims = 0 /\ log = 0 /\ pairing = 0 /\ caps = 0 /\ work = 0 /\ age = 0
    /\ challenges = 0 /\ req = 0 /\ listener = 0 /\ restarts = 0
    /\ confirmed = 0 /\ admitted = 0 /\ activated = 0 /\ alarm = 0
    /\ renamed = 0 /\ book = 0 /\ versions = 0 /\ execs = 0 /\ rsched = 0
    /\ place = 0 /\ chunks = 0 /\ pin = 0 /\ ref = 0 /\ tag = 0 /\ job = 0
    /\ decision = 0 /\ cancel = 0 /\ stray = 0 /\ server = 0 /\ faults = 0
    /\ produced = 0 /\ approved = 0 /\ ran = 0 /\ accepted = 0 /\ rows = 0
    /\ kind = 0 /\ last = 0 /\ writer = 0 /\ lock = 0 /\ active = 0
    /\ stream = 0 /\ wakeups = 0 /\ client = 0 /\ access = 0 /\ seconds = 0
    /\ late = 0 /\ drops = 0 /\ setting = 0 /\ edit = 0 /\ deployment = 0
    /\ check = 0 /\ cancelled = 0 /\ passed = 0
WithoutRunbooks ==
    /\ agent = 0 /\ polls = 0 /\ run = 0 /\ status = 0 /\ staging = 0
    /\ claims = 0 /\ log = 0 /\ pairing = 0 /\ caps = 0 /\ work = 0 /\ age = 0
    /\ challenges = 0 /\ req = 0 /\ listener = 0 /\ restarts = 0
    /\ confirmed = 0 /\ admitted = 0 /\ activated = 0 /\ alarm = 0
    /\ renamed = 0 /\ sched = 0 /\ target = 0 /\ fired = 0 /\ refused = 0
    /\ stops = 0 /\ chunks = 0 /\ pin = 0 /\ ref = 0 /\ tag = 0 /\ job = 0
    /\ decision = 0 /\ cancel = 0 /\ stray = 0 /\ server = 0 /\ faults = 0
    /\ produced = 0 /\ approved = 0 /\ ran = 0 /\ accepted = 0 /\ rows = 0
    /\ kind = 0 /\ last = 0 /\ writer = 0 /\ lock = 0 /\ active = 0
    /\ stream = 0 /\ wakeups = 0 /\ client = 0 /\ access = 0 /\ seconds = 0
    /\ late = 0 /\ drops = 0 /\ setting = 0 /\ edit = 0 /\ deployment = 0
    /\ check = 0 /\ cancelled = 0 /\ passed = 0
WithoutArtifactGate ==
    /\ agent = 0 /\ polls = 0 /\ staging = 0 /\ claims = 0 /\ log = 0
    /\ pairing = 0 /\ caps = 0 /\ work = 0 /\ challenges = 0 /\ req = 0
    /\ listener = 0 /\ restarts = 0 /\ confirmed = 0 /\ admitted = 0
    /\ activated = 0 /\ alarm = 0 /\ renamed = 0 /\ now = 0 /\ sched = 0
    /\ target = 0 /\ tick = 0 /\ ask = 0 /\ fired = 0 /\ refused = 0
    /\ stops = 0 /\ book = 0 /\ versions = 0 /\ execs = 0 /\ rsched = 0
    /\ place = 0 /\ rows = 0 /\ kind = 0 /\ last = 0 /\ writer = 0 /\ lock = 0
    /\ active = 0 /\ stream = 0 /\ wakeups = 0 /\ client = 0 /\ access = 0
    /\ seconds = 0 /\ late = 0 /\ drops = 0 /\ setting = 0 /\ edit = 0
    /\ deployment = 0 /\ check = 0 /\ cancelled = 0 /\ passed = 0
WithoutLogStream ==
    /\ agent = 0 /\ polls = 0 /\ run = 0 /\ staging = 0 /\ claims = 0
    /\ log = 0 /\ pairing = 0 /\ caps = 0 /\ work = 0 /\ age = 0
    /\ challenges = 0 /\ req = 0 /\ listener = 0 /\ restarts = 0
    /\ confirmed = 0 /\ admitted = 0 /\ activated = 0 /\ alarm = 0
    /\ renamed = 0 /\ now = 0 /\ sched = 0 /\ target = 0 /\ gate = 0
    /\ tick = 0 /\ ask = 0 /\ fired = 0 /\ refused = 0 /\ stops = 0
    /\ book = 0 /\ versions = 0 /\ execs = 0 /\ rsched = 0 /\ place = 0
    /\ chunks = 0 /\ pin = 0 /\ ref = 0 /\ tag = 0 /\ job = 0 /\ decision = 0
    /\ cancel = 0 /\ stray = 0 /\ server = 0 /\ faults = 0 /\ produced = 0
    /\ approved = 0 /\ ran = 0 /\ accepted = 0 /\ setting = 0 /\ edit = 0
    /\ deployment = 0 /\ check = 0 /\ cancelled = 0 /\ passed = 0
WithoutEnvironments ==
    /\ agent = 0 /\ polls = 0 /\ status = 0 /\ staging = 0 /\ claims = 0
    /\ log = 0 /\ pairing = 0 /\ caps = 0 /\ work = 0 /\ age = 0
    /\ challenges = 0 /\ req = 0 /\ listener = 0 /\ confirmed = 0
    /\ admitted = 0 /\ activated = 0 /\ alarm = 0 /\ renamed = 0 /\ now = 0
    /\ sched = 0 /\ target = 0 /\ gate = 0 /\ tick = 0 /\ ask = 0 /\ fired = 0
    /\ refused = 0 /\ stops = 0 /\ book = 0 /\ versions = 0 /\ execs = 0
    /\ rsched = 0 /\ chunks = 0 /\ pin = 0 /\ ref = 0 /\ tag = 0 /\ job = 0
    /\ decision = 0 /\ cancel = 0 /\ stray = 0 /\ server = 0 /\ faults = 0
    /\ produced = 0 /\ approved = 0 /\ ran = 0 /\ accepted = 0 /\ rows = 0
    /\ kind = 0 /\ last = 0 /\ writer = 0 /\ lock = 0 /\ active = 0
    /\ stream = 0 /\ wakeups = 0 /\ client = 0 /\ access = 0 /\ seconds = 0
    /\ late = 0 /\ drops = 0

Init ==
    \/ On("claims") /\ Claims!Init /\ WithoutRemoteStep
    \/ On("health") /\ Health!Init /\ WithoutPairing
    \/ On("due") /\ Firing!Init /\ WithoutSchedules
    \/ On("book") /\ Books!Init /\ WithoutRunbooks
    \/ On("review") /\ Review!Init /\ WithoutArtifactGate
    \/ On("follow") /\ Follow!Init /\ WithoutLogStream
    \/ On("stalled") /\ Stalled!Init /\ WithoutLogStream
    \/ On("verify") /\ Verify!Init /\ WithoutEnvironments

Next ==
    /\ UNCHANGED subject
    /\ \/ On("claims") /\ Claims!Next /\ UNCHANGED beyondRemoteStep
       \/ On("health") /\ Health!Next /\ UNCHANGED beyondPairing
       \/ On("due") /\ Firing!NextStep /\ UNCHANGED beyondSchedules
       \/ On("book") /\ Books!Next /\ UNCHANGED beyondRunbooks
       \/ On("review") /\ Review!Next /\ UNCHANGED beyondArtifactGate
       \/ On("follow") /\ Follow!Next /\ UNCHANGED beyondLogStream
       \/ On("stalled") /\ Stalled!Next /\ UNCHANGED beyondLogStream
       \/ On("verify") /\ Verify!Next /\ UNCHANGED beyondEnvironments

Spec == Init /\ [][Next]_everything

\* A loop of a part that a behaviour is not about has nothing to do in it.
Goes(part, step, beyond) == On(part) /\ step /\ UNCHANGED <<subject, beyond>>

\* Time passes, and what the code runs by itself goes on: the maintenance loop
\* of cmd/server and the health monitor (tickers), a scheduler that ticks and
\* finishes the rows it read, the goroutine of a deployment under a supervisor
\* that restarts the server, the writers of logs and the handler that serves a
\* connection.  Nothing is assumed of agents, administrators or users.
FairSpec ==
    /\ Spec
    /\ WF_everything(Goes("claims", Claims!Maintain, beyondRemoteStep))
    /\ WF_everything(Goes("claims", Claims!Tick, beyondRemoteStep))
    /\ WF_everything(Goes("health", Health!AdvanceAgentHealth, beyondPairing))
    /\ WF_everything(Goes("health", Health!Tick, beyondPairing))
    /\ WF_everything(Goes("due", Firing!ServerStep(v1), beyondSchedules))
    /\ WF_everything(Goes("book", Books!ServerStep(v1), beyondRunbooks))
    /\ WF_everything(Goes("review", Review!Run, beyondArtifactGate))
    /\ WF_everything(Goes("review", Review!StrayFails, beyondArtifactGate))
    /\ WF_everything(Goes("review", Review!Startup, beyondArtifactGate))
    /\ WF_everything(Goes("review", Review!MaintainArtifactGates, beyondArtifactGate))
    /\ WF_everything(Goes("review", Review!CleanupArtifactGateImages, beyondArtifactGate))
    /\ WF_everything(Goes("review", Review!Tick, beyondArtifactGate))
    /\ \A w \in Follow!Writers :
           WF_everything(Goes("follow", Follow!CreateStepDeploymentLog(w) \/ Follow!Broadcast(w),
                              beyondLogStream))
    /\ WF_everything(Goes("follow", Follow!Serve(c1), beyondLogStream))
    /\ WF_everything(Goes("follow", Follow!Watch(c1), beyondLogStream))
    /\ WF_everything(Goes("follow", Follow!StreamLogs(c1, "sse"), beyondLogStream))
    /\ WF_everything(Goes("follow", Follow!Tick, beyondLogStream))
    /\ WF_everything(Goes("stalled", Stalled!Tick, beyondLogStream))
    /\ WF_everything(Goes("stalled", Stalled!Watch(c1), beyondLogStream))
    /\ WF_everything(Goes("verify", Verify!ReconcileTerminalVerifications, beyondEnvironments))

-----------------------------------------------------------------------------
\* No run stays with an agent that has gone silent: a claim is taken back,
\* started work is given up, a cancellation without answer too (Maintain); and
\* the agent itself is shown offline, whatever it was doing
\* (AdvanceAgentHealth).
Held == {"claimed", "started", "cancel_requested"}
Silent == agent[i1].status = "active" /\ age[i1] >= 1
SilenceEnds ==
    /\ (On("claims") /\ run[1].state \in Held)
           ~> (On("claims") /\ (run[1].state \notin Held \/ run[1].age = 0))
    /\ (On("health") /\ Silent) ~> (On("health") /\ (~Silent \/ agent[i1].health = "offline"))

\* A due schedule does not stay due: it is fired, skipped, parked, disabled,
\* or changed by a user; and so is the schedule of a runbook.  Left out are
\* versions whose artifact gate settings are invalid, which fireRunbook only
\* logs and tries again at every tick, and the bound on executions.
DueIsHandled ==
    /\ (On("due") /\ Firing!Due(1)) ~> (On("due") /\ ~Firing!Due(1))
    /\ (On("book") /\ Books!Due(1) /\ rsched[1].ver = 1 /\ versions[rsched[1].book][1] # "config")
           ~> (On("book") /\ ~Books!Due(1))

\* A review is decided or expires; a deployment that was approved ends or comes
\* to its next review, though the server crashes; and once it is over its
\* images are released for good and its stored state is deleted.  No check stays
\* open after its deployment has ended, whichever of the transactions ended it:
\* the ticker closes what they leave (ReconcileTerminalVerifications).
ReviewEnds ==
    /\ (On("review") /\ status = "awaiting") ~> (On("review") /\ status # "awaiting")
    /\ (On("review") /\ status \in {"pending", "running", "publishing"})
           ~> (On("review") /\ status \in Review!EndStatus \cup {"awaiting"})
    /\ <>[](On("review") /\ status \in Review!EndStatus => \A i \in Review!StepIds : ref[i] = none)
    /\ (On("review") /\ status \in Review!FinalStatus)
           ~> (On("review") /\ (status \notin Review!FinalStatus \/ chunks[0] = none))
    /\ (On("verify") /\ deployment[d1] \in Verify!Ended)
           ~> (On("verify") /\ ~Verify!Open(check[d1]))

\* Every committed row reaches a client that may read it, for wake-ups are lost
\* and polls are not (streamLogs); the follower of an ended deployment is told
\* so (completion); and a stream does not outlive its access, also when its
\* client stopped reading (watchLogAccess).
StreamsEnd ==
    /\ \A i \in Follow!Ids : (On("follow") /\ i \in rows)
           ~> (On("follow") /\ (i \in client[c1].got \/ ~access))
    /\ (On("follow") /\ status = "ended" /\ active # "in")
           ~> (On("follow") /\ (client[c1].complete \/ ~access))
    /\ (On("stalled") /\ ~access) ~> (On("stalled") /\ stream[c1].pc = "off")
=============================================================================
