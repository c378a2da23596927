---------------------------- MODULE MCOperations ----------------------------
(*****************************************************************************)
(* What runs on a server and across its restarts: KeyRotation, LogScrub,     *)
(* LogStream, Schedules and Runbooks, each with the servers, users and       *)
(* crashes that race each other, and Runner with plans and faults beyond     *)
(* those of MCRunner.  A behaviour is about one of them; the module extends  *)
(* LogStream and instantiates the others.                                    *)
(*****************************************************************************)
EXTENDS LogStream, Sequences, TLC

CONSTANTS
    v1, v2,
    t1, t2, u1, u2, c1,
    s1, e1, a1, a2, none,
    l1, l2, letter, newline, bearer, marker

VARIABLES
    subject,  \* the part a behaviour is about: it never changes
    values, saved, keys, source, printed, server, cli, writes, chunks, buf,
    out, failed, flushed, now, sched, target, gate, tick, ask, fired, refused,
    stops, book, versions, execs, rsched, place, slot, run, recovered, cleanup,
    restarts, localErr, job, retry, resume, container, working, outcome

everything == <<subject,
    rows, kind, last, writer, lock, status, active, stream, wakeups, client,
    access, seconds, late, drops, values, saved, keys, source, printed, server,
    cli, writes, chunks, buf, out, failed, flushed, now, sched, target, gate,
    tick, ask, fired, refused, stops, book, versions, execs, rsched, place,
    slot, run, recovered, cleanup, restarts, localErr, job, retry, resume,
    container, working, outcome>>
On(part) == subject = part

\* Servers are interchangeable.
SameServers == Permutations({v1, v2})

\* A secret over two lines, one that ends in a newline, and a short one whose
\* letters begin the others.
SecretValues == {<<l1, newline, l2>>, <<l1, l1>>, <<l2, newline>>, <<l1, l1, l2>>}

-----------------------------------------------------------------------------
\* A client follows a log, loses the connection and its access: this is
\* LogStream itself, whose constants the configuration gives.

\* Keys are rotated with the server stopped, and rotation crashes.
Rotation == INSTANCE KeyRotation WITH MaxKeys <- 3, MaxWrites <- 3, CrashPoints
    <- {"transaction"}, MayMisuse <- FALSE
\* The same while the server runs, or with a wrong key.
Misuse == INSTANCE KeyRotation WITH MaxKeys <- 3, MaxWrites <- 2, CrashPoints
    <- {"transaction"}, MayMisuse <- TRUE
\* Output with secrets is written in pieces.
Scrub == INSTANCE LogScrub WITH Plain <- {letter}, Secret <- {l1, l2}, New <-
    newline, Bearer <- bearer, Marker <- marker, Literals <- SecretValues,
    MaxOutput <- 4, MaxChunk <- 3, PendingLimit <- 4
\* Two servers fire a schedule that users edit.
Firing == INSTANCE Schedules WITH Server <- {v1, v2}, Sched <- {1}, User <-
    {u1}, Target <- {t1, t2}, Cron <- {1}, First <- 1, MaxTime <- 1, MaxArm <-
    1, MaxStop <- 1
\* Two servers fire a runbook that users run and retry.
Books == INSTANCE Runbooks WITH Book <- {1}, RSched <- {1}, Server <- {v1, v2},
    User <- {u1}, Step <- {"ok"}, Gates <- {"open", "approval"}, MaxVer <- 1,
    MaxExec <- 2, MaxTime <- 1
\* A runbook is deleted under its requests.
Deletion == INSTANCE Runbooks WITH Book <- {1}, RSched <- {1}, Server <- {v1},
    User <- {u1, u2}, Step <- {"ok"}, Gates <- {"open", "approval"}, MaxVer <-
    2, MaxExec <- 1, MaxTime <- 1
\* A step on two agents, then a local one with a retry and a check.
FanOut == INSTANCE Runner WITH Deployment <- {1}, Agent <- {a1, a2}, ScopeOf <-
    <<s1>>, Plan <- <<"agent", "local">>, Verification <- "bash", Fault <-
    {"crash", "engine"}, MaxRetries <- 1, MaxRestarts <- 1, NoDeployment <-
    none, Scope <- {s1}, Env <- {e1}, EnvOf <- (s1 :> e1)
\* Two gated deployments whose writes and admissions fail, too.
Faults == INSTANCE Runner WITH Deployment <- {1, 2}, Agent <- {a1}, ScopeOf <-
    <<s1, s1>>, Plan <- <<"gate", "local">>, Verification <- "http", Fault <-
    {"crash", "engine", "commit", "admission"}, MaxRetries <- 0, MaxRestarts <-
    1, NoDeployment <- none, Scope <- {s1}, Env <- {e1}, EnvOf <- (s1 :> e1)
\* The server stops and starts twice.
Shutdown == INSTANCE Runner WITH Deployment <- {1}, Agent <- {a1}, ScopeOf <-
    <<s1>>, Plan <- <<"gate", "agent", "local">>, Verification <- "none", Fault
    <- {"crash", "shutdown", "engine", "commit"}, MaxRetries <- 0, MaxRestarts
    <- 2, NoDeployment <- none, Scope <- {s1}, Env <- {e1}, EnvOf <- (s1 :> e1)
\* A step on two agents, and no restart.
Calm == INSTANCE Runner WITH Deployment <- {1}, Agent <- {a1, a2}, ScopeOf <-
    <<s1>>, Plan <- <<"agent", "local">>, Verification <- "none", Fault <-
    {"engine"}, MaxRetries <- 0, MaxRestarts <- 0, NoDeployment <- none, Scope
    <- {s1}, Env <- {e1}, EnvOf <- (s1 :> e1)

ASSUME Instances ==
    /\ LogStreamAssumption
    /\ Rotation!RotationAssumption
    /\ Misuse!RotationAssumption
    /\ Scrub!LogScrubAssumption
    /\ Firing!ScheduleAssumption
    /\ Books!RunbookAssumption
    /\ Deletion!RunbookAssumption
    /\ FanOut!FaultAssumption
    /\ Faults!FaultAssumption
    /\ Shutdown!FaultAssumption
    /\ Calm!FaultAssumption

\* The variables of the other parts, which a behaviour leaves alone.
beyondLogStream == <<values, saved, keys, source, printed, server, cli, writes, chunks, buf,
    out, failed, flushed, now, sched, target, gate, tick, ask, fired, refused,
    stops, book, versions, execs, rsched, place, slot, run, recovered, cleanup,
    restarts, localErr, job, retry, resume, container, working, outcome>>
beyondKeyRotation == <<rows, kind, last, writer, lock, status, active, stream, wakeups, client,
    access, seconds, late, drops, chunks, buf, out, failed, flushed, now,
    sched, target, gate, tick, ask, fired, refused, stops, book, versions,
    execs, rsched, place, slot, run, recovered, cleanup, restarts, localErr,
    job, retry, resume, container, working, outcome>>
beyondLogScrub == <<rows, kind, last, writer, lock, status, active, stream, wakeups, client,
    access, seconds, late, drops, values, saved, keys, source, printed, server,
    cli, writes, now, sched, target, gate, tick, ask, fired, refused, stops,
    book, versions, execs, rsched, place, slot, run, recovered, cleanup,
    restarts, localErr, job, retry, resume, container, working, outcome>>
beyondSchedules == <<rows, kind, last, writer, lock, status, active, stream, wakeups, client,
    access, seconds, late, drops, values, saved, keys, source, printed, server,
    cli, writes, chunks, buf, out, failed, flushed, book, versions, execs,
    rsched, place, slot, run, recovered, cleanup, restarts, localErr, job,
    retry, resume, container, working, outcome>>
beyondRunbooks == <<rows, kind, last, writer, lock, status, active, stream, wakeups, client,
    access, seconds, late, drops, values, saved, keys, source, printed, server,
    cli, writes, chunks, buf, out, failed, flushed, sched, target, fired,
    refused, stops, slot, run, recovered, cleanup, restarts, localErr, job,
    retry, resume, container, working, outcome>>
beyondRunner == <<rows, kind, last, writer, lock, active, stream, wakeups, client, access,
    seconds, late, drops, values, saved, keys, source, printed, cli, writes,
    chunks, buf, out, failed, flushed, now, sched, target, gate, tick, ask,
    fired, refused, stops, book, versions, execs, rsched, place>>

WithoutLogStream ==
    /\ values = 0 /\ saved = 0 /\ keys = 0 /\ source = 0 /\ printed = 0
    /\ server = 0 /\ cli = 0 /\ writes = 0 /\ chunks = 0 /\ buf = 0 /\ out = 0
    /\ failed = 0 /\ flushed = 0 /\ now = 0 /\ sched = 0 /\ target = 0
    /\ gate = 0 /\ tick = 0 /\ ask = 0 /\ fired = 0 /\ refused = 0
    /\ stops = 0 /\ book = 0 /\ versions = 0 /\ execs = 0 /\ rsched = 0
    /\ place = 0 /\ slot = 0 /\ run = 0 /\ recovered = 0 /\ cleanup = 0
    /\ restarts = 0 /\ localErr = 0 /\ job = 0 /\ retry = 0 /\ resume = 0
    /\ container = 0 /\ working = 0 /\ outcome = 0
WithoutKeyRotation ==
    /\ rows = {} /\ kind = 0 /\ last = 0 /\ writer = 0 /\ lock = {}
    /\ status = 0 /\ active = 0 /\ stream = [c \in Clients |-> NoStream]
    /\ wakeups = [c \in Clients |-> 0]
    /\ client = [c \in Clients |-> NewClient] /\ access = 0 /\ seconds = 0
    /\ late = FALSE /\ drops = 0 /\ chunks = 0 /\ buf = 0 /\ out = 0
    /\ failed = 0 /\ flushed = 0 /\ now = 0 /\ sched = 0 /\ target = 0
    /\ gate = 0 /\ tick = 0 /\ ask = 0 /\ fired = 0 /\ refused = 0
    /\ stops = 0 /\ book = 0 /\ versions = 0 /\ execs = 0 /\ rsched = 0
    /\ place = 0 /\ slot = 0 /\ run = 0 /\ recovered = 0 /\ cleanup = 0
    /\ restarts = 0 /\ localErr = 0 /\ job = 0 /\ retry = 0 /\ resume = 0
    /\ container = 0 /\ working = 0 /\ outcome = 0
WithoutLogScrub ==
    /\ rows = {} /\ kind = 0 /\ last = 0 /\ writer = 0 /\ lock = {}
    /\ status = 0 /\ active = 0 /\ stream = [c \in Clients |-> NoStream]
    /\ wakeups = [c \in Clients |-> 0]
    /\ client = [c \in Clients |-> NewClient] /\ access = 0 /\ seconds = 0
    /\ late = FALSE /\ drops = 0 /\ values = 0 /\ saved = 0 /\ keys = 0
    /\ source = 0 /\ printed = 0 /\ server = 0 /\ cli = 0 /\ writes = 0
    /\ now = 0 /\ sched = 0 /\ target = 0 /\ gate = 0 /\ tick = 0 /\ ask = 0
    /\ fired = 0 /\ refused = 0 /\ stops = 0 /\ book = 0 /\ versions = 0
    /\ execs = 0 /\ rsched = 0 /\ place = 0 /\ slot = 0 /\ run = 0
    /\ recovered = 0 /\ cleanup = 0 /\ restarts = 0 /\ localErr = 0 /\ job = 0
    /\ retry = 0 /\ resume = 0 /\ container = 0 /\ working = 0 /\ outcome = 0
WithoutSchedules ==
    /\ rows = {} /\ kind = 0 /\ last = 0 /\ writer = 0 /\ lock = {}
    /\ status = 0 /\ active = 0 /\ stream = [c \in Clients |-> NoStream]
    /\ wakeups = [c \in Clients |-> 0]
    /\ client = [c \in Clients |-> NewClient] /\ access = 0 /\ seconds = 0
    /\ late = FALSE /\ drops = 0 /\ values = 0 /\ saved = 0 /\ keys = 0
    /\ source = 0 /\ printed = 0 /\ server = 0 /\ cli = 0 /\ writes = 0
    /\ chunks = 0 /\ buf = 0 /\ out = 0 /\ failed = 0 /\ flushed = 0
    /\ book = 0 /\ versions = 0 /\ execs = 0 /\ rsched = 0 /\ place = 0
    /\ slot = 0 /\ run = 0 /\ recovered = 0 /\ cleanup = 0 /\ restarts = 0
    /\ localErr = 0 /\ job = 0 /\ retry = 0 /\ resume = 0 /\ container = 0
    /\ working = 0 /\ outcome = 0
WithoutRunbooks ==
    /\ rows = {} /\ kind = 0 /\ last = 0 /\ writer = 0 /\ lock = {}
    /\ status = 0 /\ active = 0 /\ stream = [c \in Clients |-> NoStream]
    /\ wakeups = [c \in Clients |-> 0]
    /\ client = [c \in Clients |-> NewClient] /\ access = 0 /\ seconds = 0
    /\ late = FALSE /\ drops = 0 /\ values = 0 /\ saved = 0 /\ keys = 0
    /\ source = 0 /\ printed = 0 /\ server = 0 /\ cli = 0 /\ writes = 0
    /\ chunks = 0 /\ buf = 0 /\ out = 0 /\ failed = 0 /\ flushed = 0
    /\ sched = 0 /\ target = 0 /\ fired = 0 /\ refused = 0 /\ stops = 0
    /\ slot = 0 /\ run = 0 /\ recovered = 0 /\ cleanup = 0 /\ restarts = 0
    /\ localErr = 0 /\ job = 0 /\ retry = 0 /\ resume = 0 /\ container = 0
    /\ working = 0 /\ outcome = 0
WithoutRunner ==
    /\ rows = {} /\ kind = 0 /\ last = 0 /\ writer = 0 /\ lock = {}
    /\ active = 0 /\ stream = [c \in Clients |-> NoStream]
    /\ wakeups = [c \in Clients |-> 0]
    /\ client = [c \in Clients |-> NewClient] /\ access = 0 /\ seconds = 0
    /\ late = FALSE /\ drops = 0 /\ values = 0 /\ saved = 0 /\ keys = 0
    /\ source = 0 /\ printed = 0 /\ cli = 0 /\ writes = 0 /\ chunks = 0
    /\ buf = 0 /\ out = 0 /\ failed = 0 /\ flushed = 0 /\ now = 0 /\ sched = 0
    /\ target = 0 /\ gate = 0 /\ tick = 0 /\ ask = 0 /\ fired = 0
    /\ refused = 0 /\ stops = 0 /\ book = 0 /\ versions = 0 /\ execs = 0
    /\ rsched = 0 /\ place = 0

OpsInit ==
    \/ On("stream") /\ Init /\ WithoutLogStream
    \/ On("rotation") /\ Rotation!Init /\ WithoutKeyRotation
    \/ On("misuse") /\ Misuse!Init /\ WithoutKeyRotation
    \/ On("scrub") /\ Scrub!Init /\ WithoutLogScrub
    \/ On("schedules") /\ Firing!Init /\ WithoutSchedules
    \/ On("runbooks") /\ Books!Init /\ WithoutRunbooks
    \/ On("deletion") /\ Deletion!Init /\ WithoutRunbooks
    \/ On("fan") /\ FanOut!RInit /\ WithoutRunner
    \/ On("faults") /\ Faults!RInit /\ WithoutRunner
    \/ On("shutdown") /\ Shutdown!RInit /\ WithoutRunner
    \/ On("calm") /\ Calm!RInit /\ WithoutRunner

OpsNext ==
    /\ UNCHANGED subject
    /\ \/ On("stream") /\ Next /\ UNCHANGED beyondLogStream
       \/ On("rotation") /\ Rotation!Next /\ UNCHANGED beyondKeyRotation
       \/ On("misuse") /\ Misuse!Next /\ UNCHANGED beyondKeyRotation
       \/ On("scrub") /\ Scrub!Next /\ UNCHANGED beyondLogScrub
       \/ On("schedules") /\ Firing!NextStep /\ UNCHANGED beyondSchedules
       \/ On("runbooks") /\ Books!Next /\ UNCHANGED beyondRunbooks
       \/ On("deletion") /\ Deletion!Next /\ UNCHANGED beyondRunbooks
       \/ On("fan") /\ FanOut!RNext /\ UNCHANGED beyondRunner
       \/ On("faults") /\ Faults!RNext /\ UNCHANGED beyondRunner
       \/ On("shutdown") /\ Shutdown!RNext /\ UNCHANGED beyondRunner
       \/ On("calm") /\ Calm!RNext /\ UNCHANGED beyondRunner

OpsSpec ==
    OpsInit /\ [][OpsNext]_everything

-----------------------------------------------------------------------------
\* Whatever the plan and the faults, what executes belongs to the owner of the
\* scope, the steps of a deployment execute one after the other, success is
\* honest and an outcome final; and without restarts and lost writes a
\* deployment ends only after its agents.
ServerHolds ==
    /\ [](/\ On("fan") => /\ FanOut!RTypeOK
                          /\ FanOut!WorkExclusive
                          /\ FanOut!StepsSequential
          /\ On("faults") => /\ Faults!RTypeOK
                             /\ Faults!StepsSequential
          /\ On("shutdown") => /\ Shutdown!RTypeOK
                               /\ Shutdown!WorkExclusive
                               /\ Shutdown!StepsSequential
          /\ On("calm") => /\ Calm!RTypeOK
                           /\ Calm!WorkExclusive
                           /\ Calm!StepsSequential)
    /\ [][/\ On("fan") => FanOut!SuccessHonest!1
          /\ On("faults") => /\ Faults!SuccessHonest!1
                             /\ Faults!OutcomeFinal!1
          /\ On("shutdown") => Shutdown!SuccessHonest!1
          /\ On("calm") => /\ Calm!SuccessHonest!1
                           /\ Calm!RemoteSettledFirst!1]_everything

\* Whatever crashes, every stored secret is readable under the key the operator
\* has, and never half of them; a rotation of the encrypted values only is safe
\* also beside a running server.
Readable ==
    /\ On("rotation") => /\ Rotation!TypeOK
                         /\ Rotation!Readable
                         /\ Rotation!NeverHalfMigrated
    /\ On("misuse") => Misuse!EncryptedOnlySafe

\* However output is cut into writes, parts and events, no secret is published,
\* what is published is the redaction of the whole, and complete lines appear
\* at once.
NoSecretPublished ==
    /\ On("scrub") => /\ Scrub!TypeOK
                      /\ Scrub!NoSecretPublished
                      /\ Scrub!WholeScrub
                      /\ Scrub!PartsAgree
                      /\ Scrub!EventsScrubbed
                      /\ Scrub!LinesAppear

\* Each occurrence of a schedule is fired once, by whichever server, as it is
\* saved at that moment, and an error is recorded with the release it is about;
\* the same for the schedules of runbooks, of which a disabled one fires
\* nothing, a retry repeats what is known to have ended, and a deleted one
\* stays deleted and starts nothing.
FiredOnce ==
    /\ [](/\ On("schedules") => /\ Firing!FiredOnce
                                /\ Firing!ErrorOfItsRelease
          /\ On("runbooks") => Books!ScheduleFiresOnce
          /\ On("deletion") => Deletion!DeletedIsQuiet)
    /\ [][/\ On("schedules") => Firing!FiresWhatIsSaved!1
          /\ On("runbooks") => /\ Books!DisabledFiresNothing!1
                               /\ Books!RetryOfTheKnown!1
          /\ On("deletion") => Deletion!DeletedStays!1]_everything
=============================================================================
