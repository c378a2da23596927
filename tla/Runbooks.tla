------------------------------ MODULE Runbooks ------------------------------
(***************************************************************************)
(* Runbooks of one project: their immutable versions, executions by hand,  *)
(* by retry and by schedule, and the deletion of a runbook, of the         *)
(* environment and of the project.  Requests and the scheduler read first; *)
(* the transaction that follows locks environment and project and reads    *)
(* the runbook again.  An execution is a deployment of the release that    *)
(* the version made; what it does while it runs is left to                 *)
(* DeploymentQueue and Runner.                                             *)
(***************************************************************************)
EXTENDS Integers, FiniteSets, Sequences

CONSTANTS
    Book,       \* runbook ids
    RSched,     \* runbook_schedules ids
    Server,     \* servers that tick
    User,       \* requests that may be under way at once
    Step,       \* kinds of steps a version has: "ok", "legacy", "config"
    Gates,      \* what the lifecycle gate of an instance may say
    MaxVer,     \* bound on versions of a runbook
    MaxExec,    \* bound on executions
    MaxTime     \* bound on the clock

RunbookAssumption ==
    /\ Step \subseteq {"ok", "legacy", "config"}
    /\ Gates \subseteq {"open", "blocked", "approval"}
    /\ MaxVer \in Nat /\ MaxExec \in Nat /\ MaxTime \in Nat

VARIABLES
    now,
    book,       \* runbooks: "unused", "live", "deleted", or "erased" with the project
    versions,   \* runbook_versions in the order of their numbers
    execs,      \* runbook_executions with the status of their deployments
    rsched,     \* runbook_schedules
    place,      \* the environment: "stage", "outside" the lifecycle, "gone"
    gate,       \* the lifecycle gate: "open", "blocked", "approval"
    tick,       \* per server, the schedules read as due and the one being fired
    ask         \* requests between their reads and their transaction

vars == <<now, book, versions, execs, rsched, place, gate, tick, ask>>

NoAsk == [op |-> "none"]
NoRow == [id |-> 0, next |-> 0]
Idle == [due |-> {}, row |-> NoRow, do |-> "none", next |-> 0]

Execs == DOMAIN execs
Busy == {"waiting", "active", "unconfirmed", "lost"}

-----------------------------------------------------------------------------
(* Queries. *)

GetRunbook(b) == book[b] = "live"
GetLatestRunbookVersion(b) == Len(versions[b])
GetRunbookVersion(b, n) == n \in DOMAIN versions[b]

\* HasActiveReleaseDeployment, over the releases of all versions.
HasActiveReleaseDeployment(b) == \E x \in Execs : execs[x].book = b /\ execs[x].status \in Busy

HasActiveProjectDeployment == \E x \in Execs : execs[x].status \in Busy

HasUnconfirmedContainerCleanup(x) == execs[x].status = "unconfirmed"
HasUnconfirmedRunbookRemoteOutcome(x) == execs[x].status = "lost"

ListDueRunbookSchedules ==
    {[id |-> s, next |-> rsched[s].next] : s \in
        {i \in RSched : rsched[i].live /\ rsched[i].on /\ rsched[i].next <= now
                        /\ GetRunbook(rsched[i].book)}}

\* The WHERE of AdvanceRunbookSchedule and SkipRunbookSchedule.
AdvanceRunbookSchedule(s, seen) == rsched[s].live /\ rsched[s].on /\ rsched[s].next <= seen

-----------------------------------------------------------------------------
(* Versions. *)

Asking(u, request) ==
    /\ ask[u] = NoAsk
    /\ ask' = [ask EXCEPT ![u] = request]
    /\ UNCHANGED <<now, book, versions, execs, rsched, place, gate, tick>>

Answered(u) == ask' = [ask EXCEPT ![u] = NoAsk]

\* Save of the web editor and of the API: the steps are read and checked, and
\* the project's variables are listed, before the transaction.
Save(u, b, step) ==
    book[b] \in {"unused", "live"} /\ Asking(u, [op |-> "save", book |-> b, step |-> step])
SaveAPI(u, b, step) == Save(u, b, step)

\* SaveRunbook: a new runbook, or the next version of one that still exists.
SaveRunbook(u) ==
    /\ ask[u].op = "save"
    /\ LET b == ask[u].book IN
       IF place # "erased" /\ book[b] \in {"unused", "live"} /\ Len(versions[b]) < MaxVer
       THEN /\ book' = [book EXCEPT ![b] = "live"]
            /\ versions' = [versions EXCEPT ![b] = Append(@, ask[u].step)]
       ELSE UNCHANGED <<book, versions>>
    /\ Answered(u)
    /\ UNCHANGED <<now, execs, rsched, place, gate, tick>>

-----------------------------------------------------------------------------
(* Executions. *)

\* parseExecutionEnvironment, projectEnvironment: a stage of the lifecycle.
Accessible == place = "stage"

\* Execute: version 0 stands for the latest.
Execute(u, b, n) ==
    GetRunbook(b) /\ Accessible
    /\ Asking(u, [op |-> "execute", book |-> b, ver |-> n, src |-> 0])
ExecuteAPI(u, b, n) == Execute(u, b, n)

\* Retry: of an execution that ended, of the version it had.
Retry(u, x) ==
    /\ execs[x].status \notin {"waiting", "active", "erased"}
    /\ Asking(u, [op |-> "execute", book |-> execs[x].book, ver |-> execs[x].ver, src |-> x])
RetryAPI(u, x) == Retry(u, x)

\* lockRunbookAdmission: environment, project, then the runbook.
lockRunbookAdmission(b) == place # "gone" /\ place # "erased" /\ GetRunbook(b)

RetrySource(x) ==
    x # 0 => ~HasUnconfirmedContainerCleanup(x) /\ ~HasUnconfirmedRunbookRemoteOutcome(x)

Chosen(b, n) == IF n = 0 THEN GetLatestRunbookVersion(b) ELSE n

\* The release's checks in createDeployment.
Runs(b, n) == versions[b][n] = "ok"

NewExec(b, n, s, at, src) ==
    [book |-> b, ver |-> n, sched |-> s, at |-> at, src |-> src,
     status |-> IF gate = "approval" THEN "waiting" ELSE "active"]

\* CreateRunbookExecution for a request: refused, or one execution.
CreateRunbookExecution(u) ==
    /\ ask[u].op = "execute"
    /\ LET b == ask[u].book
           n == Chosen(b, ask[u].ver) IN
       IF /\ lockRunbookAdmission(b) /\ RetrySource(ask[u].src)
          /\ GetRunbookVersion(b, n) /\ gate # "blocked" /\ Runs(b, n)
       THEN Len(execs) < MaxExec /\ execs' = Append(execs, NewExec(b, n, 0, 0, ask[u].src))
       ELSE UNCHANGED execs
    /\ Answered(u)
    /\ UNCHANGED <<now, book, versions, rsched, place, gate, tick>>

\* Approve, Cancel, and what becomes of an execution that runs.
Become(x, from, to) ==
    /\ execs[x].status \in from
    /\ execs' = [execs EXCEPT ![x].status = to]
    /\ UNCHANGED <<now, book, versions, rsched, place, gate, tick, ask>>

Approve(x) == Become(x, {"waiting"}, "active")
ApproveAPI(x) == Become(x, {"waiting"}, "active")
Cancel(x) == Become(x, {"waiting"}, "cancelled")
CancelAPI(x) == Become(x, {"waiting"}, "cancelled")
Ends(x) == \/ \E to \in {"succeeded", "failed", "unconfirmed", "lost"} : Become(x, {"active"}, to)
           \/ Become(x, {"unconfirmed", "lost"}, "failed")

-----------------------------------------------------------------------------
(* Schedules. *)

\* Schedule: the next execution time is that of the moment of the request.
Schedule(u, b, s, n) ==
    /\ GetRunbook(b) /\ Accessible /\ ~rsched[s].used
    /\ Asking(u, [op |-> "schedule", book |-> b, sched |-> s, ver |-> n, next |-> now + 1])
CreateSchedule(u, b, s, n) == Schedule(u, b, s, n)

CreateRunbookSchedule(u) ==
    /\ ask[u].op = "schedule"
    /\ LET b == ask[u].book
           s == ask[u].sched IN
       IF /\ place \notin {"gone", "erased"} /\ GetRunbook(b) /\ ~rsched[s].used
          /\ ask[u].ver # 0 => GetRunbookVersion(b, ask[u].ver)
       THEN rsched' = [rsched EXCEPT ![s] =
                [used |-> TRUE, live |-> TRUE, on |-> TRUE, book |-> b, ver |-> ask[u].ver,
                 next |-> ask[u].next]]
       ELSE UNCHANGED rsched
    /\ Answered(u)
    /\ UNCHANGED <<now, book, versions, execs, place, gate, tick>>

\* DisableRunbookSchedule: by id, and for good: nothing enables it again.
DisableRunbookSchedule(s) == rsched' = [rsched EXCEPT ![s].on = FALSE]

DisableSchedule(s) ==
    /\ rsched[s].live /\ GetRunbook(rsched[s].book)
    /\ DisableRunbookSchedule(s)
    /\ UNCHANGED <<now, book, versions, execs, place, gate, tick, ask>>
DisableScheduleAPI(s) == DisableSchedule(s)

tickRunbooks(v) ==
    /\ tick[v] = Idle /\ ListDueRunbookSchedules # {}
    /\ tick' = [tick EXCEPT ![v].due = ListDueRunbookSchedules]
    /\ UNCHANGED <<now, book, versions, execs, rsched, place, gate, ask>>

RowDone(v) == tick' = [tick EXCEPT ![v].row = NoRow, ![v].do = "none", ![v].next = 0]

\* fireRunbook up to its transaction: the runbook and the environment are read;
\* outside the lifecycle the schedule is disabled.
fireRunbook(v) ==
    /\ tick[v].row = NoRow
    /\ \E row \in tick[v].due :
        LET b == rsched[row.id].book IN
        tick' = [tick EXCEPT ![v].due = @ \ {row}, ![v].next = now + 1,
            ![v].row = row,
            ![v].do = IF ~GetRunbook(b) \/ place \in {"gone", "erased"} THEN "leave"
                      ELSE IF Accessible THEN "fire" ELSE "disable"]
    /\ UNCHANGED <<now, book, versions, execs, rsched, place, gate, ask>>

\* CreateRunbookExecution for a schedule: admission, the advance of the
\* schedule, the gate, the deployment, in one transaction.
fireScheduled(v) ==
    LET s == tick[v].row.id
        b == rsched[s].book
        n == Chosen(b, rsched[s].ver) IN
    /\ tick[v].do = "fire"
    /\ IF ~lockRunbookAdmission(b) \/ ~AdvanceRunbookSchedule(s, tick[v].row.next)
       THEN RowDone(v) /\ UNCHANGED <<execs, rsched>>
       ELSE IF gate = "blocked" \/ versions[b][n] = "legacy"
       THEN /\ tick' = [tick EXCEPT ![v].do = IF gate = "blocked" THEN "skip" ELSE "legacy"]
            /\ UNCHANGED <<execs, rsched>>
       ELSE IF ~Runs(b, n)
       THEN RowDone(v) /\ UNCHANGED <<execs, rsched>>
       ELSE /\ Len(execs) < MaxExec
            /\ execs' = Append(execs, NewExec(b, n, s, tick[v].row.next, 0))
            /\ rsched' = [rsched EXCEPT ![s].next = tick[v].next]
            /\ RowDone(v)
    /\ UNCHANGED <<now, book, versions, place, gate, ask>>

\* After a refusal: SkipRunbookSchedule, DisableRunbookScheduleWithReason, or
\* the disabling of a schedule outside the lifecycle.
afterRefusal(v) ==
    LET s == tick[v].row.id IN
    /\ \/ /\ tick[v].do = "skip"
          /\ IF AdvanceRunbookSchedule(s, tick[v].row.next)
             THEN rsched' = [rsched EXCEPT ![s].next = tick[v].next] ELSE UNCHANGED rsched
       \/ /\ tick[v].do = "legacy"
          /\ IF rsched[s].on /\ rsched[s].next = tick[v].row.next
             THEN DisableRunbookSchedule(s) ELSE UNCHANGED rsched
       \/ tick[v].do = "disable" /\ DisableRunbookSchedule(s)
       \/ tick[v].do = "leave" /\ UNCHANGED rsched
    /\ RowDone(v)
    /\ UNCHANGED <<now, book, versions, execs, place, gate, ask>>

-----------------------------------------------------------------------------
(* Deletion. *)

\* DeleteRunbook: refused while an execution of any version is not over.
DeleteRunbook(b) ==
    /\ GetRunbook(b) /\ ~HasActiveReleaseDeployment(b)
    /\ rsched' = [s \in RSched |-> IF rsched[s].book = b THEN [rsched[s] EXCEPT !.on = FALSE]
                                   ELSE rsched[s]]
    /\ book' = [book EXCEPT ![b] = "deleted"]
    /\ UNCHANGED <<now, versions, execs, place, gate, tick, ask>>
Delete(b) == DeleteRunbook(b)
DeleteAPI(b) == DeleteRunbook(b)

deleteDeploymentHistory == execs' = [x \in Execs |-> [execs[x] EXCEPT !.status = "erased"]]

\* DeleteEnvironment takes the schedules of the environment along; DeleteProject
\* takes everything.
DeleteEnvironment ==
    /\ place \notin {"gone", "erased"} /\ ~HasActiveProjectDeployment
    /\ place' = "gone"
    /\ deleteDeploymentHistory
    /\ rsched' = [s \in RSched |-> [rsched[s] EXCEPT !.live = FALSE, !.on = FALSE]]
    /\ UNCHANGED <<now, book, versions, gate, tick, ask>>

DeleteProject ==
    /\ place # "erased" /\ ~HasActiveProjectDeployment
    /\ place' = "erased"
    /\ deleteDeploymentHistory
    /\ rsched' = [s \in RSched |-> [rsched[s] EXCEPT !.live = FALSE, !.on = FALSE]]
    /\ book' = [b \in Book |-> "erased"]
    /\ UNCHANGED <<now, versions, gate, tick, ask>>

-----------------------------------------------------------------------------
Clock ==
    /\ now < MaxTime
    /\ now' = now + 1
    /\ UNCHANGED <<book, versions, execs, rsched, place, gate, tick, ask>>

\* Deployments and lifecycle edits move the gate and the stages.
LifecycleChanges(p, g) ==
    /\ place \in {"stage", "outside"}
    /\ place' = p /\ gate' = g
    /\ UNCHANGED <<now, book, versions, execs, rsched, tick, ask>>

Init ==
    /\ now = 0
    /\ book = [b \in Book |-> "unused"]
    /\ versions = [b \in Book |-> <<>>]
    /\ execs = <<>>
    /\ rsched = [s \in RSched |-> [used |-> FALSE, live |-> FALSE, on |-> FALSE,
                                   book |-> CHOOSE b \in Book : TRUE, ver |-> 0, next |-> 0]]
    /\ place = "stage" /\ gate = "open"
    /\ tick = [v \in Server |-> Idle]
    /\ ask = [u \in User |-> NoAsk]

ServerStep(v) == tickRunbooks(v) \/ fireRunbook(v) \/ fireScheduled(v) \/ afterRefusal(v)

Next ==
    \/ \E v \in Server : ServerStep(v)
    \/ \E u \in User :
        \/ \E b \in Book :
            \/ \E step \in Step : Save(u, b, step) \/ SaveAPI(u, b, step)
            \/ \E n \in 0 .. 1 :
                \/ Execute(u, b, n) \/ ExecuteAPI(u, b, n)
                \/ \E s \in RSched : Schedule(u, b, s, n) \/ CreateSchedule(u, b, s, n)
        \/ \E x \in Execs : Retry(u, x) \/ RetryAPI(u, x)
        \/ SaveRunbook(u) \/ CreateRunbookExecution(u) \/ CreateRunbookSchedule(u)
    \/ \E x \in Execs : Approve(x) \/ ApproveAPI(x) \/ Cancel(x) \/ CancelAPI(x) \/ Ends(x)
    \/ \E s \in RSched : DisableSchedule(s) \/ DisableScheduleAPI(s)
    \/ \E b \in Book : Delete(b) \/ DeleteAPI(b)
    \/ DeleteEnvironment \/ DeleteProject \/ Clock
    \/ \E p \in {"stage", "outside"}, g \in Gates : LifecycleChanges(p, g)

Spec == Init /\ [][Next]_vars

-----------------------------------------------------------------------------
(* Properties. *)

\* A deleted runbook is at rest: no execution of it waits, runs or has an
\* unknown outcome, and no schedule of it is enabled, though requests and
\* firings that had read it before come to their transactions later ("Deletion
\* disables schedules and prevents future execution, retry, version saving, and
\* schedule creation", docs/manual-e2e.md).
DeletedIsQuiet ==
    \A b \in Book : book[b] = "deleted" =>
        /\ \A x \in Execs : execs[x].book = b => execs[x].status \notin Busy
        /\ \A s \in RSched : rsched[s].book = b => ~rsched[s].on

\* Nor does it get new versions, executions or schedules.
DeletedStays ==
    [][\A b \in Book : book[b] \in {"deleted", "erased"} =>
        /\ book'[b] \in {"deleted", "erased"} /\ versions'[b] = versions[b]
        /\ \A x \in DOMAIN execs' \ Execs : execs'[x].book # b
        /\ \A s \in RSched : rsched'[s].on /\ ~rsched[s].on => rsched'[s].book # b]_vars

\* Each execution time of a schedule starts one execution, with any number of
\* servers ticking.
ScheduleFiresOnce ==
    \A x, y \in Execs :
        (x < y /\ execs[x].sched # 0 /\ execs[x].sched = execs[y].sched) => execs[x].at < execs[y].at

\* A schedule that was disabled, by a user, by a deletion or by the scheduler,
\* starts nothing afterwards.
DisabledFiresNothing ==
    [][\A x \in DOMAIN execs' \ Execs : execs'[x].sched # 0 => rsched[execs'[x].sched].on]_vars

\* A retry starts only when it is known what became of its source, and repeats
\* the version of its source.
RetryOfTheKnown ==
    [][\A x \in DOMAIN execs' \ Execs : execs'[x].src # 0 =>
        LET src == execs[execs'[x].src] IN
        src.status \notin Busy /\ src.ver = execs'[x].ver /\ src.book = execs'[x].book]_vars

\* A due schedule does not stay due: it fires, is skipped or is disabled.  Left
\* out are versions whose artifact gate settings are invalid, which fireRunbook
\* only logs and tries again at every tick, and the bound on executions.
Due(s) == rsched[s].live /\ rsched[s].on /\ rsched[s].next <= now /\ Len(execs) < MaxExec
=============================================================================
