----------------------------- MODULE Schedules -----------------------------
(***************************************************************************)
(* Scheduled deployments.  Every server ticks on its own: it reads the due *)
(* rows, decides about each from reads outside any transaction, and writes *)
(* the decision with one update guarded by the row as it was read.  Users  *)
(* create, edit, toggle and delete schedules meanwhile; an edit computes   *)
(* the next execution time before its transaction, and the toggle of the   *)
(* web pages computes it between two statements of its own.                *)
(***************************************************************************)
EXTENDS Integers, FiniteSets, Sequences

CONSTANTS
    Server,     \* servers that tick
    Sched,      \* scheduled_deployments ids
    User,       \* schedule requests that may be under way at once
    Target,     \* releases with the environment they are scheduled for
    Cron,       \* cron expressions: n fires at the multiples of n
    First,      \* cron of the schedule there is at first, or BadCron
    MaxTime,    \* bound on the clock
    MaxArm,     \* no request starts after that many writes of a schedule
    MaxStop     \* bound on server stops

BadCron == 0    \* an expression of an older release that never fires
Far == 10 * MaxTime

ScheduleAssumption ==
    /\ Cron \subseteq Nat \ {0} /\ First \in Cron \cup {BadCron}
    /\ MaxTime \in Nat \ {0} /\ MaxArm \in Nat /\ MaxStop \in Nat

VARIABLES
    now,        \* the clock
    sched,      \* scheduled_deployments
    target,     \* releases: "ok", "refused" (legacy step, gate settings), "gone"
    gate,       \* what the lifecycle says of a target
    tick,       \* per server: rows read as due, and the decision about one
    ask,        \* schedule requests between their reads and their writes
    fired,      \* deployments the scheduler created
    refused,    \* targets that were refused at some time
    stops       \* server stops so far

vars == <<now, sched, target, gate, tick, ask, fired, refused, stops>>

NoRow == [id |-> 0]
NoAsk == [op |-> "none"]
Idle == [due |-> {}, row |-> NoRow, do |-> "none", next |-> 0]

Live(s) == sched[s].live

\* Next: the first execution time after t.
Next(c, t) == c * (t \div c + 1)

-----------------------------------------------------------------------------
(* Queries. *)

Row(s) == [id |-> s, on |-> sched[s].on, next |-> sched[s].next, cron |-> sched[s].cron,
           target |-> sched[s].target, err |-> sched[s].err, arm |-> sched[s].arm]

ListDueScheduledDeployments ==
    {Row(s) : s \in {i \in Sched : Live(i) /\ sched[i].on /\ sched[i].next <= now}}

\* The WHERE of AdvanceScheduledDeploymentOccurrence: the row as observed.
Unchanged(row) ==
    /\ Live(row.id) /\ sched[row.id].on /\ sched[row.id].next = row.next
    /\ sched[row.id].target = row.target /\ sched[row.id].cron = row.cron

\* updateScheduledOccurrence: cursor, enabled and last_error are all written.
AdvanceScheduledDeploymentOccurrence(row, next, on, err) ==
    IF Unchanged(row)
    THEN sched' = [sched EXCEPT ![row.id].next = next, ![row.id].on = on, ![row.id].err = err]
    ELSE UNCHANGED sched

-----------------------------------------------------------------------------
(* The scheduler. *)

\* tick: read what is due; with nothing due the tick is over.
Tick(v) ==
    /\ tick[v] = Idle /\ ListDueScheduledDeployments # {}
    /\ tick' = [tick EXCEPT ![v].due = ListDueScheduledDeployments]
    /\ UNCHANGED <<now, sched, target, gate, ask, fired, refused, stops>>

\* Rows in the order of their execution times.
Earliest(v) == {r \in tick[v].due : \A o \in tick[v].due : r.next <= o.next}

\* What fireOne makes of a row: an unusable cron parks it, a gate skips it; a
\* release that is gone, like a read that fails, leaves the row for later.
Decision(row) ==
    CASE row.cron = BadCron -> "park"
      [] row.cron # BadCron /\ target[row.target] = "gone" -> "leave"
      [] row.cron # BadCron /\ target[row.target] # "gone" /\ gate[row.target] = "blocked" -> "skip"
      [] OTHER -> "fire"

\* Mutant of fireOne: a blocked row is left for the next tick.
LeaveBlocked(v) ==
    /\ tick[v].row = NoRow
    /\ \E row \in Earliest(v) :
        tick' = [tick EXCEPT ![v].due = @ \ {row}, ![v].row = row,
                    ![v].do = IF Decision(row) = "skip" THEN "leave" ELSE Decision(row),
                    ![v].next = IF row.cron = BadCron THEN Far ELSE Next(row.cron, now)]
    /\ UNCHANGED <<now, sched, target, gate, ask, fired, refused, stops>>

\* fireOne up to its write: parse, next execution time from now, gate.
fireOne(v) ==
    /\ tick[v].row = NoRow
    /\ \E row \in Earliest(v) :
        tick' = [tick EXCEPT ![v].due = @ \ {row}, ![v].row = row, ![v].do = Decision(row),
                    ![v].next = IF row.cron = BadCron THEN Far ELSE Next(row.cron, now)]
    /\ UNCHANGED <<now, sched, target, gate, ask, fired, refused, stops>>

RowDone(v) == tick' = [tick EXCEPT ![v].row = NoRow, ![v].do = "none", ![v].next = 0]

\* park, and advance for a skipped row.
park(v) ==
    /\ tick[v].do = "park"
    /\ AdvanceScheduledDeploymentOccurrence(tick[v].row, tick[v].next, TRUE, tick[v].row.err)
    /\ RowDone(v)
    /\ UNCHANGED <<now, target, gate, ask, fired, refused, stops>>

advance(v) ==
    /\ tick[v].do = "skip"
    /\ AdvanceScheduledDeploymentOccurrence(tick[v].row, tick[v].next, TRUE, tick[v].row.err)
    /\ RowDone(v)
    /\ UNCHANGED <<now, target, gate, ask, fired, refused, stops>>

leave(v) ==
    /\ tick[v].do = "leave"
    /\ RowDone(v)
    /\ UNCHANGED <<now, sched, target, gate, ask, fired, refused, stops>>

\* Mutant: the deployment is created and the cursor is left to a later write.
FireWithoutCursor(v) ==
    LET row == tick[v].row IN
    /\ tick[v].do = "fire"
    /\ IF ~Unchanged(row) \/ target[row.target] # "ok"
       THEN RowDone(v) /\ UNCHANGED fired
       ELSE /\ fired' = Append(fired, [id |-> row.id, at |-> row.next, arm |-> sched[row.id].arm,
                                       target |-> row.target])
            /\ tick' = [tick EXCEPT ![v].do = "skip"]
    /\ UNCHANGED <<now, sched, target, gate, ask, refused, stops>>

\* CreateScheduledOccurrence: the cursor and the deployment in one queue
\* transaction; a release that is refused rolls both back.
CreateScheduledOccurrence(v) ==
    LET row == tick[v].row IN
    /\ tick[v].do = "fire"
    /\ IF ~Unchanged(row) \/ target[row.target] = "gone"
       THEN RowDone(v) /\ UNCHANGED <<sched, fired>>
       ELSE IF target[row.target] = "refused"
       THEN tick' = [tick EXCEPT ![v].do = "disable"] /\ UNCHANGED <<sched, fired>>
       ELSE /\ AdvanceScheduledDeploymentOccurrence(row, tick[v].next, TRUE, row.err)
            /\ fired' = Append(fired, [id |-> row.id, at |-> row.next, arm |-> sched[row.id].arm,
                                       target |-> row.target])
            /\ RowDone(v)
    /\ UNCHANGED <<now, target, gate, ask, refused, stops>>

\* The schedule of a refused release is disabled with the error.
UpdateScheduledOccurrence(v) ==
    /\ tick[v].do = "disable"
    /\ AdvanceScheduledDeploymentOccurrence(tick[v].row, tick[v].row.next, FALSE, TRUE)
    /\ RowDone(v)
    /\ UNCHANGED <<now, target, gate, ask, fired, refused, stops>>

\* Stop, or a crash: the rows read are forgotten.
Stop(v) ==
    /\ tick[v] # Idle /\ stops < MaxStop
    /\ tick' = [tick EXCEPT ![v] = Idle]
    /\ stops' = stops + 1
    /\ UNCHANGED <<now, sched, target, gate, ask, fired, refused>>

-----------------------------------------------------------------------------
(* Users. *)

\* ValidateExecutableRelease.
Executable(t) == target[t] = "ok"

Asking(u, request) ==
    /\ ask[u] = NoAsk /\ sched[request.id].arm < MaxArm
    /\ ask' = [ask EXCEPT ![u] = request]
    /\ UNCHANGED <<now, sched, target, gate, tick, fired, refused, stops>>

Answered(u) == ask' = [ask EXCEPT ![u] = NoAsk]

\* prepareScheduleForm: a form names a target and a usable cron expression.
Form(op, s, t, c, on) == [op |-> op, id |-> s, target |-> t, cron |-> c, on |-> on,
                          next |-> Next(c, now)]

Create(u, s, t, c, on) == ~sched[s].used /\ Executable(t) /\ Asking(u, Form("create", s, t, c, on))
CreateSchedule(u, s, t, c, on) == Create(u, s, t, c, on)
Update(u, s, t, c, on) == Live(s) /\ Executable(t) /\ Asking(u, Form("update", s, t, c, on))
UpdateSchedule(u, s, t, c, on) == Update(u, s, t, c, on)

Saved(u, s) ==
    [used |-> TRUE, live |-> TRUE, on |-> ask[u].on, next |-> ask[u].next, cron |-> ask[u].cron,
     target |-> ask[u].target, err |-> FALSE, arm |-> sched[s].arm + 1]

\* CreateScheduledDeployment and UpdateScheduledDeployment: environment and
\* release are locked and must exist; the whole row is written.
CreateScheduledDeployment(u) ==
    /\ ask[u].op = "create"
    /\ LET s == ask[u].id IN
       IF ~sched[s].used /\ target[ask[u].target] # "gone"
       THEN sched' = [sched EXCEPT ![s] = Saved(u, s)] ELSE UNCHANGED sched
    /\ Answered(u)
    /\ UNCHANGED <<now, target, gate, tick, fired, refused, stops>>

UpdateScheduledDeployment(u) ==
    /\ ask[u].op = "update"
    /\ LET s == ask[u].id IN
       IF Live(s) /\ target[ask[u].target] # "gone"
       THEN sched' = [sched EXCEPT ![s] = Saved(u, s)] ELSE UNCHANGED sched
    /\ Answered(u)
    /\ UNCHANGED <<now, target, gate, tick, fired, refused, stops>>

Delete(s) ==
    /\ Live(s)
    /\ sched' = [sched EXCEPT ![s].live = FALSE, ![s].on = FALSE]
    /\ UNCHANGED <<now, target, gate, tick, ask, fired, refused, stops>>
DeleteSchedule(s) == Delete(s)

\* Toggle reads the row, and refuses to enable what could not run.
Toggle(u, s) ==
    /\ Live(s) /\ (~sched[s].on => Executable(sched[s].target))
    /\ Asking(u, [op |-> "toggle", id |-> s])
ToggleSchedule(u, s) ==
    /\ Live(s) /\ (~sched[s].on => Executable(sched[s].target))
    /\ Asking(u, [op |-> "toggleAPI", id |-> s])

\* The flip, of whatever the row is by now.  The API is done with it; the web
\* handler goes on to the next execution time of the cron it got back.
ToggleScheduledDeploymentEnabled(u) ==
    /\ ask[u].op \in {"toggle", "toggleAPI"}
    /\ LET s == ask[u].id IN
       IF Live(s)
       THEN /\ sched' = [sched EXCEPT ![s].on = ~@, ![s].err = @ /\ sched[s].on,
                                      ![s].arm = @ + 1]
            /\ IF ~sched[s].on /\ ask[u].op = "toggle" /\ sched[s].cron # BadCron
               THEN ask' = [ask EXCEPT ![u] = [op |-> "next", id |-> s,
                                               next |-> Next(sched[s].cron, now)]]
               ELSE Answered(u)
       ELSE Answered(u) /\ UNCHANGED sched
    /\ UNCHANGED <<now, target, gate, tick, fired, refused, stops>>

UpdateScheduledDeploymentNextRun(u) ==
    /\ ask[u].op = "next"
    /\ LET s == ask[u].id IN
       IF Live(s)
       THEN sched' = [sched EXCEPT ![s].next = ask[u].next, ![s].arm = @ + 1]
       ELSE UNCHANGED sched
    /\ Answered(u)
    /\ UNCHANGED <<now, target, gate, tick, fired, refused, stops>>

-----------------------------------------------------------------------------
(* The world around. *)

Clock ==
    /\ now < MaxTime
    /\ now' = now + 1
    /\ UNCHANGED <<sched, target, gate, tick, ask, fired, refused, stops>>

\* A deployment, or an edit of the lifecycle, changes what the gate says.
GateChanges(t, g) ==
    /\ gate' = [gate EXCEPT ![t] = g]
    /\ UNCHANGED <<now, sched, target, tick, ask, fired, refused, stops>>

\* The release is found to have a legacy step, or its project's artifact gate
\* or verification settings stop being valid.
Refuse(t) ==
    /\ target[t] = "ok"
    /\ target' = [target EXCEPT ![t] = "refused"]
    /\ refused' = refused \cup {t}
    /\ UNCHANGED <<now, sched, gate, tick, ask, fired, stops>>

\* DeleteRelease takes its schedules along.
DeleteRelease(t) ==
    /\ target[t] # "gone"
    /\ target' = [target EXCEPT ![t] = "gone"]
    /\ sched' = [s \in Sched |-> IF sched[s].target = t /\ Live(s)
                                 THEN [sched[s] EXCEPT !.live = FALSE, !.on = FALSE] ELSE sched[s]]
    /\ UNCHANGED <<now, gate, tick, ask, fired, refused, stops>>

-----------------------------------------------------------------------------
NoSched == [used |-> FALSE, live |-> FALSE, on |-> FALSE, next |-> 0, cron |-> First,
            target |-> CHOOSE t \in Target : TRUE, err |-> FALSE, arm |-> 0]

Init ==
    /\ now = 0
    /\ \E s \in Sched, t \in Target, on \in BOOLEAN :
        sched = [i \in Sched |-> IF i # s THEN NoSched
                 ELSE [NoSched EXCEPT !.used = TRUE, !.live = TRUE, !.on = on, !.target = t,
                                      !.next = IF First = BadCron THEN 1 ELSE First]]
    /\ target = [t \in Target |-> "ok"]
    /\ gate \in [Target -> {"open", "blocked"}]
    /\ tick = [v \in Server |-> Idle]
    /\ ask = [u \in User |-> NoAsk]
    /\ fired = <<>>
    /\ refused = {}
    /\ stops = 0

ServerStep(v) ==
    Tick(v) \/ fireOne(v) \/ park(v) \/ advance(v) \/ leave(v)
    \/ CreateScheduledOccurrence(v) \/ UpdateScheduledOccurrence(v)

UserStep(u) ==
    \/ \E s \in Sched :
        \/ \E t \in Target, c \in Cron, on \in BOOLEAN :
            \/ Create(u, s, t, c, on) \/ CreateSchedule(u, s, t, c, on)
            \/ Update(u, s, t, c, on) \/ UpdateSchedule(u, s, t, c, on)
        \/ Toggle(u, s) \/ ToggleSchedule(u, s)
    \/ CreateScheduledDeployment(u) \/ UpdateScheduledDeployment(u)
    \/ ToggleScheduledDeploymentEnabled(u) \/ UpdateScheduledDeploymentNextRun(u)

NextStep ==
    \/ \E v \in Server : ServerStep(v) \/ Stop(v)
    \/ \E u \in User : UserStep(u)
    \/ \E s \in Sched : Delete(s) \/ DeleteSchedule(s)
    \/ Clock
    \/ \E t \in Target :
        \/ \E g \in {"open", "blocked"} : GateChanges(t, g)
        \/ Refuse(t) \/ DeleteRelease(t)

Spec == Init /\ [][NextStep]_vars

-----------------------------------------------------------------------------
(* Properties. *)

\* Whatever servers tick at once, and crash between reading and writing, the
\* execution time a user's write led to fires once, and later ones follow it
\* (CreateScheduledOccurrence: "A stale or edited occurrence creates none").
FiredOnce ==
    \A i, j \in DOMAIN fired :
        (i < j /\ fired[i].id = fired[j].id /\ fired[i].arm = fired[j].arm)
            => fired[i].at < fired[j].at

\* What fires is the schedule as it is saved at that moment: enabled, due and
\* for the release it names, though the decision was made from an older read.
FiresWhatIsSaved ==
    [][\A i \in DOMAIN fired' \ DOMAIN fired :
            LET f == fired'[i] IN
            /\ Live(f.id) /\ sched[f.id].on /\ sched[f.id].next <= now
            /\ sched[f.id].target = f.target]_vars

\* A schedule that shows an error shows it about its own release: a disable
\* decided for the release it had before an edit is discarded.
ErrorOfItsRelease ==
    \A s \in Sched : sched[s].err => sched[s].target \in refused

\* A due schedule does not stay due: it is fired, skipped, parked, disabled,
\* or changed by a user.
Due(s) == Live(s) /\ sched[s].on /\ sched[s].next <= now

=============================================================================
