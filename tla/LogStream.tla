----------------------------- MODULE LogStream -----------------------------
(***************************************************************************)
(* The log of one deployment, from its writers to the browsers and API     *)
(* clients that follow it.                                                 *)
(*                                                                         *)
(* The runner and the agent of a remote step append rows under a lock that *)
(* makes ids follow commit order.  The broker only wakes readers up, and   *)
(* drops a wake-up when a reader's channel is full; a reader polls rows    *)
(* after its cursor, once a second at the latest, rechecks its access, and *)
(* sends the completion event when the deployment ended, its run is gone   *)
(* and nothing is left to read.  Clients lose connections and come back    *)
(* with the last event id they saw.                                        *)
(*                                                                         *)
(* Rows are their ids.  A second is one Tick.                              *)
(***************************************************************************)
EXTENDS Naturals, FiniteSets

CONSTANTS Clients,   \* followers of the log
          Formats,   \* "structured", "sse", "ndjson"
          MaxRows,   \* bound: rows of the log
          MaxDrops,  \* bound: connections lost
          Buffer,    \* capacity of a subscriber's channel (64)
          Batch      \* Logs.ExportBatch and Logs.PreviewBatch

Writers == {"runner", "agent"}

LogStreamAssumption ==
    /\ MaxRows \in Nat /\ MaxDrops \in Nat
    /\ Buffer \in Nat \ {0} /\ Batch \in Nat \ {0}
    /\ Formats \subseteq {"structured", "sse", "ndjson"} /\ Formats # {}

VARIABLES rows,    \* committed rows
          kind,    \* which writer a row is of
          last,    \* last id allocated
          writer,  \* what each writer is doing, and the id it has allocated
          lock,    \* holders of the deployment's log lock
          status,  \* the deployment: "running" or "ended"
          active,  \* LogBroker.active: "new", then "in" Run, then "out" of it
          stream,  \* a client's request at the server
          wakeups, \* wake-ups in a client's channel
          client,  \* what a client saw: rows, last event id, completion
          access,  \* the client may read the deployment
          seconds, \* ghost: whole seconds since access was revoked, at most 2
          late,    \* ghost: a row was sent a second after the revocation
          drops    \* connections lost so far

vars == <<rows, kind, last, writer, lock, status, active, stream, wakeups, client,
          access, seconds, late, drops>>
log == <<rows, kind, last, writer, lock, status, active>>

Ids == 1..MaxRows
NoStream == [pc |-> "off", format |-> "none", after |-> 0, todo |-> {}, full |-> FALSE,
             checked |-> FALSE]
NewClient == [got |-> {}, lastId |-> 0, format |-> "none", complete |-> FALSE]

-----------------------------------------------------------------------------
(* Writers *)

MutantLogUnlocked(w) == TRUE

\* LockDeploymentLogStream: held from the allocation of the id to the commit.
LockDeploymentLogStream(w) == lock = {}

\* The runner logs while it is in Run, also after the status is final; an agent
\* logs while the deployment runs.
MayLog(w) == IF w = "runner" THEN active = "in" ELSE status = "running"

withDeploymentLogTx(w) ==
    /\ writer[w].pc = "idle" /\ MayLog(w) /\ last < MaxRows
    /\ LockDeploymentLogStream(w)
    /\ lock' = lock \cup {w}
    /\ last' = last + 1
    /\ writer' = [writer EXCEPT ![w] = [pc |-> "insert", id |-> last + 1]]
    /\ UNCHANGED <<rows, kind, status, active, stream, wakeups, client, access, seconds,
                   late, drops>>

CreateStepDeploymentLog(w) ==
    /\ writer[w].pc = "insert"
    /\ rows' = rows \cup {writer[w].id}
    /\ kind' = [kind EXCEPT ![writer[w].id] = w]
    /\ lock' = lock \ {w}
    /\ writer' = [writer EXCEPT ![w].pc = "broadcast"]
    /\ UNCHANGED <<last, status, active, stream, wakeups, client, access, seconds, late,
                   drops>>

\* A full channel drops the wake-up.
Broadcast(w) ==
    /\ writer[w].pc = "broadcast"
    /\ wakeups' = [c \in Clients |->
                      IF stream[c].pc # "off" /\ wakeups[c] < Buffer THEN wakeups[c] + 1
                      ELSE wakeups[c]]
    /\ writer' = [writer EXCEPT ![w] = [pc |-> "idle", id |-> 0]]
    /\ UNCHANGED <<rows, kind, last, lock, status, active, stream, client, access, seconds,
                   late, drops>>

\* Run starts with the deployment claimed.
beginDeployment ==
    /\ active = "new" /\ status = "running"
    /\ active' = "in"
    /\ UNCHANGED <<rows, kind, last, writer, lock, status, stream, wakeups, client, access,
                   seconds, late, drops>>

\* The status becomes final.  An agent's tail is committed with it.
Ends ==
    /\ status = "running" /\ writer["agent"].pc # "insert"
    /\ status' = "ended"
    /\ UNCHANGED <<rows, kind, last, writer, lock, active, stream, wakeups, client, access,
                   seconds, late, drops>>

\* Run returns after its last log; the status may be final before or after that.
endDeployment ==
    /\ active = "in" /\ writer["runner"].pc = "idle"
    /\ active' = "out"
    /\ UNCHANGED <<rows, kind, last, writer, lock, status, stream, wakeups, client, access,
                   seconds, late, drops>>

-----------------------------------------------------------------------------
(* Readers *)

After(after) == {i \in rows : i > after}

\* readLogs: the next batch after the cursor.
readLogs(after) == {i \in After(after) : Cardinality({j \in After(after) : j < i}) < Batch}

\* ForEachDeploymentLogByDeploymentAsc: in a replay the rows of an agent's step
\* come after all others; otherwise rows are sent in the order of their ids.
Before(c, i, j) ==
    IF stream[c].pc = "replaying" /\ kind[i] # kind[j] THEN kind[i] = "runner" ELSE i < j

\* The row that is sent next.
Foremost(c, id) ==
    id \in stream[c].todo /\ \A j \in stream[c].todo \ {id} : Before(c, id, j)

streamOnly == <<log, access, seconds, drops>>

\* A request: the client's last event id is its cursor; open subscribes before
\* anything is read.
StreamLogs(c, f) ==
    /\ stream[c].pc = "off" /\ ~client[c].complete /\ access
    /\ client[c].format \in {"none", f}
    /\ stream' = [stream EXCEPT ![c] = [NoStream EXCEPT !.pc = "replay", !.format = f,
                     !.after = client[c].lastId, !.checked = TRUE]]
    /\ client' = [client EXCEPT ![c].format = f]
    /\ wakeups' = [wakeups EXCEPT ![c] = 0]
    /\ UNCHANGED <<late, streamOnly>>

\* replay: a text stream without a cursor starts with the whole log, up to the
\* watermark.
Replay(c) ==
    /\ stream[c].pc = "replay"
    /\ stream' = [stream EXCEPT ![c] =
           IF @.format = "structured" \/ @.after # 0 THEN [@ EXCEPT !.pc = "poll"]
           ELSE [@ EXCEPT !.pc = "replaying", !.todo = rows]]
    /\ UNCHANGED <<wakeups, client, late, streamOnly>>

\* canRead: access was checked within this second, or is checked now.
canRead(c) == stream[c].checked \/ access

Close(c) ==
    /\ stream' = [stream EXCEPT ![c] = NoStream]
    /\ wakeups' = [wakeups EXCEPT ![c] = 0]
    /\ UNCHANGED <<client, late, streamOnly>>

\* The id a frame carries: none during a replay, which is not in id order.
FrameId(c, id) == IF stream[c].pc = "replaying" \/ stream[c].format = "ndjson"
                  THEN client[c].lastId ELSE id

\* The cursor after a row: a replay keeps the largest.
Cursor(c, id) == IF id > stream[c].after THEN id ELSE stream[c].after

\* writeStreamLog: one row of the batch or of the replay.
writeLog(c) ==
    /\ stream[c].pc \in {"replaying", "sending"}
    /\ canRead(c)
    /\ \E id \in stream[c].todo :
        /\ Foremost(c, id)
        /\ client' = [client EXCEPT ![c].got = @ \cup {id}, ![c].lastId = FrameId(c, id)]
        /\ stream' = [stream EXCEPT ![c].todo = @ \ {id}, ![c].after = Cursor(c, id),
                                    ![c].checked = TRUE]
    /\ late' = (late \/ seconds > 0)
    /\ UNCHANGED <<wakeups, streamOnly>>

\* An SSE replay of some rows ends with a frame that tells the client its cursor.
TellsCursor(c) == stream[c].format = "sse" /\ stream[c].after # 0

Revoked(c) ==
    /\ \/ stream[c].pc \in {"replaying", "sending"} /\ stream[c].todo # {}
       \/ stream[c].pc = "replaying" /\ TellsCursor(c)
    /\ ~canRead(c)
    /\ Close(c)

ReplayDone(c) ==
    /\ stream[c].pc = "replaying" /\ stream[c].todo = {}
    /\ TellsCursor(c) => canRead(c)
    /\ client' = [client EXCEPT ![c].lastId =
                     IF TellsCursor(c) THEN stream[c].after ELSE @]
    /\ stream' = [stream EXCEPT ![c].pc = "poll", ![c].checked = @ \/ TellsCursor(c)]
    /\ UNCHANGED <<wakeups, late, streamOnly>>

\* poll: access is checked, then the next batch is read.
Poll(c) ==
    /\ stream[c].pc = "poll" /\ access
    /\ stream' = [stream EXCEPT ![c].pc = "sending", ![c].checked = TRUE,
                     ![c].todo = readLogs(stream[c].after),
                     ![c].full = Cardinality(readLogs(stream[c].after)) = Batch]
    /\ UNCHANGED <<wakeups, client, late, streamOnly>>

PollRefused(c) == stream[c].pc = "poll" /\ ~access /\ Close(c)

Sent(c) ==
    /\ stream[c].pc = "sending" /\ stream[c].todo = {}
    /\ stream' = [stream EXCEPT ![c].pc = IF stream[c].full THEN "poll" ELSE "status"]
    /\ UNCHANGED <<wakeups, client, late, streamOnly>>

-----------------------------------------------------------------------------
(* Completion *)

To(c, pc) ==
    /\ stream' = [stream EXCEPT ![c].pc = pc]
    /\ UNCHANGED <<wakeups, client, late, streamOnly>>

\* completion, its three reads: the status, the broker, the rows once more.
ReadStatus(c) ==
    stream[c].pc = "status" /\ To(c, IF status = "ended" THEN "active" ELSE "waiting")

DeploymentActive(c) == active = "in"

ReadActive(c) ==
    stream[c].pc = "active" /\ To(c, IF DeploymentActive(c) THEN "waiting" ELSE "remaining")

NothingRemains(c) == readLogs(stream[c].after) = {}

ReadRemaining(c) ==
    /\ stream[c].pc = "remaining" /\ ~NothingRemains(c)
    /\ To(c, "poll")

\* The completion event, which ends the request and the client's interest.
completion(c) ==
    /\ stream[c].pc = "remaining" /\ NothingRemains(c)
    /\ client' = [client EXCEPT ![c].complete = TRUE]
    /\ stream' = [stream EXCEPT ![c] = NoStream]
    /\ wakeups' = [wakeups EXCEPT ![c] = 0]
    /\ UNCHANGED <<late, streamOnly>>

WakeUp(c) ==
    /\ stream[c].pc = "waiting" /\ wakeups[c] > 0
    /\ wakeups' = [wakeups EXCEPT ![c] = @ - 1]
    /\ stream' = [stream EXCEPT ![c].pc = "poll"]
    /\ UNCHANGED <<client, late, streamOnly>>

MutantNoTicker(c) == FALSE
\* The ticker of streamLogs bounds a wait whose wake-up was dropped.
Ticker(c) == stream[c].pc = "waiting"

TickerFires(c) == Ticker(c) /\ To(c, "poll")

-----------------------------------------------------------------------------
(* Access, time and lost connections *)

RevokeAccess ==
    /\ access
    /\ access' = FALSE
    /\ UNCHANGED <<log, stream, wakeups, client, seconds, late, drops>>

\* A second passes: no check is younger than a second any more.
Tick ==
    /\ seconds' = IF access \/ seconds = 2 THEN seconds ELSE seconds + 1
    /\ stream' = [c \in Clients |-> [stream[c] EXCEPT !.checked = FALSE]]
    /\ UNCHANGED <<log, wakeups, client, access, late, drops>>

\* watchLogAccess, every second and whatever the stream is waiting for.
watchLogAccess(c) == stream[c].pc # "off" /\ seconds > 0

Watch(c) == watchLogAccess(c) /\ Close(c)

\* A connection is lost; the client keeps what it saw and its last event id.
\* An NDJSON stream carries no ids: its client starts over.
Disconnect(c) ==
    /\ stream[c].pc # "off" /\ drops < MaxDrops
    /\ drops' = drops + 1
    /\ stream' = [stream EXCEPT ![c] = NoStream]
    /\ wakeups' = [wakeups EXCEPT ![c] = 0]
    /\ UNCHANGED <<log, client, access, seconds, late>>

-----------------------------------------------------------------------------
Init ==
    /\ rows = {} /\ last = 0 /\ lock = {} /\ status = "running" /\ active = "new"
    /\ kind = [i \in Ids |-> "none"]
    /\ writer = [w \in Writers |-> [pc |-> "idle", id |-> 0]]
    /\ stream = [c \in Clients |-> NoStream]
    /\ wakeups = [c \in Clients |-> 0]
    /\ client = [c \in Clients |-> NewClient]
    /\ access = TRUE /\ seconds = 0 /\ late = FALSE /\ drops = 0

\* What a request does by itself.
Serve(c) ==
    \/ Replay(c) \/ writeLog(c) \/ Revoked(c) \/ ReplayDone(c) \/ Poll(c) \/ PollRefused(c)
    \/ Sent(c) \/ ReadStatus(c) \/ ReadActive(c) \/ ReadRemaining(c) \/ completion(c)
    \/ WakeUp(c) \/ TickerFires(c)

Write(w) == withDeploymentLogTx(w) \/ CreateStepDeploymentLog(w) \/ Broadcast(w)

Next ==
    \/ \E w \in Writers : Write(w)
    \/ beginDeployment \/ Ends \/ endDeployment
    \/ \E c \in Clients : Serve(c) \/ Watch(c) \/ Disconnect(c)
    \/ \E c \in Clients, f \in Formats : StreamLogs(c, f)
    \/ RevokeAccess \/ Tick

Spec == Init /\ [][Next]_vars

-----------------------------------------------------------------------------
(* Properties *)

\* What readers hold is committed, and channels keep their capacity.
TypeOK ==
    /\ rows \subseteq 1..last /\ last <= MaxRows /\ lock \subseteq Writers
    /\ \A c \in Clients : /\ client[c].got \subseteq rows
                          /\ client[c].lastId \in 0..last /\ stream[c].after \in 0..last
                          /\ wakeups[c] \in 0..Buffer

\* A client resumes after its last event id, so it must have every row up to it,
\* whatever was committed, replayed or lost meanwhile (frames of writeStreamLog,
\* the lock of withDeploymentLogTx).
CursorCovers == \A c \in Clients : {i \in rows : i <= client[c].lastId} \subseteq client[c].got

\* The completion event comes after the whole log: nothing is committed later
\* and nothing was left out (completion).
CompleteMeansAll ==
    \A c \in Clients : client[c].complete => rows \subseteq client[c].got /\ lock = {}

\* No row is sent a second or more after access was revoked (canRead).
RevokedStops == ~late

\* What a follower of a log may count on, however often it comes back.
FollowerServed == TypeOK /\ CursorCovers /\ CompleteMeansAll /\ RevokedStops

=============================================================================
