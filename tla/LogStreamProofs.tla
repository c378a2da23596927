--------------------------- MODULE LogStreamProofs ---------------------------
(*****************************************************************************)
(* The followers of a log, for any number of clients and rows, any batch and *)
(* buffer, and any number of lost connections.                               *)
(*                                                                           *)
(* A cursor is a promise that nothing at or below it is missing.  It holds   *)
(* because a row that is not committed yet has the largest id of all (the    *)
(* lock of withDeploymentLogTx), so that a row never appears below a cursor, *)
(* and because a reader has sent, or has yet to send, every row below any    *)
(* row it was going to send (Good).  The completion event is the last word   *)
(* because a status read before the broker, and the broker before the rows,  *)
(* leave no writer: Quiet.                                                   *)
(*****************************************************************************)
EXTENDS LogStream, FiniteSetTheorems, WellFoundedInduction, TLAPS

Pcs == {"off", "replay", "replaying", "poll", "sending", "status", "active", "remaining",
        "waiting"}
Kinds == {"none", "structured", "sse", "ndjson"}

StreamSet == [pc : Pcs, format : Kinds, after : Nat, todo : SUBSET Nat, full : BOOLEAN,
              checked : BOOLEAN]
ClientSet == [got : SUBSET Nat, lastId : Nat, format : Kinds, complete : BOOLEAN]
WriterSet == [pc : {"idle", "insert", "broadcast"}, id : Nat]

\* The types of the tables and of what requests and clients hold.
Typed ==
    /\ last \in Nat /\ last <= MaxRows /\ rows \subseteq 1 .. last
    /\ writer \in [Writers -> WriterSet]
    /\ status \in {"running", "ended"} /\ active \in {"new", "in", "out"}
    /\ stream \in [Clients -> StreamSet]
    /\ client \in [Clients -> ClientSet]
    /\ wakeups \in [Clients -> 0 .. Buffer]
    /\ access \in BOOLEAN /\ seconds \in 0 .. 2 /\ late \in BOOLEAN

\* One writer at a time is between the allocation of an id and its commit, and
\* its id is the largest.
Locked ==
    /\ lock = {w \in Writers : writer[w].pc = "insert"}
    /\ \A v, w \in lock : v = w
    /\ \A w \in lock : writer[w].id = last /\ last # 0 /\ last \notin rows

\* Outside Run the runner writes nothing, and no agent after the end.
Quiet ==
    /\ active # "in" => writer["runner"].pc = "idle"
    /\ status = "ended" => writer["agent"].pc # "insert"

Over == status = "ended" /\ active # "in"

\* What a request s and its client k know is in the log; every row up to one
\* that s will send, or up to its cursor, was sent or will be; every row up to
\* the client's last event id was sent.
Good(s, k) ==
    /\ k.got \subseteq rows /\ s.todo \subseteq rows
    /\ k.lastId \in rows \cup {0} /\ s.after \in rows \cup {0}
    /\ s.todo # {} => s.pc \in {"replaying", "sending"}
    /\ \A i \in rows, t \in s.todo \cup {s.after} : i <= t => i \in k.got \cup s.todo
    /\ \A i \in rows : i <= k.lastId => i \in k.got
    /\ s.pc \in {"active", "remaining"} => status = "ended"
    /\ s.pc = "remaining" => active # "in"
    /\ k.complete => Over /\ rows \subseteq k.got
    /\ seconds > 0 => s.checked = FALSE

Served == \A c \in Clients : Good(stream[c], client[c])

\* A second after the revocation nothing was sent.
Withdrawn == late = FALSE /\ (seconds > 0 => access = FALSE)

LogInv == Typed /\ Locked /\ Quiet /\ Served /\ Withdrawn

-----------------------------------------------------------------------------
(* A batch is the front of what follows the cursor.                          *)

LEMMA AfterFinite ==
    ASSUME Typed, NEW a \in Nat
    PROVE  /\ After(a) \subseteq Nat
           /\ \A S \in SUBSET After(a) : IsFiniteSet(S) /\ Cardinality(S) \in Nat
<1>1. IsFiniteSet(1 .. last)
  BY FS_Interval DEF Typed
<1>2. After(a) \subseteq 1 .. last /\ After(a) \subseteq Nat
  <2>1. last \in Nat /\ rows \subseteq 1 .. last
    BY DEF Typed
  <2>2. \A i \in 1 .. last : i \in Nat
    BY <2>1
  <2>. QED
    BY <2>1, <2>2 DEF After
<1>3. ASSUME NEW S \in SUBSET After(a) PROVE IsFiniteSet(S) /\ Cardinality(S) \in Nat
  BY <1>1, <1>2, <1>3, FS_Subset, FS_CardinalityType
<1>. QED
  BY <1>2, <1>3

LEMMA BatchIsFront ==
    ASSUME Typed, LogStreamAssumption, NEW a \in Nat,
           NEW t \in readLogs(a), NEW i \in After(a), i <= t
    PROVE  i \in readLogs(a)
<1>. DEFINE Below(n) == {j \in After(a) : j < n}
<1>1. After(a) \subseteq Nat /\ t \in After(a) /\ Cardinality(Below(t)) < Batch
  BY AfterFinite DEF readLogs
<1>2. Below(i) \subseteq Below(t)
  BY <1>1
<1>3. IsFiniteSet(Below(t)) /\ IsFiniteSet(Below(i))
  BY AfterFinite
<1>4. Cardinality(Below(i)) <= Cardinality(Below(t))
  BY <1>2, <1>3, FS_Subset
<1>5. /\ Cardinality(Below(i)) \in Nat /\ Cardinality(Below(t)) \in Nat
      /\ Batch \in Nat
  BY <1>3, FS_CardinalityType DEF LogStreamAssumption
<1>6. Cardinality(Below(i)) < Batch
  BY <1>1, <1>4, <1>5
<1>. QED
  BY <1>6 DEF readLogs

\* The first row after the cursor is in every batch, so an empty batch means
\* that there is none (ReadRemaining).
LEMMA EmptyBatch ==
    ASSUME Typed, LogStreamAssumption, NEW a \in Nat, readLogs(a) = {}
    PROVE  After(a) = {}
<1>. DEFINE R == OpToRel(<, Nat)
            A == After(a)
<1>0. SUFFICES ASSUME A # {} PROVE FALSE
  OBVIOUS
<1>1. IsWellFoundedOn(R, Nat)
  BY NatLessThanWellFounded
<1>2. \A x, y \in Nat : x < y => <<x, y>> \in R
  BY DEF OpToRel
<1>. HIDE DEF R
<1>3. A \subseteq Nat
  BY AfterFinite
<1>4. PICK m \in A : \A j \in A : ~(<<j, m>> \in R)
  <2>. HIDE DEF A
  <2>. QED
    BY <1>0, <1>1, <1>3, WFMin
<1>5. {j \in After(a) : j < m} = {}
  BY <1>2, <1>3, <1>4
<1>6. Cardinality({j \in After(a) : j < m}) < Batch
  BY <1>5, FS_EmptySet DEF LogStreamAssumption
<1>. QED
  BY <1>4, <1>6 DEF readLogs

-----------------------------------------------------------------------------
(* A step of one request.                                                    *)

LEMMA RequestStep ==
    ASSUME LogInv, NEW c \in Clients, NEW s \in StreamSet, NEW k \in ClientSet,
           UNCHANGED <<log, access, seconds>>,
           stream' = [stream EXCEPT ![c] = s], client' = [client EXCEPT ![c] = k],
           wakeups' \in [Clients -> 0 .. Buffer], late' = FALSE,
           Good(s, k)
    PROVE  LogInv'
<1>1. Typed'
  BY DEF LogInv, Typed, log
<1>2. Locked' /\ Quiet'
  BY DEF LogInv, Locked, Quiet, log
<1>3. Served'
  <2>1. ASSUME NEW d \in Clients PROVE Good(stream'[d], client'[d])
    BY <2>1 DEF LogInv, Typed, Served
  <2>2. ASSUME NEW d \in Clients PROVE Good(stream[d], client[d])'
    BY <2>1, <2>2 DEF Good, Over, log
  <2>. QED
    BY <2>2 DEF Served
<1>4. Withdrawn'
  BY DEF LogInv, Withdrawn
<1>. QED
  BY <1>1, <1>2, <1>3, <1>4 DEF LogInv

\* Closing a request forgets it.
LEMMA Forgets ==
    ASSUME LogInv, NEW c \in Clients,
           UNCHANGED <<log, access, seconds, late, client>>,
           stream' = [stream EXCEPT ![c] = NoStream],
           wakeups' = [wakeups EXCEPT ![c] = 0], LogStreamAssumption
    PROVE  LogInv'
<1>1. NoStream \in StreamSet
  BY DEF NoStream, StreamSet, Pcs, Kinds
<1>2. client[c] \in ClientSet /\ client' = [client EXCEPT ![c] = client[c]]
  BY DEF LogInv, Typed
<1>3. wakeups' \in [Clients -> 0 .. Buffer] /\ late' = FALSE
  BY DEF LogInv, Typed, Withdrawn, LogStreamAssumption
<1>4. Good(NoStream, client[c])
  <2>1. Good(stream[c], client[c]) /\ rows \subseteq 1 .. last /\ last \in Nat
    BY DEF LogInv, Served, Typed
  <2>. QED
    BY <2>1 DEF Good, NoStream
<1>. QED
  BY <1>1, <1>2, <1>3, <1>4, RequestStep

LEMMA ChannelEmptied ==
    ASSUME LogInv, LogStreamAssumption, NEW c \in Clients,
           wakeups' = [wakeups EXCEPT ![c] = 0]
    PROVE  wakeups' \in [Clients -> 0 .. Buffer]
BY DEF LogInv, Typed, LogStreamAssumption

\* What a request at c holds.
LEMMA Held ==
    ASSUME LogInv, NEW c \in Clients
    PROVE  /\ stream[c] \in StreamSet /\ client[c] \in ClientSet
           /\ Good(stream[c], client[c])
           /\ rows \subseteq Nat
           /\ client = [client EXCEPT ![c] = client[c]]
           /\ stream = [stream EXCEPT ![c] = stream[c]]
           /\ wakeups \in [Clients -> 0 .. Buffer] /\ late = FALSE
<1>1. rows \subseteq 1 .. last /\ last \in Nat
  BY DEF LogInv, Typed
<1>2. \A i \in 1 .. last : i \in Nat
  BY <1>1
<1>. QED
  BY <1>1, <1>2 DEF LogInv, Typed, Served, Withdrawn

\* A request that has nothing to send goes on; what it read before the rows it
\* must have read.
LEMMA GoesOn ==
    ASSUME LogInv, NEW c \in Clients, NEW p \in Pcs,
           stream' = [stream EXCEPT ![c].pc = p], stream[c].todo = {},
           UNCHANGED <<log, access, seconds, late, client>>,
           wakeups' \in [Clients -> 0 .. Buffer],
           p \in {"active", "remaining"} => status = "ended",
           p = "remaining" => active # "in"
    PROVE  LogInv'
<1>. DEFINE s == [stream[c] EXCEPT !.pc = p]
<1>1. s \in StreamSet
  BY Held DEF StreamSet
<1>2. Good(s, client[c])
  BY Held DEF Good, StreamSet
<1>3. stream' = [stream EXCEPT ![c] = s] /\ late' = FALSE
  BY Held
<1>. HIDE DEF s
<1>. QED
  BY <1>1, <1>2, <1>3, Held, RequestStep

\* Only a replay or a batch has rows to send.
LEMMA NothingToSend ==
    ASSUME LogInv, NEW c \in Clients, stream[c].pc \notin {"replaying", "sending"}
    PROVE  stream[c].todo = {}
BY Held DEF Good

LEMMA ToKeeps ==
    ASSUME LogInv, NEW c \in Clients, NEW p \in Pcs, To(c, p), stream[c].todo = {},
           p \in {"active", "remaining"} => status = "ended",
           p = "remaining" => active # "in"
    PROVE  LogInv'
<1>1. wakeups' \in [Clients -> 0 .. Buffer]
  BY Held DEF To
<1>. QED
  BY <1>1, GoesOn DEF To, streamOnly

LEMMA CloseKeeps ==
    ASSUME LogInv, LogStreamAssumption, NEW c \in Clients, Close(c)
    PROVE  LogInv'
BY Forgets DEF Close, streamOnly

LEMMA FormatsAreKinds ==
    ASSUME LogStreamAssumption, NEW f \in Formats
    PROVE  f \in Kinds
BY DEF LogStreamAssumption, Kinds

\* Access now, or a check within the second, means that no second has passed
\* since a revocation.
LEMMA InTime ==
    ASSUME LogInv, NEW c \in Clients, access \/ canRead(c)
    PROVE  seconds = 0
<1>1. seconds \in 0 .. 2 /\ (seconds > 0 => access = FALSE)
  BY DEF LogInv, Typed, Withdrawn
<1>2. seconds > 0 => stream[c].checked = FALSE
  BY Held DEF Good
<1>. QED
  BY <1>1, <1>2 DEF canRead

LEMMA StreamLogsKeeps ==
    ASSUME LogInv, LogStreamAssumption, NEW c \in Clients, NEW f \in Formats,
           StreamLogs(c, f)
    PROVE  LogInv'
<1>. DEFINE s == [NoStream EXCEPT !.pc = "replay", !.format = f,
                     !.after = client[c].lastId, !.checked = TRUE]
            k == [client[c] EXCEPT !.format = f]
<1>1. s \in StreamSet /\ k \in ClientSet
  BY Held, FormatsAreKinds DEF StreamSet, ClientSet, NoStream, Pcs
<1>2. seconds = 0
  BY InTime DEF StreamLogs
<1>3. Good(s, k)
  <2>1. /\ s.pc = "replay" /\ s.todo = {} /\ s.after = client[c].lastId
        /\ k.got = client[c].got /\ k.lastId = client[c].lastId
        /\ k.complete = client[c].complete
    BY Held DEF NoStream, ClientSet
  <2>. HIDE DEF s, k
  <2>2. \A i \in rows, t \in s.todo \cup {s.after} : i <= t => i \in k.got \cup s.todo
    <3>1. \A i \in rows : i <= client[c].lastId => i \in client[c].got
      BY Held DEF Good
    <3>. QED
      BY <2>1, <3>1
  <2>3. ~(seconds > 0)
    BY <1>2
  <2>. QED
    BY <2>1, <2>2, <2>3, Held DEF Good
<1>4. /\ stream' = [stream EXCEPT ![c] = s] /\ client' = [client EXCEPT ![c] = k]
      /\ late' = FALSE /\ UNCHANGED <<log, access, seconds>>
  BY Held DEF StreamLogs, streamOnly
<1>5. wakeups' \in [Clients -> 0 .. Buffer]
  BY ChannelEmptied DEF StreamLogs
<1>. HIDE DEF s, k
<1>. QED
  BY <1>1, <1>3, <1>4, <1>5, RequestStep

LEMMA ReplayKeeps ==
    ASSUME LogInv, NEW c \in Clients, Replay(c)
    PROVE  LogInv'
<1>0. stream[c].todo = {}
  BY NothingToSend DEF Replay
<1>1. UNCHANGED <<log, access, seconds, late, client>>
      /\ wakeups' \in [Clients -> 0 .. Buffer] /\ late' = FALSE
      /\ client' = [client EXCEPT ![c] = client[c]]
  BY Held DEF Replay, streamOnly
<1>2. CASE stream' = [stream EXCEPT ![c].pc = "poll"]
  BY <1>0, <1>1, <1>2, GoesOn DEF Pcs
<1>. DEFINE s == [stream[c] EXCEPT !.pc = "replaying", !.todo = rows]
<1>3. CASE stream' = [stream EXCEPT ![c] = s]
  <2>1. s \in StreamSet
    BY Held DEF StreamSet, Pcs
  <2>2. Good(s, client[c])
    BY <1>0, Held DEF Good, StreamSet
  <2>. HIDE DEF s
  <2>. QED
    BY <1>1, <1>3, <2>1, <2>2, Held, RequestStep
<1>. QED
  BY <1>2, <1>3 DEF Replay

\* A row of a batch is sent after all smaller ones; in a replay no id is.
LEMMA writeLogKeeps ==
    ASSUME LogInv, NEW c \in Clients, writeLog(c)
    PROVE  LogInv'
<1>1. PICK id \in stream[c].todo :
        /\ Foremost(c, id)
        /\ client' = [client EXCEPT ![c].got = @ \cup {id}, ![c].lastId = FrameId(c, id)]
        /\ stream' = [stream EXCEPT ![c].todo = @ \ {id}, ![c].after = Cursor(c, id),
                                    ![c].checked = TRUE]
  BY DEF writeLog
<1>2. seconds = 0
  BY InTime DEF writeLog
<1>3. late' = FALSE /\ wakeups' \in [Clients -> 0 .. Buffer]
      /\ UNCHANGED <<log, access, seconds>>
  <2>0. ~(seconds > 0)
    BY <1>2
  <2>1. ~(seconds > 0) /\ late = FALSE
    BY <2>0, Held
  <2>2. late' = FALSE
    BY <2>1, Zenon DEF writeLog
  <2>. QED
    BY <2>2, Held DEF writeLog, streamOnly
<1>. DEFINE a == Cursor(c, id)
            l == FrameId(c, id)
            s == [stream[c] EXCEPT !.todo = @ \ {id}, !.after = a, !.checked = TRUE]
            k == [client[c] EXCEPT !.got = @ \cup {id}, !.lastId = l]
<1>4. id \in rows /\ id \in Nat /\ stream[c].after \in Nat /\ client[c].lastId \in Nat
  BY Held DEF Good, StreamSet, ClientSet
<1>5. a \in {id, stream[c].after} /\ l \in {id, client[c].lastId}
  BY DEF Cursor, FrameId
<1>6. \A i \in rows : i <= l => i \in client[c].got \cup {id}
  <2>1. CASE l = client[c].lastId
    BY <2>1, Held DEF Good
  <2>2. CASE l = id /\ l # client[c].lastId
    <3>1. stream[c].pc # "replaying"
      BY <2>2 DEF FrameId
    <3>2. \A j \in stream[c].todo \ {id} : id < j
      BY <1>1, <3>1 DEF Foremost, Before
    <3>3. ASSUME NEW i \in rows, i <= id, i # id PROVE i \in client[c].got
      <4>1. i \in client[c].got \cup stream[c].todo /\ i \in Nat
        BY <3>3, Held DEF Good
      <4>2. ~(id < i)
        BY <1>4, <3>3, <4>1
      <4>. QED
        BY <3>2, <3>3, <4>1, <4>2
    <3>. QED
      BY <2>2, <3>3
  <2>. QED
    BY <1>5, <2>1, <2>2
<1>7. s \in StreamSet /\ k \in ClientSet
  BY <1>4, <1>5, Held DEF StreamSet, ClientSet
<1>8. stream' = [stream EXCEPT ![c] = s] /\ client' = [client EXCEPT ![c] = k]
  BY <1>1
<1>9. Good(s, k)
  <2>. HIDE DEF a, l
  <2>0. Good(stream[c], client[c]) /\ stream[c] \in StreamSet /\ client[c] \in ClientSet
    BY Held
  <2>1. /\ s.pc = stream[c].pc /\ s.todo = stream[c].todo \ {id} /\ s.after = a
        /\ s.checked = TRUE
        /\ k.got = client[c].got \cup {id} /\ k.lastId = l
        /\ k.complete = client[c].complete
    BY <2>0 DEF StreamSet, ClientSet
  <2>. HIDE DEF s, k
  <2>2. \A i \in rows, t \in s.todo \cup {s.after} : i <= t => i \in k.got \cup s.todo
    BY <1>5, <2>0, <2>1 DEF Good
  <2>3. k.complete => Over /\ rows \subseteq k.got
    BY <2>0, <2>1 DEF Good
  <2>. QED
    BY <1>2, <1>4, <1>5, <1>6, <2>0, <2>1, <2>2, <2>3 DEF Good
<1>. HIDE DEF s, k
<1>. QED
  BY <1>3, <1>7, <1>8, <1>9, RequestStep

LEMMA ReplayDoneKeeps ==
    ASSUME LogInv, NEW c \in Clients, ReplayDone(c)
    PROVE  LogInv'
<1>. DEFINE s == [stream[c] EXCEPT !.pc = "poll", !.checked = @ \/ TellsCursor(c)]
            k == [client[c] EXCEPT !.lastId = IF TellsCursor(c) THEN stream[c].after ELSE @]
<1>0. TellsCursor(c) \in BOOLEAN
  BY DEF TellsCursor
<1>1. s \in StreamSet /\ k \in ClientSet
  BY <1>0, Held DEF StreamSet, ClientSet, Pcs
<1>2. /\ stream' = [stream EXCEPT ![c] = s] /\ client' = [client EXCEPT ![c] = k]
      /\ late' = FALSE /\ wakeups' \in [Clients -> 0 .. Buffer]
      /\ UNCHANGED <<log, access, seconds>> /\ stream[c].todo = {}
  BY Held DEF ReplayDone, streamOnly
<1>3. seconds > 0 => s.checked = FALSE
  <2>1. TellsCursor(c) => seconds = 0
    BY InTime DEF ReplayDone
  <2>2. ASSUME seconds > 0 PROVE stream[c].checked = FALSE /\ ~TellsCursor(c)
    <3>1. stream[c].checked = FALSE
      BY <2>2, Held DEF Good
    <3>2. seconds # 0
      BY <2>2
    <3>. QED
      BY <2>1, <3>1, <3>2
  <2>. QED
    BY <2>2, Held DEF StreamSet
<1>4. Good(s, k)
  BY <1>2, <1>3, Held DEF Good, StreamSet, ClientSet
<1>. HIDE DEF s, k
<1>. QED
  BY <1>1, <1>2, <1>4, RequestStep

LEMMA PollKeeps ==
    ASSUME LogInv, LogStreamAssumption, NEW c \in Clients, Poll(c)
    PROVE  LogInv'
<1>. DEFINE a == stream[c].after
            s == [stream[c] EXCEPT !.pc = "sending", !.checked = TRUE, !.todo = readLogs(a),
                     !.full = Cardinality(readLogs(a)) = Batch]
<1>0. readLogs(a) \subseteq rows /\ rows \subseteq Nat /\ a \in Nat
  BY Held DEF readLogs, After, StreamSet
<1>1. s \in StreamSet
  BY <1>0, Held DEF StreamSet, Pcs
<1>2. /\ stream' = [stream EXCEPT ![c] = s] /\ client' = [client EXCEPT ![c] = client[c]]
      /\ late' = FALSE /\ wakeups' \in [Clients -> 0 .. Buffer]
      /\ UNCHANGED <<log, access, seconds>>
  BY Held DEF Poll, streamOnly
<1>3. stream[c].todo = {} /\ seconds = 0
  BY NothingToSend, InTime DEF Poll
<1>4. \A i \in rows, t \in readLogs(a) \cup {a} : i <= t => i \in client[c].got \cup readLogs(a)
  <2>1. SUFFICES ASSUME NEW i \in rows, NEW t \in readLogs(a) \cup {a}, i <= t
                 PROVE  i \in client[c].got \cup readLogs(a)
    OBVIOUS
  <2>2. CASE i <= a
    BY <1>3, <2>2, Held DEF Good
  <2>3. CASE i > a
    <3>1. i \in After(a) /\ t \in readLogs(a)
      BY <1>0, <2>1, <2>3 DEF After
    <3>. QED
      BY <1>0, <2>1, <3>1, BatchIsFront DEF LogInv
  <2>. QED
    BY <1>0, <2>2, <2>3
<1>5. Good(s, client[c])
  <2>1. s.pc = "sending" /\ s.todo = readLogs(a) /\ s.after = a
    BY Held DEF StreamSet
  <2>2. ~(seconds > 0)
    BY <1>3
  <2>. HIDE DEF s
  <2>. QED
    BY <1>0, <1>4, <2>1, <2>2, Held DEF Good
<1>. HIDE DEF s
<1>. QED
  BY <1>1, <1>2, <1>5, Held, RequestStep

\* The end was read before the run, and the run before the rows: nothing is
\* written any more, and what was written was sent.
LEMMA completionKeeps ==
    ASSUME LogInv, LogStreamAssumption, NEW c \in Clients, completion(c)
    PROVE  LogInv'
<1>. DEFINE k == [client[c] EXCEPT !.complete = TRUE]
            a == stream[c].after
<1>1. NoStream \in StreamSet /\ k \in ClientSet
  BY Held DEF NoStream, StreamSet, ClientSet, Pcs, Kinds
<1>2. /\ stream' = [stream EXCEPT ![c] = NoStream] /\ client' = [client EXCEPT ![c] = k]
      /\ late' = FALSE /\ wakeups' \in [Clients -> 0 .. Buffer]
      /\ UNCHANGED <<log, access, seconds>>
  BY Held, ChannelEmptied DEF completion, streamOnly
<1>3. stream[c].pc = "remaining" /\ stream[c].todo = {}
  BY NothingToSend DEF completion
<1>4. Over
  BY <1>3, Held DEF Good, Over
<1>5. rows \subseteq Nat /\ a \in Nat
  BY Held DEF StreamSet
<1>6. After(a) = {}
  BY <1>5, EmptyBatch DEF completion, NothingRemains, LogInv
<1>7. \A i \in rows : i <= a
  BY <1>5, <1>6 DEF After
<1>8. rows \subseteq client[c].got
  BY <1>3, <1>7, Held DEF Good
<1>9. Good(NoStream, k)
  BY <1>4, <1>5, <1>8, Held DEF Good, NoStream, ClientSet
<1>. HIDE DEF k
<1>. QED
  BY <1>1, <1>2, <1>9, RequestStep

LEMMA ServeKeeps ==
    ASSUME LogInv, LogStreamAssumption, NEW c \in Clients, Serve(c)
    PROVE  LogInv'
<1>1. CASE Replay(c)
  BY <1>1, ReplayKeeps
<1>2. CASE writeLog(c)
  BY <1>2, writeLogKeeps
<1>3. CASE Revoked(c)
  BY <1>3, CloseKeeps DEF Revoked
<1>4. CASE ReplayDone(c)
  BY <1>4, ReplayDoneKeeps
<1>5. CASE Poll(c)
  BY <1>5, PollKeeps
<1>6. CASE PollRefused(c)
  BY <1>6, CloseKeeps DEF PollRefused
<1>7. CASE Sent(c)
  <2>. DEFINE p == IF stream[c].full THEN "poll" ELSE "status"
  <2>1. /\ p \in Pcs /\ p \notin {"active", "remaining"} /\ stream[c].todo = {}
        /\ stream' = [stream EXCEPT ![c].pc = p]
        /\ wakeups' \in [Clients -> 0 .. Buffer]
        /\ UNCHANGED <<log, access, seconds, late, client>>
    BY <1>7, Held DEF Sent, streamOnly, Pcs
  <2>. HIDE DEF p
  <2>. QED
    BY <2>1, GoesOn
<1>8. CASE ReadStatus(c)
  <2>. DEFINE p == IF status = "ended" THEN "active" ELSE "waiting"
  <2>1. /\ p \in Pcs /\ (p \in {"active", "remaining"} => status = "ended")
        /\ p # "remaining" /\ To(c, p) /\ stream[c].todo = {}
    BY <1>8, NothingToSend DEF ReadStatus, Pcs
  <2>. HIDE DEF p
  <2>. QED
    BY <2>1, ToKeeps
<1>9. CASE ReadActive(c)
  <2>. DEFINE p == IF DeploymentActive(c) THEN "waiting" ELSE "remaining"
  <2>1. status = "ended" /\ stream[c].todo = {}
    BY <1>9, Held, NothingToSend DEF ReadActive, Good
  <2>2. /\ p \in Pcs /\ To(c, p) /\ (p = "remaining" => active # "in")
    BY <1>9 DEF ReadActive, Pcs, DeploymentActive
  <2>. HIDE DEF p
  <2>. QED
    BY <2>1, <2>2, ToKeeps
<1>10. CASE ReadRemaining(c)
  <2>1. "poll" \in Pcs /\ To(c, "poll") /\ stream[c].todo = {}
    BY <1>10, NothingToSend DEF ReadRemaining, Pcs
  <2>. QED
    BY <2>1, ToKeeps
<1>11. CASE completion(c)
  BY <1>11, completionKeeps
<1>12. CASE WakeUp(c)
  <2>1. "poll" \in Pcs /\ stream[c].todo = {} /\ stream' = [stream EXCEPT ![c].pc = "poll"]
        /\ UNCHANGED <<log, access, seconds, late, client>>
    BY <1>12, NothingToSend DEF WakeUp, streamOnly, Pcs
  <2>2. wakeups' \in [Clients -> 0 .. Buffer]
    <3>0. wakeups[c] \in 0 .. Buffer /\ wakeups[c] > 0 /\ Buffer \in Nat
      BY <1>12, Held DEF WakeUp, LogStreamAssumption
    <3>1. wakeups[c] - 1 \in 0 .. Buffer
      BY <3>0
    <3>. QED
      BY <1>12, <3>1, Held DEF WakeUp
  <2>. QED
    BY <2>1, <2>2, GoesOn
<1>13. CASE TickerFires(c)
  <2>1. "poll" \in Pcs /\ To(c, "poll") /\ stream[c].todo = {}
    BY <1>13, NothingToSend DEF TickerFires, Ticker, Pcs
  <2>. QED
    BY <2>1, ToKeeps
<1>. QED
  BY <1>1, <1>2, <1>3, <1>4, <1>5, <1>6, <1>7, <1>8, <1>9, <1>10, <1>11, <1>12, <1>13
  DEF Serve

-----------------------------------------------------------------------------
(* The writers, and what happens to all requests at once.                    *)

\* A step that leaves requests, clients, access and time alone: what it does to
\* the log must be the end of no finished log, and no row below a cursor.
LEMMA LogStep ==
    ASSUME LogInv, Typed', Locked', Quiet',
           UNCHANGED <<stream, client, access, seconds, late>>,
           rows \subseteq rows', \A i \in rows' \ rows : i = last /\ last \notin rows,
           status = "ended" => status' = "ended",
           Over => Over' /\ rows' = rows,
           status = "ended" /\ active # "in" => active' # "in"
    PROVE  LogInv'
<1>1. Served'
  <2>1. SUFFICES ASSUME NEW c \in Clients PROVE Good(stream[c], client[c])'
    BY DEF Served
  <2>. DEFINE s == stream[c]
              k == client[c]
  <2>2. stream'[c] = s /\ client'[c] = k /\ seconds' = seconds
    OBVIOUS
  <2>3. Good(s, k) /\ rows \subseteq Nat /\ s \in StreamSet /\ k \in ClientSet
    BY Held
  <2>4. rows \subseteq 1 .. last /\ last \in Nat
    BY DEF LogInv, Typed
  <2>5. ASSUME NEW i \in rows', NEW t \in rows \cup {0}, i <= t PROVE i \in rows
    <3>1. ASSUME i \notin rows PROVE FALSE
      <4>1. i = last /\ last \notin rows
        BY <2>5, <3>1
      <4>2. t \in rows => t < last
        <5>1. t \in rows => t \in 1 .. last /\ t # last
          BY <2>4, <4>1
        <5>. QED
          BY <2>4, <5>1
      <4>3. t = 0 => FALSE
        <5>1. i \in 1 .. last'
          BY <2>5 DEF Typed
        <5>. QED
          BY <2>4, <2>5, <4>1, <5>1 DEF Typed
      <4>. QED
        BY <2>3, <2>4, <2>5, <4>1, <4>2, <4>3
    <3>. QED
      BY <3>1
  <2>6. /\ k.got \subseteq rows' /\ s.todo \subseteq rows'
        /\ k.lastId \in rows' \cup {0} /\ s.after \in rows' \cup {0}
    BY <2>3 DEF Good
  <2>7. \A i \in rows', t \in s.todo \cup {s.after} : i <= t => i \in k.got \cup s.todo
    <3>1. \A t \in s.todo \cup {s.after} : t \in rows \cup {0}
      BY <2>3 DEF Good
    <3>. QED
      BY <2>3, <2>5, <3>1 DEF Good
  <2>8. \A i \in rows' : i <= k.lastId => i \in k.got
    BY <2>3, <2>5 DEF Good
  <2>9. k.complete => Over' /\ rows' \subseteq k.got
    BY <2>3 DEF Good
  <2>10. /\ s.pc \in {"active", "remaining"} => status' = "ended"
         /\ s.pc = "remaining" => active' # "in"
    BY <2>3 DEF Good
  <2>. QED
    BY <2>2, <2>3, <2>6, <2>7, <2>8, <2>9, <2>10 DEF Good
<1>2. Withdrawn'
  BY DEF LogInv, Withdrawn
<1>. QED
  BY <1>1, <1>2 DEF LogInv

LEMMA withDeploymentLogTxKeeps ==
    ASSUME LogInv, LogStreamAssumption, NEW w \in Writers, withDeploymentLogTx(w)
    PROVE  LogInv'
<1>1. Typed'
  BY DEF LogInv, Typed, withDeploymentLogTx, LogStreamAssumption, WriterSet
<1>2. Locked'
  BY DEF LogInv, Typed, Locked, withDeploymentLogTx, LockDeploymentLogStream, WriterSet
<1>3. Quiet' /\ ~Over
  BY DEF LogInv, Typed, Quiet, withDeploymentLogTx, MayLog, Over, Writers, WriterSet
<1>. QED
  BY <1>1, <1>2, <1>3, LogStep DEF withDeploymentLogTx, Over

LEMMA CreateStepDeploymentLogKeeps ==
    ASSUME LogInv, NEW w \in Writers, CreateStepDeploymentLog(w)
    PROVE  LogInv'
<1>0. w \in lock /\ lock = {w} /\ writer[w].id = last /\ last \notin rows
  BY DEF LogInv, Locked, CreateStepDeploymentLog
<1>1. Typed'
  <2>0. last \in Nat /\ rows \subseteq 1 .. last
    BY DEF LogInv, Typed
  <2>1. last \in 1 .. last
    BY <1>0, <2>0 DEF LogInv, Locked
  <2>2. rows' \subseteq 1 .. last'
    BY <1>0, <2>0, <2>1 DEF CreateStepDeploymentLog
  <2>. QED
    BY <2>2 DEF LogInv, Typed, CreateStepDeploymentLog, WriterSet
<1>2. Locked'
  BY <1>0 DEF LogInv, Typed, Locked, CreateStepDeploymentLog, WriterSet
<1>3. Quiet' /\ ~Over
  BY DEF LogInv, Typed, Quiet, CreateStepDeploymentLog, Over, Writers, WriterSet
<1>. QED
  BY <1>0, <1>1, <1>2, <1>3, LogStep DEF CreateStepDeploymentLog, Over

LEMMA BroadcastKeeps ==
    ASSUME LogInv, LogStreamAssumption, NEW w \in Writers, Broadcast(w)
    PROVE  LogInv'
<1>0. wakeups' \in [Clients -> 0 .. Buffer]
  BY DEF LogInv, Typed, Broadcast, LogStreamAssumption
<1>1. Typed'
  BY <1>0 DEF LogInv, Typed, Broadcast, WriterSet
<1>2. Locked'
  BY DEF LogInv, Typed, Locked, Broadcast, WriterSet
<1>3. Quiet'
  BY DEF LogInv, Typed, Quiet, Broadcast, Writers, WriterSet
<1>. QED
  BY <1>1, <1>2, <1>3, LogStep DEF Broadcast, Over

LEMMA RunKeeps ==
    ASSUME LogInv, beginDeployment \/ Ends \/ endDeployment
    PROVE  LogInv'
<1>0. "runner" \in Writers /\ "agent" \in Writers
  BY DEF Writers
<1>1. Typed'
  BY DEF LogInv, Typed, beginDeployment, Ends, endDeployment
<1>2. Locked'
  BY DEF LogInv, Locked, beginDeployment, Ends, endDeployment
<1>3. Quiet'
  BY DEF LogInv, Quiet, beginDeployment, Ends, endDeployment
<1>. QED
  BY <1>1, <1>2, <1>3, LogStep DEF beginDeployment, Ends, endDeployment, Over

LEMMA RevokeAccessKeeps ==
    ASSUME LogInv, RevokeAccess
    PROVE  LogInv'
<1>1. Typed' /\ Withdrawn'
  BY DEF LogInv, Typed, Withdrawn, RevokeAccess, log
<1>2. Locked' /\ Quiet'
  BY DEF LogInv, Locked, Quiet, RevokeAccess, log
<1>3. Served'
  BY DEF LogInv, Served, Good, Over, RevokeAccess, log
<1>. QED
  BY <1>1, <1>2, <1>3 DEF LogInv

LEMMA TickKeeps ==
    ASSUME LogInv, Tick
    PROVE  LogInv'
<1>0. seconds' \in 0 .. 2 /\ (seconds' > 0 => access = FALSE)
  <2>1. seconds \in 0 .. 2 /\ (seconds > 0 => access = FALSE) /\ access \in BOOLEAN
    BY DEF LogInv, Typed, Withdrawn
  <2>2. CASE access \/ seconds = 2
    BY <2>1, <2>2 DEF Tick
  <2>3. CASE ~(access \/ seconds = 2)
    <3>1. seconds' = seconds + 1 /\ access = FALSE
      BY <2>1, <2>3, Zenon DEF Tick
    <3>. QED
      BY <2>1, <2>3, <3>1
  <2>. QED
    BY <2>2, <2>3
<1>1. stream' \in [Clients -> StreamSet]
  BY DEF LogInv, Typed, Tick, StreamSet
<1>2. Typed' /\ Withdrawn'
  BY <1>0, <1>1 DEF LogInv, Typed, Withdrawn, Tick, log
<1>3. Locked' /\ Quiet'
  BY DEF LogInv, Locked, Quiet, Tick, log
<1>4. ASSUME NEW c \in Clients PROVE Good(stream[c], client[c])'
  <2>. DEFINE s == stream'[c]
  <2>1. s = [stream[c] EXCEPT !.checked = FALSE]
    BY DEF Tick
  <2>2. /\ s.pc = stream[c].pc /\ s.todo = stream[c].todo /\ s.after = stream[c].after
        /\ s.checked = FALSE
    BY <2>1, Held DEF StreamSet
  <2>3. client' = client /\ UNCHANGED log
    BY DEF Tick
  <2>. HIDE DEF s
  <2>4. Good(s, client[c])
    BY <2>2, Held DEF Good
  <2>5. Good(stream[c], client[c])'
    BY <2>2, <2>3, <2>4 DEF Good, Over, log, s
  <2>. QED
    BY <2>5
<1>. QED
  BY <1>2, <1>3, <1>4 DEF LogInv, Served

-----------------------------------------------------------------------------
LEMMA InitInv ==
    ASSUME LogStreamAssumption, Init
    PROVE  LogInv
<1>1. NoStream \in StreamSet /\ NewClient \in ClientSet
  BY DEF NoStream, StreamSet, NewClient, ClientSet, Pcs, Kinds
<1>2. Typed
  <2>1. last \in Nat /\ last <= MaxRows /\ rows \subseteq 1 .. last
    BY DEF Init, LogStreamAssumption
  <2>2. wakeups \in [Clients -> 0 .. Buffer] /\ seconds \in 0 .. 2
    BY DEF Init, LogStreamAssumption
  <2>3. writer \in [Writers -> WriterSet] /\ access \in BOOLEAN /\ late \in BOOLEAN
    BY DEF Init, WriterSet
  <2>4. stream \in [Clients -> StreamSet] /\ client \in [Clients -> ClientSet]
    BY <1>1 DEF Init
  <2>. QED
    BY <2>1, <2>2, <2>3, <2>4 DEF Init, Typed
<1>3. Locked /\ Quiet /\ Withdrawn
  BY DEF Init, Locked, Quiet, Withdrawn, Writers
<1>4. Good(NoStream, NewClient)
  BY DEF Init, Good, NoStream, NewClient
<1>5. Served
  BY <1>4 DEF Init, Served
<1>. QED
  BY <1>2, <1>3, <1>5 DEF LogInv

LEMMA NextInv ==
    ASSUME LogStreamAssumption, LogInv, [Next]_vars
    PROVE  LogInv'
<1>1. ASSUME NEW w \in Writers, Write(w) PROVE LogInv'
  BY <1>1, withDeploymentLogTxKeeps, CreateStepDeploymentLogKeeps, BroadcastKeeps DEF Write
<1>2. CASE beginDeployment \/ Ends \/ endDeployment
  BY <1>2, RunKeeps
<1>3. ASSUME NEW c \in Clients, Serve(c) PROVE LogInv'
  BY <1>3, ServeKeeps
<1>4. ASSUME NEW c \in Clients, Watch(c) PROVE LogInv'
  BY <1>4, CloseKeeps DEF Watch
<1>5. ASSUME NEW c \in Clients, Disconnect(c) PROVE LogInv'
  BY <1>5, Forgets DEF Disconnect
<1>6. ASSUME NEW c \in Clients, NEW f \in Formats, StreamLogs(c, f) PROVE LogInv'
  BY <1>6, StreamLogsKeeps
<1>7. CASE RevokeAccess
  BY <1>7, RevokeAccessKeeps
<1>8. CASE Tick
  BY <1>8, TickKeeps
<1>9. CASE UNCHANGED vars
  <2>1. Typed' /\ Withdrawn'
    BY <1>9 DEF LogInv, Typed, Withdrawn, vars
  <2>2. Locked' /\ Quiet'
    BY <1>9 DEF LogInv, Locked, Quiet, vars
  <2>3. Served'
    BY <1>9 DEF LogInv, Served, Good, Over, vars
  <2>. QED
    BY <2>1, <2>2, <2>3 DEF LogInv
<1>. QED
  BY <1>1, <1>2, <1>3, <1>4, <1>5, <1>6, <1>7, <1>8, <1>9 DEF Next

LEMMA Inductive ==
    ASSUME LogStreamAssumption
    PROVE  Spec => []LogInv
<1>1. Init => LogInv
  BY InitInv
<1>2. LogInv /\ [Next]_vars => LogInv'
  BY NextInv
<1>. QED
  BY <1>1, <1>2, PTL DEF Spec

\* Every row a client has or a cursor names is committed, ids stay within those
\* allocated, and no channel holds more wake-ups than its capacity (Broadcast).
THEOREM LogTypeCorrect == LogStreamAssumption => (Spec => []TypeOK)
<1>. SUFFICES ASSUME LogStreamAssumption PROVE Spec => []TypeOK
  OBVIOUS
<1>1. LogInv => TypeOK
  <2>1. SUFFICES ASSUME LogInv PROVE TypeOK
    OBVIOUS
  <2>2. rows \subseteq 1 .. last /\ last <= MaxRows /\ last \in Nat
    BY <2>1 DEF LogInv, Typed
  <2>3. lock \subseteq Writers
    BY <2>1 DEF LogInv, Locked
  <2>4. ASSUME NEW c \in Clients
        PROVE  /\ client[c].got \subseteq rows
               /\ client[c].lastId \in 0 .. last /\ stream[c].after \in 0 .. last
               /\ wakeups[c] \in 0 .. Buffer
    <3>1. \A n \in rows \cup {0} : n \in 0 .. last
      BY <2>2
    <3>. QED
      BY <2>1, <3>1, Held DEF Good
  <2>. QED
    BY <2>2, <2>3, <2>4 DEF TypeOK
<1>. QED
  BY <1>1, Inductive, PTL

\* A client that comes back with its last event id has missed nothing up to it
\* (writeStreamLog, withDeploymentLogTx).
THEOREM CursorIsComplete == LogStreamAssumption => (Spec => []CursorCovers)
<1>. SUFFICES ASSUME LogStreamAssumption PROVE Spec => []CursorCovers
  OBVIOUS
<1>1. LogInv => CursorCovers
  BY DEF LogInv, Served, Good, CursorCovers
<1>. QED
  BY <1>1, Inductive, PTL

\* Whoever was told that the log is complete has all of it, and nobody is
\* writing (completion).
THEOREM CompletionIsLast == LogStreamAssumption => (Spec => []CompleteMeansAll)
<1>. SUFFICES ASSUME LogStreamAssumption PROVE Spec => []CompleteMeansAll
  OBVIOUS
<1>1. LogInv => CompleteMeansAll
  <2>1. SUFFICES ASSUME LogInv PROVE CompleteMeansAll
    OBVIOUS
  <2>2. Over => lock = {}
    BY <2>1 DEF LogInv, Locked, Quiet, Over, Writers
  <2>. QED
    BY <2>1, <2>2 DEF LogInv, Served, Good, CompleteMeansAll
<1>. QED
  BY <1>1, Inductive, PTL

\* No row leaves the server a second after its reader lost access (canRead).
THEOREM NothingAfterRevocation == LogStreamAssumption => (Spec => []RevokedStops)
<1>. SUFFICES ASSUME LogStreamAssumption PROVE Spec => []RevokedStops
  OBVIOUS
<1>1. LogInv => RevokedStops
  BY DEF LogInv, Withdrawn, RevokedStops
<1>. QED
  BY <1>1, Inductive, PTL

\* All of it: a client that reconnects with its last event id misses nothing, the
\* completion event is the last word, and access ends within a second of its
\* revocation (streamLogs, writeStreamLog, completion, canRead).
THEOREM FollowersAreServed == LogStreamAssumption => (Spec => []FollowerServed)
<1>1. TypeOK /\ CursorCovers /\ CompleteMeansAll /\ RevokedStops <=> FollowerServed
  BY DEF FollowerServed
<1>. QED
  BY <1>1, LogTypeCorrect, CursorIsComplete, CompletionIsLast, NothingAfterRevocation, PTL

=============================================================================
