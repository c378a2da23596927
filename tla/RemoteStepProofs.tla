-------------------------- MODULE RemoteStepProofs --------------------------
(***************************************************************************)
(* The protocol between the server and an agent, for any sets of           *)
(* deployments and polls, any capability reports, any timeouts, any number *)
(* of log lines and any limit on a batch: a step is executed under one     *)
(* claim, the outcome recorded is the one the agent reached and stays, and *)
(* the published log is ordered, complete and never shows a secret that    *)
(* spans two lines.                                                        *)
(*                                                                         *)
(* The claims of a step are kept apart by Granted: a claim the server ever *)
(* let start still owns the row, and the row can then never be offered     *)
(* again.  The log is kept by Buffered: what the server received without a *)
(* gap is published or held back, the part held back continues the part    *)
(* published, and the last line published does not begin a secret unless   *)
(* the log is suppressed from there on.                                    *)
(***************************************************************************)
EXTENDS RemoteStep, FiniteSetTheorems, SequenceTheorems, WellFoundedInduction, TLAPS

States == Active \cup Finished \cup {"none", "lost", "cancel_unconfirmed"}
Statuses == {"running", "succeeded", "failed", "cancelled", "cleanup_unconfirmed"}
Capabilities == [modes : SUBSET {"host", "container"}, staging : BOOLEAN, ready : BOOLEAN]
Buffers == [through : Int, suppressed : BOOLEAN, tail : SUBSET Seqs, gaps : SUBSET Seqs]
Rows == [state : States, token : Nat, age : 0 .. MaxAge, buffer : Buffers,
         confirmed : BOOLEAN, dropped : BOOLEAN]
ClaimRows == [d : Deployment, caps : Capabilities, agent : {"sent", "held"} \cup Began,
              granted : BOOLEAN, told : BOOLEAN, acked : SUBSET Seqs]
LogRows == [seq : Seqs, tx : Nat, hidden : BOOLEAN]

Typed ==
    /\ agent \in [status : {"active", "revoked"}, draining : BOOLEAN,
                  caps : [modes : {c.modes : c \in Cap}, staging : BOOLEAN, ready : BOOLEAN]]
    /\ polls \in [Poll -> Capabilities]
    /\ run \in [Deployment -> Rows]
    /\ status \in [Deployment -> Statuses]
    /\ staging \subseteq Staged
    /\ claims \in Seq(ClaimRows)
    /\ log \in [Deployment -> Seq(LogRows)]

\* The token of a row is that of a claim on its deployment; a run that waits
\* for a claim has none.
Owned ==
    \A d \in Deployment :
        /\ run[d].token \in 0 .. Len(claims)
        /\ run[d].token # 0 => claims[run[d].token].d = d
        /\ run[d].state \in {"none", "waiting"} => run[d].token = 0

\* The states a run may be in once its agent was told to start.
PastStart == {"started", "cancel_requested", "lost", "cancel_unconfirmed"} \cup Finished

\* A claim the server let start owns the row for good.
Granted ==
    \A t \in Tokens :
        /\ claims[t].granted => Owns(t) /\ run[claims[t].d].state \in PastStart
        /\ claims[t].agent \in Began => claims[t].granted

ClaimsInv == Typed /\ Owned /\ Granted /\ OutcomeHonest /\ ClaimFits /\ SuccessHasOutput

Receiving == {"started", "cancel_requested"}

\* Before the first batch nothing is published; a buffer exists only while
\* batches are accepted.
LogStarts ==
    \A d \in Deployment :
        /\ run[d].buffer # NoBuffer => run[d].state \in Receiving
        /\ run[d].buffer = NoBuffer /\ run[d].state \in Receiving \cup {"none", "waiting", "claimed"}
              => log[d] = <<>>

\* What BufferReadable says of a buffer, given the last line published.
Readable(b, last) ==
    /\ last <= b.through
    /\ b.suppressed => b.tail = {}
    /\ remoteLogEventsFit(b.tail \cup b.gaps)
    /\ b.tail = contiguous(b.tail, last)
    /\ Advanced(b.tail, last) = b.through
    /\ \A n \in b.gaps : n > b.through
    /\ contiguous(b.gaps, b.through) = {}
    /\ GapsAllowed(b.gaps, b.through)

\* The lines of a log after which a secret cannot go on in the clear.
Sealed(L, last) == \A i \in DOMAIN L : L[i].seq = last => L[i].hidden \/ last \notin Split

\* A buffer continues the log: the part held back comes after what is
\* published, and nothing received in order is missing from the two.
Buffered ==
    \A d \in Deployment :
        LET b == run[d].buffer
            last == GetLastRemoteStepLogSequence(d)
        IN  b # NoBuffer =>
            /\ Readable(b, last)
            /\ \A n \in b.tail : n > last
            /\ 1 .. b.through \subseteq Published(d) \cup b.tail
            /\ Sealed(log[d], last)

\* A line that was acknowledged, the line 0 aside, is published or in the
\* buffer, unless the server gave the run up.
Kept ==
    \A t \in Tokens :
        LET d == claims[t].d IN
        Owns(t) /\ ~run[d].dropped =>
            claims[t].acked \ {0} \subseteq Published(d) \cup run[d].buffer.tail \cup run[d].buffer.gaps

LogInv == LogStarts /\ LogOrdered /\ SecretWhole /\ Buffered /\ Kept

-----------------------------------------------------------------------------
(* Numbers, sets of lines and sequences. *)

LEMMA Assumed ==
    ASSUME RemoteAssumption
    PROVE  /\ Deployment \subseteq Nat
           /\ Cap \subseteq Capabilities
           /\ Staged \subseteq Deployment
           /\ Seqs \subseteq Nat /\ Seqs \in SUBSET Int
           /\ FirstSeq \in {0, 1} /\ LastSeq \in Nat
           /\ MaxLogEvents \in Nat \ {0}
BY DEF RemoteAssumption, Capabilities, Seqs

LEMMA MaxAgeType ==
    ASSUME RemoteAssumption
    PROVE  MaxAge \in Nat
<1>. DEFINE a == ClaimTimeout b == LostThreshold c == CancelTimeout
<1>1. a \in Nat /\ b \in Nat /\ c \in Nat
  BY DEF RemoteAssumption
<1>2. \E n \in Times : \A m \in Times : m <= n
  <2>1. CASE b <= a /\ c <= a
    <3>1. a \in Times /\ \A m \in Times : m <= a
      BY <1>1, <2>1 DEF Times
    <3>. QED
      BY <3>1
  <2>2. CASE a <= b /\ c <= b
    <3>1. b \in Times /\ \A m \in Times : m <= b
      BY <1>1, <2>2 DEF Times
    <3>. QED
      BY <3>1
  <2>3. CASE a <= c /\ b <= c
    <3>1. c \in Times /\ \A m \in Times : m <= c
      BY <1>1, <2>3 DEF Times
    <3>. QED
      BY <3>1
  <2>. QED
    BY <1>1, <2>1, <2>2, <2>3
<1>3. MaxAge \in Times
  BY <1>2 DEF MaxAge
<1>. QED
  BY <1>1, <1>3 DEF Times

\* A set of lines that is not empty has a last one.
LEMMA LastExists ==
    ASSUME RemoteAssumption, NEW S \in SUBSET Seqs, S # {}
    PROVE  \E n \in S : \A m \in S : m <= n
<1>. DEFINE R == OpToRel(<, Nat)
            B == {k \in Nat : \A m \in S : m <= k}
<1>0. S \subseteq Nat /\ S \subseteq FirstSeq .. LastSeq /\ LastSeq \in Nat /\ FirstSeq \in Nat
  BY Assumed DEF Seqs
<1>1. LastSeq \in B
  BY <1>0
<1>2. IsWellFoundedOn(R, Nat)
  BY NatLessThanWellFounded
<1>3. \A x, y \in Nat : x < y => <<x, y>> \in R
  BY DEF OpToRel
<1>. HIDE DEF R
<1>4. PICK k \in B : \A j \in B : ~(<<j, k>> \in R)
  <2>1. B \subseteq Nat /\ B # {}
    BY <1>1
  <2>. HIDE DEF B
  <2>. QED
    BY <1>2, <2>1, WFMin
<1>5. k \in S
  <2>1. SUFFICES ASSUME k \notin S PROVE FALSE
    OBVIOUS
  <2>2. PICK m \in S : TRUE
    OBVIOUS
  <2>3. \A n \in S : n < k /\ n \in Nat
    BY <1>0, <2>1
  <2>4. k - 1 \in B /\ k - 1 < k /\ k \in Nat
    BY <2>2, <2>3
  <2>. QED
    BY <1>3, <1>4, <2>4
<1>. QED
  BY <1>5

LEMMA SetMaxType ==
    ASSUME RemoteAssumption, NEW S \in SUBSET Seqs, S # {}
    PROVE  SetMax(S) \in S /\ \A m \in S : m <= SetMax(S)
BY LastExists DEF SetMax

LEMMA SetMaxIs ==
    ASSUME NEW S \in SUBSET Int, NEW n \in S, \A m \in S : m <= n
    PROVE  SetMax(S) = n
<1>1. SetMax(S) \in S /\ \A m \in S : m <= SetMax(S)
  BY DEF SetMax
<1>2. SetMax(S) <= n /\ n <= SetMax(S) /\ SetMax(S) \in Int /\ n \in Int
  BY <1>1
<1>. QED
  BY <1>2

\* A list of a set of lines by their numbers.
Sorted(s, S) ==
    /\ s \in [1 .. Cardinality(S) -> S]
    /\ \A i, j \in 1 .. Cardinality(S) : i < j => s[i] < s[j]
    /\ \A n \in S : \E i \in 1 .. Cardinality(S) : s[i] = n

LEMMA SeqsFinite ==
    ASSUME RemoteAssumption, NEW S \in SUBSET Seqs
    PROVE  IsFiniteSet(S) /\ Cardinality(S) \in Nat
<1>0. FirstSeq \in Int /\ LastSeq \in Int
  BY Assumed
<1>1. IsFiniteSet(Seqs)
  BY <1>0, FS_Interval DEF Seqs
<1>. QED
  BY <1>1, FS_Subset, FS_CardinalityType

\* The least number of lines that could not be listed would be that of a set
\* whose last line can be left out.
LEMMA SortedExists ==
    ASSUME RemoteAssumption
    PROVE  \A S \in SUBSET Seqs : \E s : Sorted(s, S)
<1>. DEFINE Q == {S \in SUBSET Seqs : ~ \E s : Sorted(s, S)}
            B == {Cardinality(S) : S \in Q}
            R == OpToRel(<, Nat)
<1>0. SUFFICES ASSUME Q # {} PROVE FALSE
  OBVIOUS
<1>1. IsWellFoundedOn(R, Nat)
  BY NatLessThanWellFounded
<1>2. \A x, y \in Nat : x < y => <<x, y>> \in R
  BY DEF OpToRel
<1>. HIDE DEF R
<1>3. B \subseteq Nat /\ B # {}
  <2>1. \A S \in Q : Cardinality(S) \in Nat
    BY SeqsFinite
  <2>. QED
    BY <1>0, <2>1
<1>4. PICK k \in B : \A j \in B : ~(<<j, k>> \in R)
  <2>. HIDE DEF B
  <2>. QED
    BY <1>1, <1>3, WFMin
<1>5. PICK S \in Q : k = Cardinality(S)
  OBVIOUS
<1>6. \A T \in SUBSET Seqs : Cardinality(T) < k => \E s : Sorted(s, T)
  <2>1. SUFFICES ASSUME NEW T \in SUBSET Seqs, Cardinality(T) < k, T \in Q PROVE FALSE
    OBVIOUS
  <2>2. Cardinality(T) \in B
    BY <2>1
  <2>3. <<Cardinality(T), k>> \in R
    BY <1>2, <1>3, <2>1, <2>2
  <2>. QED
    BY <1>4, <2>2, <2>3
<1>7. S # {}
  <2>1. ASSUME S = {} PROVE FALSE
    <3>1. Cardinality(S) = 0 /\ 1 .. 0 = {}
      BY <2>1, FS_EmptySet
    <3>2. Sorted([i \in {} |-> 0], S)
      BY <2>1, <3>1 DEF Sorted
    <3>. QED
      BY <1>5, <3>2
  <2>. QED
    BY <2>1
<1>8. PICK n \in S : \A m \in S : m <= n
  BY <1>5, <1>7, LastExists
<1>. DEFINE T == S \ {n}
<1>9. /\ Cardinality(T) = k - 1 /\ k \in Nat /\ k >= 1 /\ T \in SUBSET Seqs
      /\ S \subseteq Nat /\ n \in Nat
  <2>1. IsFiniteSet(S) /\ IsFiniteSet(T)
    BY <1>5, SeqsFinite
  <2>2. Cardinality(T) = k - 1 /\ Cardinality(S) \in Nat /\ Cardinality(T) \in Nat
    BY <1>5, <1>8, <2>1, FS_RemoveElement, FS_CardinalityType
  <2>. QED
    BY <1>5, <2>2, Assumed
<1>10. PICK s : Sorted(s, T)
  BY <1>6, <1>9
<1>. DEFINE u == [i \in 1 .. k |-> IF i = k THEN n ELSE s[i]]
<1>11. Sorted(u, S)
  <2>0. /\ s \in [1 .. k - 1 -> T]
        /\ \A i, j \in 1 .. k - 1 : i < j => s[i] < s[j]
        /\ \A m \in T : \E i \in 1 .. k - 1 : s[i] = m
    BY <1>9, <1>10 DEF Sorted
  <2>1. \A i \in 1 .. k - 1 : u[i] = s[i] /\ u[i] \in T /\ i \in 1 .. k
    BY <1>9, <2>0
  <2>2. u[k] = n /\ k \in 1 .. k
    BY <1>9
  <2>3. \A i \in 1 .. k : i = k \/ i \in 1 .. k - 1
    BY <1>9
  <2>. HIDE DEF u
  <2>4. ASSUME NEW i \in 1 .. k, NEW j \in 1 .. k, i < j PROVE u[i] < u[j]
    <3>1. i \in 1 .. k - 1
      BY <1>9, <2>4
    <3>2. CASE j = k
      <4>1. u[i] \in S /\ u[i] # n /\ u[i] \in Nat
        BY <1>9, <2>1, <3>1
      <4>. QED
        BY <1>8, <1>9, <2>2, <3>2, <4>1
    <3>3. CASE j # k
      BY <2>0, <2>1, <2>3, <2>4, <3>1, <3>3
    <3>. QED
      BY <3>2, <3>3
  <2>5. u \in [1 .. k -> S]
    <3>1. \A i \in 1 .. k : u[i] \in S
      BY <1>8, <2>1, <2>2, <2>3
    <3>. QED
      BY <3>1 DEF u
  <2>6. \A m \in S : \E i \in 1 .. k : u[i] = m
    BY <2>0, <2>1, <2>2
  <2>. QED
    BY <1>5, <2>4, <2>5, <2>6 DEF Sorted
<1>. QED
  BY <1>5, <1>11

LEMMA InSequenceSorts ==
    ASSUME RemoteAssumption, NEW S \in SUBSET Seqs
    PROVE  Sorted(InSequence(S), S)
<1>1. \E s \in [1 .. Cardinality(S) -> S] :
        /\ \A i, j \in 1 .. Cardinality(S) : i < j => s[i] < s[j]
        /\ \A n \in S : \E i \in 1 .. Cardinality(S) : s[i] = n
  BY SortedExists DEF Sorted
<1>. QED
  BY <1>1 DEF InSequence, Sorted

-----------------------------------------------------------------------------
(* How a row of remote_step_runs and a claim may move, whatever the step.    *)

Early == Receiving \cup {"none", "waiting", "claimed"}

RowMoves(r, r2) ==
    /\ \/ r2.token = r.token
       \/ r2.token = 0 /\ r2.state = "waiting" /\ r.state = "claimed"
    /\ r2.state \in {"none", "waiting"} => r.state \in {"none", "waiting"} \/ r2.token = 0
    /\ r.state \in PastStart => r2.state \in PastStart
    /\ r.state \in Finished => r2.state = r.state
    /\ r2.state \in Finished /\ r2.state # r.state => r.state = "waiting" /\ r2.state # "succeeded"

BufferMoves(r, r2) ==
    /\ \/ r2.buffer = r.buffer
       \/ r2.buffer = NoBuffer /\ r2.dropped = TRUE /\ r2.state \in {"lost", "cancel_unconfirmed"}
    /\ r2.dropped \in {r.dropped, TRUE}
    /\ r.state \in Receiving => r2.state \in Receiving \/ r2.buffer = NoBuffer
    /\ r2.state \in Early => r.state \in Early

RowsMove == \A d \in Deployment : RowMoves(run[d], run'[d])
BuffersMove == \A d \in Deployment : BufferMoves(run[d], run'[d])

ClaimMoves(c, c2) ==
    /\ c2.d = c.d /\ c2.caps = c.caps
    /\ c.granted => c2.granted
    /\ c2.agent \in Began => c2.granted
    /\ c2.agent # c.agent => c.agent \in {"sent", "held", "running"}

OutputsStay ==
    \A d \in Deployment : status'[d] = "running" => status[d] = "running" /\ (d \in staging => d \in staging')

\* A recorded outcome does not change in this step.
Stays == \A d \in Deployment : run[d].state \in Finished => run'[d].state = run[d].state

LEMMA ClaimAt ==
    ASSUME Typed, NEW t \in Tokens
    PROVE  claims[t] \in ClaimRows /\ claims[t].d \in Deployment /\ t \in Nat \ {0}
<1>1. Len(claims) \in Nat
  BY LenProperties DEF Typed
<1>2. claims[t] \in ClaimRows
  BY ElementOfSeq DEF Typed, Tokens
<1>. QED
  BY <1>1, <1>2 DEF ClaimRows, Tokens

LEMMA MovesKeepClaims ==
    ASSUME ClaimsInv, Typed', RowsMove, OutputsStay,
           Len(claims') = Len(claims),
           \A t \in Tokens :
               /\ ClaimMoves(claims[t], claims'[t])
               /\ claims'[t].granted => \/ claims[t].granted
                                        \/ Owns(t) /\ run'[claims[t].d].state \in PastStart
                                                   /\ run'[claims[t].d].token = t
    PROVE  ClaimsInv' /\ Stays
<1>0. Tokens' = Tokens /\ Len(claims) \in Nat
  BY LenProperties DEF Tokens, ClaimsInv, Typed
<1>t. \A t \in Tokens : claims'[t].d = claims[t].d /\ claims[t].d \in Deployment /\ t # 0
  BY ClaimAt DEF ClaimMoves, ClaimsInv
<1>1. Stays
  BY DEF RowsMove, RowMoves, Stays
<1>2. Owned'
  <2>. SUFFICES ASSUME NEW d \in Deployment
                PROVE  /\ run'[d].token \in 0 .. Len(claims')
                       /\ run'[d].token # 0 => claims'[run'[d].token].d = d
                       /\ run'[d].state \in {"none", "waiting"} => run'[d].token = 0
    BY DEF Owned
  <2>1. RowMoves(run[d], run'[d])
    BY DEF RowsMove
  <2>2. /\ run[d].token \in 0 .. Len(claims)
        /\ run[d].token # 0 => claims[run[d].token].d = d
        /\ run[d].state \in {"none", "waiting"} => run[d].token = 0
    BY DEF ClaimsInv, Owned
  <2>3. run[d].token # 0 => run[d].token \in Tokens
    BY <1>0, <2>2 DEF Tokens
  <2>. QED
    BY <1>0, <1>t, <2>1, <2>2, <2>3 DEF RowMoves
<1>3. Granted'
  <2>. SUFFICES ASSUME NEW t \in Tokens
                PROVE  /\ claims'[t].granted => Owns(t)' /\ run'[claims'[t].d].state \in PastStart
                       /\ claims'[t].agent \in Began => claims'[t].granted
    BY <1>0 DEF Granted
  <2>1. claims'[t].agent \in Began => claims'[t].granted
    BY DEF ClaimMoves
  <2>2. ASSUME claims[t].granted
        PROVE  run'[claims[t].d].token = t /\ run'[claims[t].d].state \in PastStart
    <3>1. run[claims[t].d].token = t /\ run[claims[t].d].state \in PastStart
      BY <2>2 DEF ClaimsInv, Granted, Owns
    <3>2. RowMoves(run[claims[t].d], run'[claims[t].d])
      BY <1>t DEF RowsMove
    <3>. QED
      BY <3>1, <3>2 DEF RowMoves, PastStart, Finished
  <2>. QED
    BY <1>t, <2>1, <2>2 DEF Owns
<1>4. OutcomeHonest'
  <2>. SUFFICES ASSUME NEW t \in Tokens, run'[claims[t].d].token = t,
                       run'[claims[t].d].state \in Finished
                PROVE  claims'[t].agent = (IF run'[claims[t].d].state = "cancelled" THEN "stopped"
                                           ELSE run'[claims[t].d].state)
    BY <1>0, <1>t DEF OutcomeHonest
  <2>1. RowMoves(run[claims[t].d], run'[claims[t].d]) /\ t # 0
    BY <1>t DEF RowsMove
  <2>2. run[claims[t].d].token = t
    BY <2>1 DEF RowMoves
  <2>3. run'[claims[t].d].state = run[claims[t].d].state
    BY <1>t, <2>1, <2>2 DEF RowMoves, ClaimsInv, Owned
  <2>4. claims[t].agent = (IF run'[claims[t].d].state = "cancelled" THEN "stopped"
                           ELSE run'[claims[t].d].state)
    BY <2>2, <2>3 DEF ClaimsInv, OutcomeHonest
  <2>5. claims[t].agent \notin {"sent", "held", "running"}
    BY <2>4 DEF Finished
  <2>. QED
    BY <2>4, <2>5 DEF ClaimMoves
<1>5. ClaimFits'
  BY <1>0 DEF ClaimsInv, ClaimFits, ClaimMoves
<1>6. SuccessHasOutput'
  <2>. SUFFICES ASSUME NEW d \in Deployment, d \in Staged, status'[d] = "running",
                       run'[d].state = "succeeded"
                PROVE  d \in staging'
    BY DEF SuccessHasOutput, Input
  <2>1. run[d].state = "succeeded"
    BY DEF RowsMove, RowMoves, Finished
  <2>. QED
    BY <2>1 DEF ClaimsInv, SuccessHasOutput, Input, OutputsStay
<1>. QED
  BY <1>1, <1>2, <1>3, <1>4, <1>5, <1>6 DEF ClaimsInv

\* The same for a step that leaves the claims alone.
LEMMA QuietMovesKeepClaims ==
    ASSUME ClaimsInv, Typed', RowsMove, OutputsStay, claims' = claims
    PROVE  ClaimsInv' /\ Stays
<1>1. \A t \in Tokens : ClaimMoves(claims[t], claims'[t])
  BY DEF ClaimMoves, ClaimsInv, Granted
<1>. QED
  BY <1>1, MovesKeepClaims

LEMMA ClaimSet ==
    ASSUME Typed, NEW t \in Tokens, NEW v \in ClaimRows, claims' = [claims EXCEPT ![t] = v]
    PROVE  /\ claims' \in Seq(ClaimRows) /\ Len(claims') = Len(claims)
           /\ \A u \in Tokens : claims'[u] = IF u = t THEN v ELSE claims[u]
BY ExceptSeq DEF Typed, Tokens

-----------------------------------------------------------------------------
(* The steps that move rows and leave the claims alone. *)

LEMMA RowAt ==
    ASSUME Typed, NEW d \in Deployment
    PROVE  /\ run[d] \in Rows /\ run[d].state \in States /\ run[d].token \in Nat
           /\ run[d].age \in 0 .. MaxAge /\ run[d].buffer \in Buffers
           /\ run[d].confirmed \in BOOLEAN /\ run[d].dropped \in BOOLEAN
BY DEF Typed, Rows

LEMMA NoBufferType ==
    NoBuffer \in Buffers
BY DEF NoBuffer, Buffers

LEMMA PollArrivesMoves ==
    ASSUME RemoteAssumption, Typed, NEW p \in Poll, NEW c \in Cap, PollArrives(p, c)
    PROVE  Typed' /\ RowsMove /\ BuffersMove
<1>1. c \in Capabilities
  BY Assumed
<1>2. Recorded(c) \in [modes : {x.modes : x \in Cap}, staging : BOOLEAN, ready : BOOLEAN]
  BY <1>1 DEF Recorded, Capabilities, Typed
<1>3. agent' \in [status : {"active", "revoked"}, draining : BOOLEAN,
                  caps : [modes : {x.modes : x \in Cap}, staging : BOOLEAN, ready : BOOLEAN]]
  BY <1>2 DEF PollArrives, Typed
<1>4. polls' \in [Poll -> Capabilities]
  BY <1>1 DEF PollArrives, Typed
<1>. DEFINE U == FailUnsupportedWaitingRemoteStepRuns(c)
            K == ConfirmRemoteStepCleanup(c)
<1>5. \A d \in U : run[d].state = "waiting"
  BY DEF FailUnsupportedWaitingRemoteStepRuns
<1>6. run' = [d \in Deployment |->
                [run[d] EXCEPT !.state = IF d \in U THEN "failed" ELSE @,
                               !.confirmed = @ \/ d \in K]]
  BY DEF PollArrives, AfterPoll
<1>. HIDE DEF U, K
<1>7. ASSUME NEW d \in Deployment
      PROVE  run'[d] \in Rows /\ RowMoves(run[d], run'[d]) /\ BufferMoves(run[d], run'[d])
  <2>1. run'[d] = [run[d] EXCEPT !.state = IF d \in U THEN "failed" ELSE @,
                                 !.confirmed = @ \/ d \in K]
    BY <1>6
  <2>2. run'[d] \in Rows
    BY <2>1, RowAt DEF Rows, States, Active, Finished
  <2>3. /\ run'[d].state = IF d \in U THEN "failed" ELSE run[d].state
        /\ run'[d].token = run[d].token /\ run'[d].buffer = run[d].buffer
        /\ run'[d].dropped = run[d].dropped
    BY <2>1, RowAt DEF Rows
  <2>. QED
    BY <1>5, <2>2, <2>3 DEF RowMoves, BufferMoves, PastStart, Finished, Receiving, Early
<1>. QED
  BY <1>3, <1>4, <1>6, <1>7 DEF PollArrives, Typed, RowsMove, BuffersMove

\* A step of one row, by the row it leaves.
LEMMA OneRowMoves ==
    ASSUME Typed, NEW d \in Deployment, NEW r \in Rows,
           run' = [run EXCEPT ![d] = r], RowMoves(run[d], r)
    PROVE  /\ run' \in [Deployment -> Rows] /\ RowsMove
           /\ BufferMoves(run[d], r) => BuffersMove
<1>1. run' \in [Deployment -> Rows]
  BY DEF Typed
<1>2. \A e \in Deployment : run'[e] = IF e = d THEN r ELSE run[e]
  BY DEF Typed
<1>3. \A e \in Deployment : RowMoves(run[e], run[e]) /\ BufferMoves(run[e], run[e])
  BY DEF RowMoves, BufferMoves
<1>. QED
  BY <1>1, <1>2, <1>3 DEF RowsMove, BuffersMove

LEMMA ClaimInvalidMoves ==
    ASSUME Typed, NEW p \in Poll, NEW d \in Deployment, ClaimInvalid(p, d)
    PROVE  Typed' /\ RowsMove /\ BuffersMove /\ OutputsStay
<1>. DEFINE r == [run[d] EXCEPT !.state = "failed"]
<1>1. run' = [run EXCEPT ![d] = r] /\ run[d].state = "waiting"
  BY DEF ClaimInvalid, Oldest, Candidates
<1>2. r \in Rows /\ RowMoves(run[d], r) /\ BufferMoves(run[d], r)
  BY <1>1, RowAt DEF Rows, States, Active, RowMoves, BufferMoves, PastStart, Finished, Receiving, Early
<1>3. run' \in [Deployment -> Rows] /\ RowsMove /\ BuffersMove
  BY <1>1, <1>2, OneRowMoves
<1>4. status' \in [Deployment -> Statuses] /\ staging' \subseteq staging
  BY DEF ClaimInvalid, Typed, Statuses, PurgeTerminalStaging
<1>5. OutputsStay
  BY DEF ClaimInvalid, Typed, OutputsStay, PurgeTerminalStaging
<1>. QED
  BY <1>3, <1>4, <1>5 DEF ClaimInvalid, Typed

LEMMA QueueRunMoves ==
    ASSUME Typed, NEW d \in Deployment, QueueRun(d)
    PROVE  Typed' /\ RowsMove /\ BuffersMove
<1>. DEFINE r == [run[d] EXCEPT !.state = "waiting"]
<1>1. run' = [run EXCEPT ![d] = r] /\ run[d].state = "none"
  BY DEF QueueRun
<1>2. r \in Rows /\ RowMoves(run[d], r) /\ BufferMoves(run[d], r)
  BY <1>1, RowAt DEF Rows, States, Active, RowMoves, BufferMoves, PastStart, Finished, Receiving, Early
<1>. QED
  BY <1>1, <1>2, OneRowMoves DEF QueueRun, Typed

LEMMA RequestCancelMoves ==
    ASSUME RemoteAssumption, Typed, NEW d \in Deployment, RequestCancel(d)
    PROVE  Typed' /\ RowsMove /\ BuffersMove
<1>. DEFINE to == IF run[d].state = "waiting" THEN "cancelled" ELSE "cancel_requested"
            r == [run[d] EXCEPT !.state = to, !.age = 0]
<1>1. run' = [run EXCEPT ![d] = r] /\ run[d].state \in {"waiting", "claimed", "started"}
  BY DEF RequestCancel
<1>0. to \in {"cancelled", "cancel_requested"} /\ 0 \in 0 .. MaxAge
  BY MaxAgeType
<1>2. r \in Rows
  BY <1>0, RowAt DEF Rows, States, Active, Finished
<1>3. /\ r.state = to /\ r.token = run[d].token /\ r.buffer = run[d].buffer
      /\ r.dropped = run[d].dropped
  BY RowAt DEF Rows
<1>. HIDE DEF r
<1>4. RowMoves(run[d], r) /\ BufferMoves(run[d], r)
  BY <1>1, <1>3 DEF RowMoves, BufferMoves, PastStart, Finished, Receiving, Early
<1>. QED
  BY <1>1, <1>2, <1>4, OneRowMoves DEF RequestCancel, Typed

\* The maintenance loop, on one row.
LEMMA ExpiredMoves ==
    ASSUME RemoteAssumption, NEW r \in Rows
    PROVE  Expired(r) \in Rows /\ RowMoves(r, Expired(r)) /\ BufferMoves(r, Expired(r))
<1>. DEFINE w == [r EXCEPT !.state = "waiting", !.token = 0, !.age = 0]
<1>0. 0 \in 0 .. MaxAge
  BY MaxAgeType
<1>1. w \in Rows /\ GivenUp(r, "cancel_unconfirmed") \in Rows /\ GivenUp(r, "lost") \in Rows
  BY <1>0, NoBufferType DEF Rows, GivenUp, States, Active
<1>2. CASE ExpireRemoteStepClaims(r)
  <2>1. Expired(r) = w /\ r.state = "claimed"
    BY <1>2 DEF Expired, ExpireRemoteStepClaims, ExpireRemoteStepCancellations, LoseStaleRemoteStepRuns
  <2>2. w.state = "waiting" /\ w.token = 0 /\ w.buffer = r.buffer /\ w.dropped = r.dropped
    BY DEF Rows
  <2>. HIDE DEF w
  <2>. QED
    BY <1>1, <2>1, <2>2 DEF RowMoves, BufferMoves, PastStart, Finished, Receiving, Early
<1>3. CASE ExpireRemoteStepCancellations(r)
  <2>1. Expired(r) = GivenUp(r, "cancel_unconfirmed") /\ r.state = "cancel_requested"
    BY <1>3 DEF Expired, ExpireRemoteStepClaims, ExpireRemoteStepCancellations, LoseStaleRemoteStepRuns
  <2>. QED
    BY <1>1, <2>1 DEF RowMoves, BufferMoves, PastStart, Finished, Receiving, Early, GivenUp, Rows
<1>4. CASE LoseStaleRemoteStepRuns(r)
  <2>1. Expired(r) = GivenUp(r, "lost") /\ r.state = "started"
    BY <1>4 DEF Expired, ExpireRemoteStepClaims, ExpireRemoteStepCancellations, LoseStaleRemoteStepRuns
  <2>. QED
    BY <1>1, <2>1 DEF RowMoves, BufferMoves, PastStart, Finished, Receiving, Early, GivenUp, Rows
<1>5. CASE ~ExpireRemoteStepClaims(r) /\ ~ExpireRemoteStepCancellations(r) /\ ~LoseStaleRemoteStepRuns(r)
  <2>1. Expired(r) = r
    BY <1>5 DEF Expired
  <2>. QED
    BY <2>1 DEF RowMoves, BufferMoves
<1>. QED
  BY <1>2, <1>3, <1>4, <1>5

LEMMA RevokedMoves ==
    ASSUME NEW r \in Rows
    PROVE  /\ RevokeAgentRemoteStepRuns(r) \in Rows
           /\ RowMoves(r, RevokeAgentRemoteStepRuns(r)) /\ BufferMoves(r, RevokeAgentRemoteStepRuns(r))
<1>. DEFINE f == [r EXCEPT !.state = "failed"]
            g == GivenUp(r, "lost")
<1>1. f \in Rows /\ g \in Rows
  BY NoBufferType DEF Rows, GivenUp, States, Active, Finished
<1>2. CASE r.state = "waiting"
  <2>1. RevokeAgentRemoteStepRuns(r) = f
    BY <1>2 DEF RevokeAgentRemoteStepRuns
  <2>2. f.state = "failed" /\ f.token = r.token /\ f.buffer = r.buffer /\ f.dropped = r.dropped
    BY DEF Rows
  <2>. HIDE DEF f
  <2>. QED
    BY <1>1, <1>2, <2>1, <2>2 DEF RowMoves, BufferMoves, PastStart, Finished, Receiving, Early
<1>3. CASE r.state # "waiting" /\ r.state \in Active
  <2>1. RevokeAgentRemoteStepRuns(r) = g
    BY <1>3 DEF RevokeAgentRemoteStepRuns
  <2>2. /\ g.state = "lost" /\ g.token = r.token /\ g.buffer = NoBuffer /\ g.dropped = TRUE
    BY DEF Rows, GivenUp
  <2>. HIDE DEF g
  <2>. QED
    BY <1>1, <1>3, <2>1, <2>2 DEF RowMoves, BufferMoves, PastStart, Finished, Receiving, Early, Active
<1>4. CASE r.state \notin Active
  <2>1. RevokeAgentRemoteStepRuns(r) = r
    BY <1>4 DEF RevokeAgentRemoteStepRuns, Active
  <2>. QED
    BY <2>1 DEF RowMoves, BufferMoves
<1>. QED
  BY <1>2, <1>3, <1>4

\* Failing the deployments of terminal runs starts none.
LEMMA FailTerminalMoves ==
    ASSUME Typed, NEW rn, status' = FailTerminal(status, rn), staging' = PurgeTerminalStaging(status')
    PROVE  status' \in [Deployment -> Statuses] /\ staging' \subseteq staging /\ OutputsStay
<1>1. \A d \in Deployment : status'[d] \in {status[d], "failed", "cleanup_unconfirmed"}
  BY DEF FailTerminal
<1>2. status' \in [Deployment -> Statuses]
  BY <1>1 DEF Typed, Statuses, FailTerminal
<1>3. staging' = {d \in staging : status'[d] = "running"}
  BY DEF PurgeTerminalStaging
<1>. QED
  BY <1>1, <1>2, <1>3 DEF OutputsStay

LEMMA MaintainMoves ==
    ASSUME RemoteAssumption, Typed, Maintain
    PROVE  Typed' /\ RowsMove /\ BuffersMove /\ OutputsStay
<1>1. run' = [d \in Deployment |-> Expired(run[d])]
  BY DEF Maintain
<1>2. \A d \in Deployment : run'[d] \in Rows /\ RowMoves(run[d], run'[d]) /\ BufferMoves(run[d], run'[d])
  BY <1>1, RowAt, ExpiredMoves
<1>3. run' \in [Deployment -> Rows]
  BY <1>1, <1>2
<1>4. status' \in [Deployment -> Statuses] /\ staging' \subseteq staging /\ OutputsStay
  BY FailTerminalMoves DEF Maintain
<1>. QED
  BY <1>2, <1>3, <1>4 DEF Maintain, Typed, RowsMove, BuffersMove

LEMMA RevokeAgentMoves ==
    ASSUME Typed, RevokeAgent
    PROVE  Typed' /\ RowsMove /\ BuffersMove /\ OutputsStay
<1>1. run' = [d \in Deployment |-> RevokeAgentRemoteStepRuns(run[d])]
  BY DEF RevokeAgent
<1>2. \A d \in Deployment : run'[d] \in Rows /\ RowMoves(run[d], run'[d]) /\ BufferMoves(run[d], run'[d])
  BY <1>1, RowAt, RevokedMoves
<1>3. run' \in [Deployment -> Rows]
  BY <1>1, <1>2
<1>4. status' \in [Deployment -> Statuses] /\ staging' \subseteq staging /\ OutputsStay
  BY FailTerminalMoves DEF RevokeAgent
<1>. QED
  BY <1>2, <1>3, <1>4 DEF RevokeAgent, Typed, RowsMove, BuffersMove

LEMMA TickMoves ==
    ASSUME RemoteAssumption, Typed, Tick
    PROVE  Typed' /\ RowsMove /\ BuffersMove
<1>1. run' = [d \in Deployment |-> [run[d] EXCEPT !.age = IF @ < MaxAge THEN @ + 1 ELSE @]]
  BY DEF Tick
<1>2. ASSUME NEW d \in Deployment
      PROVE  run'[d] \in Rows /\ RowMoves(run[d], run'[d]) /\ BufferMoves(run[d], run'[d])
  <2>1. run'[d] = [run[d] EXCEPT !.age = IF @ < MaxAge THEN @ + 1 ELSE @]
    BY <1>1
  <2>2. run'[d] \in Rows
    BY <2>1, RowAt, MaxAgeType DEF Rows
  <2>3. /\ run'[d].state = run[d].state /\ run'[d].token = run[d].token
        /\ run'[d].buffer = run[d].buffer /\ run'[d].dropped = run[d].dropped
    BY <2>1, RowAt DEF Rows
  <2>. QED
    BY <2>2, <2>3 DEF RowMoves, BufferMoves
<1>3. run' \in [Deployment -> Rows]
  BY <1>1, <1>2
<1>. QED
  BY <1>2, <1>3 DEF Tick, Typed, RowsMove, BuffersMove

-----------------------------------------------------------------------------
(* The published log. *)

LEMMA LogAt ==
    ASSUME Typed, NEW d \in Deployment
    PROVE  /\ log[d] \in Seq(LogRows) /\ Len(log[d]) \in Nat /\ DOMAIN log[d] = 1 .. Len(log[d])
           /\ \A i \in 1 .. Len(log[d]) : /\ log[d][i] \in LogRows /\ log[d][i].seq \in Seqs
                                          /\ log[d][i].seq \in Published(d)
           /\ Published(d) \in SUBSET Seqs
<1>1. log[d] \in Seq(LogRows)
  BY DEF Typed
<1>2. Len(log[d]) \in Nat /\ DOMAIN log[d] = 1 .. Len(log[d])
  BY <1>1, LenProperties
<1>3. \A i \in 1 .. Len(log[d]) : log[d][i] \in LogRows
  BY <1>1, ElementOfSeq
<1>4. \A i \in 1 .. Len(log[d]) : log[d][i].seq \in Seqs
  BY <1>3 DEF LogRows
<1>. QED
  BY <1>1, <1>2, <1>3, <1>4 DEF Published

LEMMA LastLine ==
    ASSUME RemoteAssumption, Typed, NEW d \in Deployment
    PROVE  LET last == GetLastRemoteStepLogSequence(d) IN
           /\ last \in Int /\ last >= -1 /\ last \in Published(d) \cup {-1}
           /\ \A m \in Published(d) : m <= last
           /\ Published(d) # {} => last \in Published(d)
<1>0. Published(d) \in SUBSET Seqs /\ Seqs \subseteq Nat
  BY LogAt, Assumed
<1>1. \E n \in Published(d) \cup {-1} : \A m \in Published(d) : m <= n
  <2>1. CASE Published(d) = {}
    BY <2>1
  <2>2. CASE Published(d) # {}
    BY <1>0, <2>2, LastExists
  <2>. QED
    BY <2>1, <2>2
<1>2. /\ GetLastRemoteStepLogSequence(d) \in Published(d) \cup {-1}
      /\ \A m \in Published(d) : m <= GetLastRemoteStepLogSequence(d)
  BY <1>1 DEF GetLastRemoteStepLogSequence
<1>3. ASSUME Published(d) # {}, GetLastRemoteStepLogSequence(d) = -1 PROVE FALSE
  <2>1. PICK m \in Published(d) : TRUE
    BY <1>3
  <2>2. m <= -1 /\ m \in Nat
    BY <1>0, <1>2, <1>3, <2>1
  <2>. QED
    BY <2>2
<1>4. GetLastRemoteStepLogSequence(d) \in Nat \cup {-1}
  BY <1>0, <1>2
<1>5. GetLastRemoteStepLogSequence(d) \in Int /\ GetLastRemoteStepLogSequence(d) >= -1
  BY <1>4
<1>. QED
  BY <1>2, <1>3, <1>5

SeqsOf(L) == {L[i].seq : i \in DOMAIN L}

\* The log L is the log K with the lines S after it, by number.
Appends(L, K, S, hidden) ==
    /\ L \in Seq(LogRows) /\ Len(L) \in Nat /\ Len(K) <= Len(L) /\ DOMAIN L = 1 .. Len(L)
    /\ \A i \in 1 .. Len(K) : L[i] = K[i]
    /\ \A i \in Len(K) + 1 .. Len(L) : L[i].seq \in S /\ L[i].tx = Len(K) /\ L[i].hidden = hidden
    /\ \A i, j \in Len(K) + 1 .. Len(L) : i < j => L[i].seq < L[j].seq

LEMMA LinesShape ==
    ASSUME RemoteAssumption, Typed, NEW d \in Deployment, NEW S \in SUBSET Seqs,
           NEW hidden \in BOOLEAN
    PROVE  /\ Lines(d, S, hidden) \in Seq(LogRows)
           /\ Appends(Lines(d, S, hidden), log[d], S, hidden)
           /\ SeqsOf(Lines(d, S, hidden)) = Published(d) \cup S
<1>. DEFINE old == Len(log[d])
            L == Lines(d, S, hidden)
            N == S \ Published(d)
            n == Cardinality(N)
            s == InSequence(N)
            new == [i \in 1 .. n |-> [seq |-> s[i], tx |-> old, hidden |-> hidden]]
<1>1. log[d] \in Seq(LogRows) /\ old \in Nat /\ DOMAIN log[d] = 1 .. old
  BY LogAt
<1>2. n \in Nat /\ Sorted(s, N)
  BY SeqsFinite, InSequenceSorts
<1>3. /\ s \in [1 .. n -> N]
      /\ \A i, j \in 1 .. n : i < j => s[i] < s[j]
      /\ \A m \in N : \E i \in 1 .. n : s[i] = m
  BY <1>2 DEF Sorted
<1>4. L = log[d] \o new
  BY DEF Lines
<1>. HIDE DEF s, n
<1>5. \A i \in 1 .. n : /\ new[i] = [seq |-> s[i], tx |-> old, hidden |-> hidden]
                        /\ new[i] \in LogRows /\ s[i] \in N
  BY <1>1, <1>3 DEF LogRows
<1>6. new \in Seq(LogRows) /\ Len(new) = n
  <2>1. new \in [1 .. n -> LogRows]
    BY <1>5
  <2>2. new \in Seq(LogRows)
    BY <1>2, <2>1, SeqDef
  <2>3. DOMAIN new = 1 .. n /\ DOMAIN new = 1 .. Len(new) /\ Len(new) \in Nat
    BY <2>1, <2>2, LenProperties
  <2>. QED
    BY <1>2, <2>2, <2>3
<1>. HIDE DEF L, old, new
<1>7. /\ L \in Seq(LogRows) /\ Len(L) = old + n
      /\ \A i \in 1 .. old + n : L[i] = IF i <= old THEN log[d][i] ELSE new[i - old]
  BY <1>1, <1>4, <1>6, ConcatProperties DEF old
<1>8. DOMAIN L = 1 .. Len(L) /\ Len(L) \in Nat /\ old <= Len(L)
  BY <1>1, <1>2, <1>7, LenProperties
<1>9. \A i \in 1 .. old : L[i] = log[d][i]
  BY <1>1, <1>2, <1>7
<1>10. \A i \in old + 1 .. Len(L) :
         /\ i - old \in 1 .. n
         /\ L[i] = [seq |-> s[i - old], tx |-> old, hidden |-> hidden]
         /\ s[i - old] \in N
  <2>. SUFFICES ASSUME NEW i \in old + 1 .. Len(L)
                PROVE  /\ i - old \in 1 .. n /\ L[i] = new[i - old]
    BY <1>5
  <2>. QED
    BY <1>1, <1>2, <1>7
<1>11. \A i \in old + 1 .. Len(L) :
         /\ L[i].seq = s[i - old] /\ L[i].seq \in S /\ L[i].seq \notin Published(d)
         /\ L[i].tx = old /\ L[i].hidden = hidden
  <2>. SUFFICES ASSUME NEW i \in old + 1 .. Len(L)
                PROVE  /\ L[i].seq = s[i - old] /\ L[i].seq \in N
                       /\ L[i].tx = old /\ L[i].hidden = hidden
    OBVIOUS
  <2>1. L[i] = [seq |-> s[i - old], tx |-> old, hidden |-> hidden] /\ s[i - old] \in N
    BY <1>10
  <2>. HIDE DEF N
  <2>. QED
    BY <2>1
<1>12. \A i, j \in old + 1 .. Len(L) : i < j => L[i].seq < L[j].seq
  <2>. SUFFICES ASSUME NEW i \in old + 1 .. Len(L), NEW j \in old + 1 .. Len(L), i < j
                PROVE  s[i - old] < s[j - old]
    BY <1>11
  <2>0. i - old \in 1 .. n /\ j - old \in 1 .. n
    BY <1>10
  <2>1. i - old < j - old
    BY <1>1, <1>8
  <2>. QED
    BY <1>3, <2>0, <2>1
<1>13. {L[i].seq : i \in DOMAIN L} \subseteq Published(d) \cup S
  <2>. SUFFICES ASSUME NEW i \in 1 .. Len(L) PROVE L[i].seq \in Published(d) \cup S
    BY <1>8
  <2>1. i \in 1 .. old \/ i \in old + 1 .. Len(L)
    BY <1>1, <1>8
  <2>. QED
    BY <1>1, <1>9, <1>11, <2>1 DEF Published
<1>14. Published(d) \subseteq {L[i].seq : i \in DOMAIN L}
  <2>. SUFFICES ASSUME NEW i \in 1 .. old PROVE log[d][i].seq \in {L[j].seq : j \in DOMAIN L}
    BY <1>1 DEF Published
  <2>1. i \in DOMAIN L /\ L[i].seq = log[d][i].seq
    BY <1>1, <1>8, <1>9
  <2>. QED
    BY <2>1
<1>15. N \subseteq {L[i].seq : i \in DOMAIN L}
  <2>. SUFFICES ASSUME NEW m \in N PROVE m \in {L[i].seq : i \in DOMAIN L}
    OBVIOUS
  <2>1. PICK k \in 1 .. n : s[k] = m
    BY <1>3
  <2>2. old + k \in old + 1 .. Len(L) /\ (old + k) - old = k /\ old + k \in 1 .. Len(L)
    BY <1>1, <1>2, <1>7
  <2>3. L[old + k].seq = m /\ old + k \in DOMAIN L
    BY <1>8, <1>11, <2>1, <2>2
  <2>. QED
    BY <2>3
<1>16. SeqsOf(L) = Published(d) \cup S
  BY <1>13, <1>14, <1>15 DEF SeqsOf
<1>. QED
  BY <1>7, <1>8, <1>9, <1>11, <1>12, <1>16 DEF L, old, Appends

-----------------------------------------------------------------------------
(* The lines that continue a cursor without a gap. *)

LEMMA ExpectedType ==
    ASSUME RemoteAssumption, NEW S \in SUBSET Seqs, NEW cursor \in Int, cursor >= -1,
           \A n \in S : n > cursor
    PROVE  /\ Expected(S, cursor) \in Nat
           /\ \A n \in S : n >= Expected(S, cursor)
           /\ cursor >= 0 => Expected(S, cursor) = cursor + 1
           /\ Expected(S, cursor) \in {cursor + 1, 1} /\ Expected(S, cursor) > cursor
<1>1. S \subseteq Nat
  BY Assumed
<1>. QED
  BY <1>1 DEF Expected

LEMMA ContiguousIs ==
    ASSUME RemoteAssumption, NEW S \in SUBSET Seqs, NEW cursor \in Int, cursor >= -1,
           \A n \in S : n > cursor
    PROVE  LET C == contiguous(S, cursor)
               A == Advanced(S, cursor)
               E == Expected(S, cursor)
           IN  /\ C \subseteq S /\ A \in Int /\ A >= cursor
               /\ C = {} => A = cursor /\ E \notin S
               /\ C # {} => A \in C /\ C = E .. A /\ A + 1 \notin S
               /\ \A n \in S \ C : n > A
               /\ contiguous(S \ C, A) = {}
<1>. DEFINE C == contiguous(S, cursor)
            A == Advanced(S, cursor)
            E == Expected(S, cursor)
<1>0. /\ S \subseteq Nat /\ E \in Nat /\ \A n \in S : n >= E
      /\ cursor >= 0 => E = cursor + 1
      /\ E > cursor
  BY Assumed, ExpectedType
<1>1. C = {n \in S : \A m \in E .. n : m \in S}
  BY DEF contiguous
<1>2. C \in SUBSET Seqs /\ C \subseteq S
  BY <1>1
<1>a. A = IF C = {} THEN cursor ELSE SetMax(C)
  BY DEF Advanced
<1>. HIDE DEF C, A, E
<1>3. C = {} => A = cursor /\ E \notin S
  <2>. SUFFICES ASSUME C = {}, E \in S PROVE FALSE
    BY <1>a
  <2>1. \A m \in E .. E : m = E
    BY <1>0
  <2>. QED
    BY <1>1, <2>1
<1>4. C # {} => A \in C /\ (\A m \in C : m <= A) /\ A \in Nat
  BY <1>0, <1>2, <1>a, SetMaxType
<1>5. ASSUME C # {} PROVE C = E .. A
  <2>1. \A m \in E .. A : m \in C
    <3>. SUFFICES ASSUME NEW m \in E .. A PROVE m \in C
      OBVIOUS
    <3>1. m \in S
      BY <1>1, <1>4, <1>5
    <3>2. \A k \in E .. m : k \in E .. A
      BY <1>0, <1>4, <1>5
    <3>. QED
      BY <1>1, <1>4, <1>5, <3>1, <3>2
  <2>2. \A n \in C : n \in E .. A
    BY <1>0, <1>2, <1>4, <1>5
  <2>. QED
    BY <2>1, <2>2
<1>6. ASSUME C # {}, A + 1 \in S PROVE FALSE
  <2>1. \A m \in E .. A + 1 : m \in E .. A \/ m = A + 1
    BY <1>0, <1>4, <1>6
  <2>2. A + 1 \in C
    BY <1>1, <1>2, <1>5, <1>6, <2>1
  <2>. QED
    BY <1>4, <1>6, <2>2
<1>7. ASSUME NEW n \in S \ C PROVE n > A
  <2>1. CASE C = {}
    BY <1>3, <1>7, <2>1
  <2>2. CASE C # {}
    <3>1. n \in Nat /\ A \in Nat /\ n >= E /\ n \notin E .. A
      BY <1>0, <1>4, <1>5, <1>7, <2>2
    <3>. QED
      BY <1>0, <3>1
  <2>. QED
    BY <2>1, <2>2
<1>8. A \in Int /\ A >= cursor
  BY <1>0, <1>2, <1>3, <1>4
<1>9. contiguous(S \ C, A) = {}
  <2>1. CASE A >= 0
    <3>1. Expected(S \ C, A) = A + 1
      BY <1>8, <2>1 DEF Expected
    <3>2. A + 1 \notin S
      BY <1>0, <1>3, <1>6, <2>1
    <3>3. \A n \in S \ C : A + 1 \in A + 1 .. n
      BY <1>0, <1>7, <1>8
    <3>. QED
      BY <3>1, <3>2, <3>3 DEF contiguous
  <2>2. CASE A < 0
    <3>1. C = {} /\ A = cursor /\ S \ C = S
      BY <1>3, <1>4, <2>2
    <3>. QED
      BY <3>1 DEF C
  <2>. QED
    BY <1>8, <2>1, <2>2
<1>. QED
  BY <1>2, <1>3, <1>4, <1>5, <1>6, <1>7, <1>8, <1>9 DEF C, A, E

\* A set of lines that goes from just after one cursor to another.
Spans(T, cursor, A) ==
    \/ T = {} /\ A = cursor
    \/ A \in T /\ T = Expected(T, cursor) .. A

LEMMA SpanIsContiguous ==
    ASSUME RemoteAssumption, NEW T \in SUBSET Seqs, NEW cursor \in Int, cursor >= -1,
           \A n \in T : n > cursor, NEW A \in Int
    PROVE  Spans(T, cursor, A) <=> T = contiguous(T, cursor) /\ Advanced(T, cursor) = A
<1>0. T \subseteq Nat /\ Expected(T, cursor) \in Nat
  BY Assumed, ExpectedType
<1>1. ASSUME T = contiguous(T, cursor), Advanced(T, cursor) = A PROVE Spans(T, cursor, A)
  BY <1>1, ContiguousIs DEF Spans
<1>2. CASE T = {} /\ A = cursor
  <2>1. contiguous(T, cursor) = {}
    BY <1>2 DEF contiguous
  <2>. QED
    BY <1>1, <1>2, <2>1 DEF Advanced, Spans
<1>3. ASSUME A \in T, T = Expected(T, cursor) .. A
      PROVE  T = contiguous(T, cursor) /\ Advanced(T, cursor) = A
  <2>. DEFINE E == Expected(T, cursor)
  <2>1. \A n \in T : \A m \in E .. n : m \in E .. A
    BY <1>0, <1>3
  <2>. HIDE DEF E
  <2>2. contiguous(T, cursor) = T
    BY <1>3, <2>1 DEF contiguous, E
  <2>3. \A m \in T : m <= A
    BY <1>0, <1>3 DEF E
  <2>4. SetMax(T) = A
    BY <1>0, <1>3, <2>3, SetMaxIs
  <2>. QED
    BY <1>3, <2>2, <2>4 DEF Advanced
<1>. QED
  BY <1>1, <1>2, <1>3 DEF Spans

LEMMA ContiguousSpans ==
    ASSUME RemoteAssumption, NEW S \in SUBSET Seqs, NEW cursor \in Int, cursor >= -1,
           \A n \in S : n > cursor
    PROVE  Spans(contiguous(S, cursor), cursor, Advanced(S, cursor))
<1>. DEFINE C == contiguous(S, cursor)
            A == Advanced(S, cursor)
            E == Expected(S, cursor)
<1>1. /\ C \subseteq S /\ A \in Int /\ A >= cursor
      /\ C = {} => A = cursor /\ E \notin S
      /\ C # {} => A \in C /\ C = E .. A /\ A + 1 \notin S
  BY ContiguousIs
<1>2. E \in Nat /\ (\A n \in S : n >= E) /\ S \subseteq Nat
  BY Assumed, ExpectedType
<1>3. C # {} => E \in C
  BY <1>1, <1>2
<1>4. C # {} => Expected(C, cursor) = E
  BY <1>1, <1>3 DEF Expected
<1>. QED
  BY <1>1, <1>4 DEF Spans

LEMMA SpansJoin ==
    ASSUME RemoteAssumption, NEW T \in SUBSET Seqs, NEW C \in SUBSET Seqs,
           NEW cursor \in Int, cursor >= -1, NEW B \in Int, B >= cursor, NEW A \in Int,
           \A n \in T : n > cursor, \A n \in C : n > B,
           Spans(T, cursor, B), Spans(C, B, A)
    PROVE  Spans(T \cup C, cursor, A)
<1>0. T \subseteq Nat /\ C \subseteq Nat
  BY Assumed
<1>1. CASE T = {}
  <2>1. B = cursor /\ T \cup C = C
    BY <1>1 DEF Spans
  <2>. QED
    BY <2>1
<1>2. CASE C = {}
  <2>1. B = A /\ T \cup C = T
    BY <1>2 DEF Spans
  <2>. QED
    BY <2>1
<1>3. CASE T # {} /\ C # {}
  <2>1. /\ B \in T /\ T = Expected(T, cursor) .. B /\ B \in Nat
        /\ A \in C /\ C = Expected(C, B) .. A
    BY <1>0, <1>3 DEF Spans
  <2>2. Expected(C, B) = B + 1
    BY <2>1, ExpectedType
  <2>3. Expected(T, cursor) \in Nat /\ Expected(T, cursor) <= B
    <3>1. Expected(T, cursor) \in Nat
      BY ExpectedType
    <3>. QED
      BY <2>1, <3>1
  <2>4. Expected(T \cup C, cursor) = Expected(T, cursor)
    <3>1. 0 \notin C
      BY <1>0, <2>1
    <3>. QED
      BY <3>1 DEF Expected
  <2>5. A \in Nat /\ A >= B + 1
    BY <1>0, <2>1, <2>2
  <2>6. T \cup C = Expected(T, cursor) .. A
    BY <2>1, <2>2, <2>3, <2>5
  <2>. QED
    BY <2>1, <2>4, <2>6 DEF Spans
<1>. QED
  BY <1>1, <1>2, <1>3

\* Publishing the first part of a span leaves a span.
LEMMA SpansCut ==
    ASSUME RemoteAssumption, NEW T \in SUBSET Seqs, NEW K \in SUBSET T,
           NEW cursor \in Int, cursor >= -1, NEW A \in Int,
           \A n \in T : n > cursor, Spans(T, cursor, A),
           \A n \in K : \A m \in T : m >= n => m \in K,
           T \ K # {}
    PROVE  LET r == SetMax(T \ K) IN
           /\ r \in T \ K /\ (\A m \in T \ K : m <= r) /\ r \in Nat
           /\ \A n \in K : n > r
           /\ Spans(K, r, A) /\ r <= A
<1>. DEFINE R == T \ K
            r == SetMax(R)
            E == Expected(T, cursor)
<1>0. T \subseteq Nat /\ K \subseteq Nat /\ E \in Nat
  BY Assumed, ExpectedType
<1>1. r \in R /\ (\A m \in R : m <= r)
  BY SetMaxType
<1>2. r \in Nat /\ r \in T /\ r \notin K
  BY <1>0, <1>1
<1>. HIDE DEF r, R, E
<1>3. A \in T /\ T = E .. A
  BY <1>2 DEF Spans, E
<1>4. \A n \in K : n > r
  <2>. SUFFICES ASSUME NEW n \in K, ~(n > r) PROVE FALSE
    OBVIOUS
  <2>1. r >= n
    BY <1>0, <1>2
  <2>. QED
    BY <1>2, <2>1
<1>5. r <= A
  BY <1>0, <1>2, <1>3
<1>6. K = r + 1 .. A
  <2>1. \A n \in K : n \in r + 1 .. A
    BY <1>0, <1>2, <1>3, <1>4
  <2>2. ASSUME NEW n \in r + 1 .. A PROVE n \in K
    <3>1. n \in Int /\ n > r /\ n \in E .. A
      BY <1>0, <1>2, <1>3
    <3>2. n \in T /\ n \notin R
      BY <1>1, <1>2, <1>3, <3>1
    <3>. QED
      BY <3>2 DEF R
  <2>. QED
    BY <2>1, <2>2
<1>7. Expected(K, r) = r + 1
  BY <1>2 DEF Expected
<1>8. Spans(K, r, A)
  <2>1. CASE r = A
    <3>1. K = {}
      BY <1>2, <1>6, <2>1
    <3>. QED
      BY <2>1, <3>1 DEF Spans
  <2>2. CASE r # A
    <3>1. A \in K
      BY <1>2, <1>5, <1>6, <2>2
    <3>. QED
      BY <1>6, <1>7, <3>1 DEF Spans
  <2>. QED
    BY <2>1, <2>2
<1>. QED
  BY <1>1, <1>2, <1>4, <1>5, <1>8 DEF r, R

-----------------------------------------------------------------------------
(* One batch against a buffer. *)

LEMMA MergedType ==
    ASSUME NEW b \in Buffers, NEW S \in SUBSET Seqs
    PROVE  Merged(b, S) \in SUBSET Seqs /\ b.through \in Int /\ b.suppressed \in BOOLEAN
           /\ b.tail \in SUBSET Seqs /\ b.gaps \in SUBSET Seqs
BY DEF Merged, Buffers

LEMMA PreparedTypes ==
    ASSUME RemoteAssumption, NEW b \in Buffers, NEW S \in SUBSET Seqs
    PROVE  LET p == prepareRemoteLogEvents(b, S) IN
           p.ready \in SUBSET Seqs /\ p.hidden \in BOOLEAN /\ p.buffer \in Buffers
<1>. DEFINE M == Merged(b, S)
            C == contiguous(M, b.through)
            A == Advanced(M, b.through)
            tail == IF b.suppressed THEN {} ELSE HeldBack(b.tail \cup C)
            overflow == ~remoteLogEventsFit(tail \cup (M \ C))
            kept == IF overflow THEN {} ELSE tail
            p == prepareRemoteLogEvents(b, S)
<1>1. M \in SUBSET Seqs /\ b.through \in Int /\ b.tail \in SUBSET Seqs
  BY MergedType
<1>2. C \in SUBSET Seqs
  BY <1>1 DEF contiguous
<1>3. A \in Int
  <2>1. CASE C = {}
    BY <1>1, <2>1 DEF Advanced
  <2>2. CASE C # {}
    BY <1>2, <2>2, SetMaxType, Assumed DEF Advanced
  <2>. QED
    BY <2>1, <2>2
<1>4. HeldBack(b.tail \cup C) \in SUBSET Seqs
  BY <1>1, <1>2 DEF HeldBack
<1>5. p = [ready |-> (b.tail \cup C) \ kept, hidden |-> (b.suppressed \/ overflow),
           buffer |-> [through |-> A, suppressed |-> (b.suppressed \/ overflow),
                       tail |-> kept, gaps |-> M \ C]]
  BY DEF prepareRemoteLogEvents
<1>6. kept \in SUBSET Seqs
  BY <1>4
<1>7. (b.suppressed \/ overflow) \in BOOLEAN
  OBVIOUS
<1>. HIDE DEF M, C, A, kept, p, overflow
<1>8. p.buffer \in Buffers
  BY <1>1, <1>3, <1>5, <1>6, <1>7 DEF Buffers
<1>9. p.ready = (b.tail \cup C) \ kept /\ p.hidden = (b.suppressed \/ overflow)
  BY <1>5
<1>10. p.ready \in SUBSET Seqs
  BY <1>1, <1>2, <1>9
<1>. QED
  BY <1>7, <1>8, <1>9, <1>10 DEF p

\* The buffer that a batch leaves continues what is then published, none of
\* the lines the server has is lost, and the last line it publishes does not
\* begin a secret in the clear.
LEMMA PreparedKeeps ==
    ASSUME RemoteAssumption, NEW b \in Buffers, NEW last \in Int, last >= -1,
           Readable(b, last), \A n \in b.tail : n > last,
           NEW S \in SUBSET Seqs, Admissible(b, S)
    PROVE  LET p == prepareRemoteLogEvents(b, S)
               k == p.buffer
               r == SetMax(p.ready)
           IN  /\ k.through >= -1
               /\ \A n \in p.ready : n > last
               /\ p.ready = {} => Readable(k, last) /\ \A n \in k.tail : n > last
               /\ p.ready # {} => /\ Readable(k, r) /\ \A n \in k.tail : n > r
                                  /\ p.hidden \/ r \notin Split
               /\ b.tail \subseteq p.ready \cup k.tail
               /\ b.gaps \subseteq p.ready \cup k.tail \cup k.gaps
               /\ \A n \in S : n <= b.through \/ n \in p.ready \cup k.tail \cup k.gaps
               /\ \A n \in 1 .. k.through : n <= b.through \/ n \in p.ready \cup k.tail
<1>. DEFINE M == Merged(b, S)
            C == contiguous(M, b.through)
            A == Advanced(M, b.through)
            all == b.tail \cup C
            G == M \ C
            tail == IF b.suppressed THEN {} ELSE HeldBack(all)
            overflow == ~remoteLogEventsFit(tail \cup G)
            hidden == b.suppressed \/ overflow
            kept == IF overflow THEN {} ELSE tail
            p == prepareRemoteLogEvents(b, S)
            k == p.buffer
            R == p.ready
<1>1. /\ M \in SUBSET Seqs /\ b.through \in Int /\ b.tail \in SUBSET Seqs /\ b.gaps \in SUBSET Seqs
      /\ b.suppressed \in BOOLEAN /\ S \subseteq Nat /\ Seqs \subseteq Nat
  BY MergedType, Assumed
<1>2. b.through >= last /\ b.through >= -1 /\ \A n \in M : n > b.through
  BY <1>1 DEF Readable, Merged
<1>3. /\ C \subseteq M /\ A \in Int /\ A >= b.through
      /\ C = {} => A = b.through
      /\ C # {} => A \in C /\ C = Expected(M, b.through) .. A
      /\ \A n \in G : n > A
      /\ contiguous(G, A) = {}
  <2>. DEFINE t == b.through
  <2>1. t \in Int /\ t >= -1 /\ \A n \in M : n > t
    BY <1>1, <1>2
  <2>. HIDE DEF M, t
  <2>2. /\ contiguous(M, t) \subseteq M /\ Advanced(M, t) \in Int /\ Advanced(M, t) >= t
        /\ contiguous(M, t) = {} => Advanced(M, t) = t
        /\ contiguous(M, t) # {} =>
              Advanced(M, t) \in contiguous(M, t) /\ contiguous(M, t) = Expected(M, t) .. Advanced(M, t)
        /\ \A n \in M \ contiguous(M, t) : n > Advanced(M, t)
        /\ contiguous(M \ contiguous(M, t), Advanced(M, t)) = {}
    BY <1>1, <2>1, ContiguousIs
  <2>. QED
    BY <2>2 DEF t
<1>4. Spans(C, b.through, A)
  BY <1>1, <1>2, ContiguousSpans
<1>5. Spans(b.tail, last, b.through)
  BY <1>1, <1>2, SpanIsContiguous DEF Readable
<1>6. GapsAllowed(G, A)
  BY DEF Admissible
<1>7. /\ p.ready = all \ kept /\ p.hidden = hidden /\ k.through = A /\ k.suppressed = hidden
      /\ k.tail = kept /\ k.gaps = G
  BY DEF prepareRemoteLogEvents
<1>8. HeldBack(all) = {n \in all : \A m \in all : m >= n => m \in Split}
  BY DEF HeldBack
<1>9. /\ kept \in {{}, HeldBack(all)} /\ (hidden => kept = {})
      /\ (~hidden => kept = HeldBack(all))
  <2>1. CASE overflow
    BY <2>1
  <2>2. CASE ~overflow
    <3>1. CASE b.suppressed
      BY <2>2, <3>1
    <3>2. CASE ~b.suppressed
      BY <2>2, <3>2
    <3>. QED
      BY <3>1, <3>2
  <2>. QED
    BY <2>1, <2>2
<1>10. remoteLogEventsFit(kept \cup G)
  <2>1. CASE overflow
    <3>1. kept \cup G = G
      BY <2>1
    <3>. QED
      BY <1>6, <3>1 DEF GapsAllowed
  <2>2. CASE ~overflow
    BY <2>2
  <2>. QED
    BY <2>1, <2>2
<1>. HIDE DEF M, C, A, tail, overflow, hidden, kept, p, k, R
<1>11. Spans(all, last, A) /\ all \in SUBSET Seqs /\ \A n \in all : n > last
  <2>1. C \in SUBSET Seqs /\ \A n \in C : n > b.through
    BY <1>1, <1>2, <1>3
  <2>2. \A n \in C : n > last
    BY <1>1, <1>2, <2>1
  <2>3. Spans(b.tail \cup C, last, A)
    BY <1>1, <1>2, <1>3, <1>4, <1>5, <2>1, SpansJoin
  <2>. QED
    BY <1>1, <2>1, <2>2, <2>3
<1>12. kept \in SUBSET all /\ \A n \in kept : \A m \in all : m >= n => m \in kept
  <2>. HIDE DEF all
  <2>1. ASSUME NEW n \in HeldBack(all), NEW m \in all, m >= n PROVE m \in HeldBack(all)
    <3>0. all \subseteq Nat /\ n \in Nat /\ m \in Nat
      BY <1>1, <1>8, <1>11, <2>1
    <3>1. \A x \in all : x >= m => x >= n
      BY <2>1, <3>0
    <3>. QED
      BY <1>8, <2>1, <3>1
  <2>. QED
    BY <1>8, <1>9, <2>1
<1>13. ASSUME NEW c \in Int, c >= -1, c <= A, kept \in SUBSET Seqs, Spans(kept, c, A), \A n \in kept : n > c
       PROVE  Readable(k, c)
  <2>1. kept = contiguous(kept, c) /\ Advanced(kept, c) = A
    BY <1>3, <1>13, SpanIsContiguous
  <2>2. k.suppressed => k.tail = {}
    BY <1>7, <1>9
  <2>. QED
    BY <1>3, <1>6, <1>7, <1>10, <1>13, <2>1, <2>2 DEF Readable
<1>. HIDE DEF all, G
<1>14. last <= A /\ A >= -1
  BY <1>1, <1>2, <1>3
<1>15. ASSUME R = {} PROVE Readable(k, last) /\ \A n \in k.tail : n > last
  <2>1. kept = all
    BY <1>7, <1>12, <1>15 DEF R
  <2>. QED
    BY <1>7, <1>11, <1>13, <1>14, <2>1
<1>16. ASSUME R # {}
       PROVE  Readable(k, SetMax(R)) /\ (\A n \in k.tail : n > SetMax(R)) /\ (p.hidden \/ SetMax(R) \notin Split)
  <2>. DEFINE r == SetMax(R)
  <2>0. R = all \ kept
    BY <1>7 DEF R
  <2>1. /\ r \in all \ kept /\ (\A m \in all \ kept : m <= r) /\ r \in Nat
        /\ \A n \in kept : n > r
        /\ Spans(kept, r, A) /\ r <= A
    <3>1. all \ kept # {}
      BY <1>16, <2>0
    <3>2. LET q == SetMax(all \ kept) IN
          /\ q \in all \ kept /\ (\A m \in all \ kept : m <= q) /\ q \in Nat
          /\ \A n \in kept : n > q
          /\ Spans(kept, q, A) /\ q <= A
      <4>1. A \in Int /\ Spans(all, last, A)
        BY <1>3, <1>11
      <4>2. all \in SUBSET Seqs /\ kept \in SUBSET all /\ \A n \in all : n > last
        BY <1>11, <1>12
      <4>. QED
        BY <1>12, <3>1, <4>1, <4>2, SpansCut, Zenon
    <3>. QED
      BY <2>0, <3>2
  <2>. HIDE DEF r
  <2>2. Readable(k, r)
    <3>1. kept \in SUBSET Seqs /\ r \in Int /\ r >= -1
      BY <1>11, <1>12, <2>1
    <3>. QED
      BY <1>13, <2>1, <3>1
  <2>3. ASSUME ~hidden, r \in Split PROVE FALSE
    <3>1. PICK m \in all : m >= r /\ m \notin Split
      BY <1>8, <1>9, <2>1, <2>3
    <3>2. m \in kept
      <4>1. m # r
        BY <2>3, <3>1
      <4>2. ~(m <= r)
        BY <1>1, <1>11, <2>1, <3>1, <4>1
      <4>. QED
        BY <2>1, <4>2
    <3>. QED
      BY <1>8, <1>9, <1>1, <1>11, <2>3, <3>1, <3>2
  <2>. QED
    BY <1>7, <2>1, <2>2, <2>3 DEF r
<1>17. \A n \in R : n > last
  BY <1>7, <1>11 DEF R
<1>18. b.tail \subseteq R \cup k.tail /\ C \subseteq R \cup k.tail /\ M \subseteq R \cup k.tail \cup k.gaps
  BY <1>7 DEF R, all, G
<1>19. b.gaps \subseteq M /\ \A n \in S : n <= b.through \/ n \in M
  BY <1>1 DEF M, Merged
<1>20. \A n \in 1 .. A : n <= b.through \/ n \in C
  <2>. SUFFICES ASSUME NEW n \in 1 .. A, n > b.through PROVE n \in C
    BY <1>1
  <2>1. C # {}
    BY <1>1, <1>3
  <2>2. Expected(M, b.through) \in {b.through + 1, 1} /\ Expected(M, b.through) \in Nat
    BY <1>1, <1>2, ExpectedType
  <2>3. n >= Expected(M, b.through) /\ n <= A /\ n \in Int
    BY <1>1, <1>3, <2>2
  <2>. QED
    BY <1>3, <2>1, <2>2, <2>3
<1>. QED
  BY <1>7, <1>14, <1>15, <1>16, <1>17, <1>18, <1>19, <1>20 DEF R, k, p

-----------------------------------------------------------------------------
(* The steps made with a claim, and the claims themselves. *)

LEMMA ClaimStepShape ==
    ASSUME RemoteAssumption, ClaimsInv, NEW p \in Poll, NEW d \in Deployment, ClaimStep(p, d)
    PROVE  /\ Typed' /\ Len(claims) \in Nat /\ Len(claims') = Len(claims) + 1
           /\ \A u \in Tokens : claims'[u] = claims[u]
           /\ claims'[Len(claims) + 1] = [d |-> d, caps |-> polls[p], agent |-> "sent",
                                          granted |-> FALSE, told |-> FALSE, acked |-> {}]
           /\ Tokens' = Tokens \cup {Len(claims) + 1} /\ Len(claims) + 1 \notin Tokens
           /\ run[d].state = "waiting" /\ run[d].token = 0
           /\ \A e \in Deployment : e # d => run'[e] = run[e]
           /\ run'[d].state = "claimed" /\ run'[d].token = Len(claims) + 1
           /\ run'[d].buffer = run[d].buffer /\ run'[d].dropped = run[d].dropped
<1>. DEFINE c == [d |-> d, caps |-> polls[p], agent |-> "sent", granted |-> FALSE,
                  told |-> FALSE, acked |-> {}]
            r == [run[d] EXCEPT !.state = "claimed", !.token = Len(claims) + 1, !.age = 0]
<1>0. Typed
  BY DEF ClaimsInv
<1>1. Len(claims) \in Nat /\ claims \in Seq(ClaimRows)
  BY <1>0, LenProperties DEF Typed
<1>2. c \in ClaimRows
  <2>1. polls[p] \in Capabilities
    BY <1>0 DEF Typed
  <2>. QED
    BY <2>1 DEF ClaimRows
<1>3. claims' = Append(claims, c) /\ run' = [run EXCEPT ![d] = r]
  BY DEF ClaimStep
<1>4. run[d].state = "waiting"
  BY DEF ClaimStep, Oldest, Candidates
<1>5. run[d].token = 0
  BY <1>4 DEF ClaimsInv, Owned
<1>6. 0 \in 0 .. MaxAge
  BY MaxAgeType
<1>7. r \in Rows
  <2>. DEFINE n == Len(claims) + 1
  <2>1. n \in Nat /\ "claimed" \in States
    BY <1>1 DEF States, Active
  <2>2. run[d] \in Rows
    BY <1>0, RowAt
  <2>. HIDE DEF n
  <2>3. [run[d] EXCEPT !.state = "claimed", !.token = n, !.age = 0] \in Rows
    BY <1>6, <2>1, <2>2 DEF Rows
  <2>. QED
    BY <2>3 DEF n
<1>8. /\ r.state = "claimed" /\ r.token = Len(claims) + 1
      /\ r.buffer = run[d].buffer /\ r.dropped = run[d].dropped
  BY <1>0, RowAt DEF Rows
<1>. HIDE DEF c, r
<1>9. /\ claims' \in Seq(ClaimRows) /\ Len(claims') = Len(claims) + 1
      /\ \A u \in 1 .. Len(claims) : claims'[u] = claims[u]
      /\ claims'[Len(claims) + 1] = c
  BY <1>1, <1>2, <1>3, AppendProperties
<1>10. Tokens' = Tokens \cup {Len(claims) + 1} /\ Len(claims) + 1 \notin Tokens
  BY <1>1, <1>9 DEF Tokens
<1>11. run' \in [Deployment -> Rows] /\ run'[d] = r /\ \A e \in Deployment : e # d => run'[e] = run[e]
  BY <1>0, <1>3, <1>7 DEF Typed
<1>12. polls' \in [Poll -> Capabilities]
  <2>1. NoPoll \in Capabilities
    BY DEF NoPoll, Capabilities
  <2>. QED
    BY <1>0, <2>1 DEF ClaimStep, Typed
<1>13. Typed'
  BY <1>0, <1>9, <1>11, <1>12 DEF ClaimStep, Typed
<1>. QED
  BY <1>1, <1>4, <1>5, <1>8, <1>9, <1>10, <1>11, <1>13 DEF Tokens, c

\* An offer: the run waited, so no claim owned it, and none was let start.
LEMMA ClaimStepKeeps ==
    ASSUME RemoteAssumption, ClaimsInv, NEW p \in Poll, NEW d \in Deployment, ClaimStep(p, d)
    PROVE  ClaimsInv' /\ Stays
<1>. DEFINE n == Len(claims) + 1
<1>0. /\ Typed' /\ Len(claims) \in Nat /\ Len(claims') = n
      /\ \A u \in Tokens : claims'[u] = claims[u]
      /\ claims'[n] = [d |-> d, caps |-> polls[p], agent |-> "sent",
                       granted |-> FALSE, told |-> FALSE, acked |-> {}]
      /\ Tokens' = Tokens \cup {n} /\ n \notin Tokens
      /\ run[d].state = "waiting" /\ run[d].token = 0
      /\ \A e \in Deployment : e # d => run'[e] = run[e]
      /\ run'[d].state = "claimed" /\ run'[d].token = n
  BY ClaimStepShape
<1>c. /\ claims'[n].d = d /\ claims'[n].caps = polls[p] /\ claims'[n].agent = "sent"
      /\ claims'[n].granted = FALSE
  BY <1>0
<1>t. \A t \in Tokens : claims[t].d \in Deployment /\ t # 0 /\ t # n
  BY <1>0, ClaimAt DEF ClaimsInv
<1>1. Stays
  BY <1>0 DEF Stays, Finished
<1>2. Owned'
  <2>1. \A e \in Deployment : run[e].token # 0 => run[e].token \in Tokens
    BY <1>0 DEF ClaimsInv, Owned, Tokens
  <2>2. ASSUME NEW e \in Deployment, e # d
        PROVE  /\ run'[e].token \in 0 .. Len(claims')
               /\ run'[e].token # 0 => claims'[run'[e].token].d = e
               /\ run'[e].state \in {"none", "waiting"} => run'[e].token = 0
    BY <1>0, <2>1, <2>2 DEF ClaimsInv, Owned
  <2>3. /\ run'[d].token \in 0 .. Len(claims')
        /\ run'[d].token # 0 => claims'[run'[d].token].d = d
        /\ run'[d].state \in {"none", "waiting"} => run'[d].token = 0
    BY <1>0, <1>c
  <2>. QED
    BY <2>2, <2>3 DEF Owned
<1>3. Granted'
  <2>1. ASSUME NEW t \in Tokens
        PROVE  /\ claims'[t].granted => Owns(t)' /\ run'[claims'[t].d].state \in PastStart
               /\ claims'[t].agent \in Began => claims'[t].granted
    <3>1. claims'[t] = claims[t]
      BY <1>0
    <3>2. /\ claims[t].granted => run[claims[t].d].token = t /\ run[claims[t].d].state \in PastStart
          /\ claims[t].agent \in Began => claims[t].granted
      BY DEF ClaimsInv, Granted, Owns
    <3>3. claims[t].granted => claims[t].d # d
      BY <1>0, <1>t, <3>2
    <3>. QED
      BY <1>0, <1>t, <3>1, <3>2, <3>3 DEF Owns
  <2>2. ~claims'[n].granted /\ claims'[n].agent \notin Began
    BY <1>c DEF Began
  <2>. QED
    BY <1>0, <2>1, <2>2 DEF Granted
<1>4. OutcomeHonest'
  <2>. SUFFICES ASSUME NEW t \in Tokens', run'[claims'[t].d].token = t,
                       run'[claims'[t].d].state \in Finished
                PROVE  claims'[t].agent = (IF run'[claims'[t].d].state = "cancelled" THEN "stopped"
                                           ELSE run'[claims'[t].d].state)
    BY DEF OutcomeHonest
  <2>1. t # n
    BY <1>0, <1>c DEF Finished
  <2>2. t \in Tokens /\ claims'[t] = claims[t]
    BY <1>0, <2>1
  <2>3. claims[t].d # d
    BY <1>0, <2>1, <2>2
  <2>4. run'[claims[t].d] = run[claims[t].d]
    BY <1>0, <1>t, <2>2, <2>3
  <2>. QED
    BY <2>2, <2>4 DEF ClaimsInv, OutcomeHonest
<1>5. ClaimFits'
  <2>1. \A t \in Tokens : /\ Needs[claims'[t].d] \in claims'[t].caps.modes
                          /\ claims'[t].d \in Staged => claims'[t].caps.staging
    BY <1>0 DEF ClaimsInv, ClaimFits
  <2>2. Needs[d] \in polls[p].modes /\ (d \in Staged => polls[p].staging)
    BY DEF ClaimStep, Oldest, Candidates, Eligible, pollCapabilitiesMatch, Input
  <2>. QED
    BY <1>0, <1>c, <2>1, <2>2 DEF ClaimFits
<1>6. SuccessHasOutput'
  <2>1. status' = status /\ staging' = staging
    BY DEF ClaimStep
  <2>2. \A e \in Deployment : run'[e].state = "succeeded" => run[e].state = "succeeded"
    BY <1>0
  <2>. QED
    BY <2>1, <2>2 DEF ClaimsInv, SuccessHasOutput, Input
<1>. QED
  BY <1>0, <1>1, <1>2, <1>3, <1>4, <1>5, <1>6 DEF ClaimsInv

\* A start: the claim owns the row, which is or becomes started.
LEMMA StartKeeps ==
    ASSUME RemoteAssumption, ClaimsInv, NEW t \in Tokens, Start(t)
    PROVE  /\ ClaimsInv' /\ Stays /\ RowsMove /\ BuffersMove /\ Len(claims') = Len(claims)
           /\ \A u \in Tokens : claims'[u].d = claims[u].d /\ claims'[u].acked = claims[u].acked
<1>. DEFINE d == claims[t].d
            v == [claims[t] EXCEPT !.granted = TRUE]
            r == [run[d] EXCEPT !.state = "started", !.token = t, !.age = 0]
<1>0. Typed /\ claims[t] \in ClaimRows /\ d \in Deployment /\ t \in Nat \ {0}
  BY ClaimAt DEF ClaimsInv
<1>1. claims' = [claims EXCEPT ![t] = v]
  BY DEF Start
<1>2. v \in ClaimRows /\ v.d = d /\ v.caps = claims[t].caps /\ v.granted = TRUE
      /\ v.agent = claims[t].agent /\ v.acked = claims[t].acked
  BY <1>0 DEF ClaimRows
<1>. HIDE DEF v
<1>3. /\ claims' \in Seq(ClaimRows) /\ Len(claims') = Len(claims)
      /\ \A u \in Tokens : claims'[u] = IF u = t THEN v ELSE claims[u]
  BY <1>0, <1>1, <1>2, ClaimSet
<1>4. /\ run' \in [Deployment -> Rows] /\ RowsMove /\ BuffersMove
      /\ run[d].token = t /\ run'[d].token = t /\ run'[d].state \in PastStart
  <2>1. CASE run[d].token = t /\ run[d].state \in Receiving /\ run' = run
    BY <1>0, <2>1 DEF Typed, RowsMove, BuffersMove, RowMoves, BufferMoves, Receiving, PastStart
  <2>2. CASE run[d].token = t /\ run[d].state = "claimed" /\ run' = [run EXCEPT ![d] = r]
    <3>0. 0 \in 0 .. MaxAge /\ "started" \in States /\ run[d] \in Rows /\ t \in Nat
      BY <1>0, RowAt, MaxAgeType DEF States, Active
    <3>1. r \in Rows
      BY <3>0 DEF Rows
    <3>2. r.state = "started" /\ r.token = t /\ r.buffer = run[d].buffer /\ r.dropped = run[d].dropped
      BY <1>0, RowAt DEF Rows
    <3>. HIDE DEF r
    <3>3. RowMoves(run[d], r) /\ BufferMoves(run[d], r)
      BY <2>2, <3>2 DEF RowMoves, BufferMoves, PastStart, Finished, Receiving, Early
    <3>4. run'[d] = r
      BY <1>0, <2>2 DEF Typed
    <3>. QED
      BY <1>0, <2>2, <3>1, <3>2, <3>3, <3>4, OneRowMoves DEF PastStart
  <2>. QED
    BY <2>1, <2>2 DEF Start, StartRemoteStep, StartRemoteStepRun, Owns, Receiving
<1>5. Typed' /\ OutputsStay
  BY <1>0, <1>3, <1>4 DEF Start, Typed, OutputsStay
<1>6. \A u \in Tokens :
        /\ ClaimMoves(claims[u], claims'[u])
        /\ claims'[u].granted => \/ claims[u].granted
                                 \/ Owns(u) /\ run'[claims[u].d].state \in PastStart
                                            /\ run'[claims[u].d].token = u
  BY <1>2, <1>3, <1>4 DEF ClaimMoves, ClaimsInv, Granted, Owns
<1>7. ClaimsInv' /\ Stays
  BY <1>3, <1>4, <1>5, <1>6, MovesKeepClaims
<1>. QED
  BY <1>2, <1>3, <1>4, <1>7

LEMMA HeartbeatKeeps ==
    ASSUME RemoteAssumption, ClaimsInv, NEW t \in Tokens, Heartbeat(t)
    PROVE  /\ ClaimsInv' /\ Stays /\ RowsMove /\ BuffersMove /\ Len(claims') = Len(claims)
           /\ \A u \in Tokens : claims'[u].d = claims[u].d /\ claims'[u].acked = claims[u].acked
<1>. DEFINE d == claims[t].d
            told == claims[t].told \/ run[d].state = "cancel_requested"
            v == [claims[t] EXCEPT !.told = told]
            age == IF run[d].state = "started" THEN 0 ELSE run[d].age
            r == [run[d] EXCEPT !.age = age]
<1>0. Typed /\ claims[t] \in ClaimRows /\ d \in Deployment /\ t \in Nat \ {0}
  BY ClaimAt DEF ClaimsInv
<1>1. claims' = [claims EXCEPT ![t] = v] /\ run' = [run EXCEPT ![d] = r]
  BY DEF Heartbeat, HeartbeatRemoteStep
<1>a. told \in BOOLEAN /\ age \in 0 .. MaxAge
  BY <1>0, RowAt, MaxAgeType
<1>. HIDE DEF told, age
<1>2. v \in ClaimRows /\ v.d = d /\ v.caps = claims[t].caps /\ v.granted = claims[t].granted
      /\ v.agent = claims[t].agent /\ v.acked = claims[t].acked
  BY <1>0, <1>a DEF ClaimRows
<1>. HIDE DEF v
<1>3. /\ claims' \in Seq(ClaimRows) /\ Len(claims') = Len(claims)
      /\ \A u \in Tokens : claims'[u] = IF u = t THEN v ELSE claims[u]
  BY <1>0, <1>1, <1>2, ClaimSet
<1>4. r \in Rows
  BY <1>0, <1>a, RowAt DEF Rows
<1>5. r.state = run[d].state /\ r.token = run[d].token /\ r.buffer = run[d].buffer /\ r.dropped = run[d].dropped
  BY <1>0, RowAt DEF Rows
<1>. HIDE DEF r
<1>6. RowMoves(run[d], r) /\ BufferMoves(run[d], r)
  BY <1>5 DEF RowMoves, BufferMoves
<1>7. run' \in [Deployment -> Rows] /\ RowsMove /\ BuffersMove
  BY <1>0, <1>1, <1>4, <1>6, OneRowMoves
<1>8. Typed' /\ OutputsStay
  BY <1>0, <1>3, <1>7 DEF Heartbeat, Typed, OutputsStay
<1>9. \A u \in Tokens : ClaimMoves(claims[u], claims'[u]) /\ (claims'[u].granted => claims[u].granted)
  BY <1>2, <1>3 DEF ClaimMoves, ClaimsInv, Granted
<1>10. ClaimsInv' /\ Stays
  BY <1>3, <1>7, <1>8, <1>9, MovesKeepClaims
<1>. QED
  BY <1>2, <1>3, <1>7, <1>10

\* A step of the agent, which has begun only what it was told to start.
LEMMA AgentStepKeeps ==
    ASSUME RemoteAssumption, ClaimsInv, NEW t \in Tokens, NEW from \in {"sent", "held", "running"},
           NEW to \in {"held"} \cup Began, AgentStep(t, from, to),
           to \in Began => claims[t].granted
    PROVE  /\ ClaimsInv' /\ Stays /\ Len(claims') = Len(claims)
           /\ \A u \in Tokens : claims'[u].d = claims[u].d /\ claims'[u].acked = claims[u].acked
<1>. DEFINE d == claims[t].d
            v == [claims[t] EXCEPT !.agent = to]
<1>0. Typed /\ claims[t] \in ClaimRows /\ d \in Deployment
  BY ClaimAt DEF ClaimsInv
<1>1. claims' = [claims EXCEPT ![t] = v] /\ run' = run /\ claims[t].agent = from
  BY DEF AgentStep
<1>2. v \in ClaimRows /\ v.d = d /\ v.caps = claims[t].caps /\ v.granted = claims[t].granted
      /\ v.agent = to /\ v.acked = claims[t].acked
  BY <1>0 DEF ClaimRows
<1>. HIDE DEF v
<1>3. /\ claims' \in Seq(ClaimRows) /\ Len(claims') = Len(claims)
      /\ \A u \in Tokens : claims'[u] = IF u = t THEN v ELSE claims[u]
  BY <1>0, <1>1, <1>2, ClaimSet
<1>4. Typed' /\ OutputsStay /\ RowsMove
  BY <1>0, <1>1, <1>3 DEF AgentStep, Typed, OutputsStay, RowsMove, RowMoves
<1>5. \A u \in Tokens : ClaimMoves(claims[u], claims'[u]) /\ (claims'[u].granted => claims[u].granted)
  BY <1>1, <1>2, <1>3 DEF ClaimMoves, ClaimsInv, Granted
<1>6. ClaimsInv' /\ Stays
  BY <1>3, <1>4, <1>5, MovesKeepClaims
<1>. QED
  BY <1>2, <1>3, <1>6

LEMMA DecodedType ==
    ASSUME RemoteAssumption, Typed, NEW d \in Deployment
    PROVE  decodeRemoteLogBuffer(d) \in Buffers
<1>1. GetLastRemoteStepLogSequence(d) \in Int
  BY LastLine
<1>2. run[d].buffer \in Buffers
  BY RowAt
<1>. QED
  BY <1>1, <1>2 DEF decodeRemoteLogBuffer, Buffers

LEMMA LogsShape ==
    ASSUME RemoteAssumption, Typed, NEW t \in Tokens, NEW S \in SUBSET Seqs, Logs(t, S)
    PROVE  LET d == claims[t].d
               p == prepareRemoteLogEvents(decodeRemoteLogBuffer(d), S)
           IN  /\ Typed' /\ d \in Deployment
               /\ run'[d].buffer = p.buffer /\ run'[d].state = run[d].state
               /\ run'[d].token = run[d].token /\ run'[d].dropped = run[d].dropped
               /\ \A e \in Deployment : e # d => run'[e] = run[e] /\ log'[e] = log[e]
               /\ log'[d] = Lines(d, p.ready, p.hidden)
               /\ Len(claims') = Len(claims)
               /\ \A u \in Tokens :
                     /\ claims'[u].d = claims[u].d /\ claims'[u].caps = claims[u].caps
                     /\ claims'[u].agent = claims[u].agent /\ claims'[u].granted = claims[u].granted
                     /\ claims'[u].acked = IF u = t THEN claims[u].acked \cup S ELSE claims[u].acked
               /\ status' = status /\ staging' = staging
<1>. DEFINE d == claims[t].d
            b == decodeRemoteLogBuffer(d)
            p == prepareRemoteLogEvents(b, S)
            r == [run[d] EXCEPT !.buffer = p.buffer]
            v == [claims[t] EXCEPT !.acked = @ \cup S]
            L == Lines(d, p.ready, p.hidden)
<1>0. claims[t] \in ClaimRows /\ d \in Deployment
  BY ClaimAt
<1>1. p.ready \in SUBSET Seqs /\ p.hidden \in BOOLEAN /\ p.buffer \in Buffers
  BY <1>0, DecodedType, PreparedTypes
<1>2. /\ run' = [run EXCEPT ![d] = r] /\ log' = [log EXCEPT ![d] = L]
      /\ claims' = [claims EXCEPT ![t] = v] /\ UNCHANGED <<agent, polls, status, staging>>
  BY DEF Logs
<1>. HIDE DEF p
<1>3. r \in Rows /\ r.buffer = p.buffer /\ r.state = run[d].state
      /\ r.token = run[d].token /\ r.dropped = run[d].dropped
  BY <1>0, <1>1, RowAt DEF Rows
<1>4. /\ v \in ClaimRows /\ v.d = d /\ v.caps = claims[t].caps /\ v.granted = claims[t].granted
      /\ v.agent = claims[t].agent /\ v.acked = claims[t].acked \cup S
  BY <1>0 DEF ClaimRows
<1>5. L \in Seq(LogRows)
  BY <1>0, <1>1, LinesShape
<1>. HIDE DEF r, v, L
<1>6. /\ run' \in [Deployment -> Rows] /\ run'[d] = r
      /\ \A e \in Deployment : e # d => run'[e] = run[e]
  BY <1>0, <1>2, <1>3 DEF Typed
<1>7. /\ log' \in [Deployment -> Seq(LogRows)] /\ log'[d] = L
      /\ \A e \in Deployment : e # d => log'[e] = log[e]
  BY <1>0, <1>2, <1>5 DEF Typed
<1>8. /\ claims' \in Seq(ClaimRows) /\ Len(claims') = Len(claims)
      /\ \A u \in Tokens : claims'[u] = IF u = t THEN v ELSE claims[u]
  BY <1>2, <1>4, ClaimSet
<1>9. Typed'
  BY <1>2, <1>6, <1>7, <1>8 DEF Typed
<1>10. \A u \in Tokens :
         /\ claims'[u].d = claims[u].d /\ claims'[u].caps = claims[u].caps
         /\ claims'[u].agent = claims[u].agent /\ claims'[u].granted = claims[u].granted
         /\ claims'[u].acked = IF u = t THEN claims[u].acked \cup S ELSE claims[u].acked
  BY <1>4, <1>8
<1>. QED
  BY <1>0, <1>2, <1>3, <1>6, <1>7, <1>8, <1>9, <1>10 DEF L, p

LEMMA LogsKeepClaims ==
    ASSUME RemoteAssumption, ClaimsInv, NEW t \in Tokens, NEW S \in SUBSET Seqs, Logs(t, S)
    PROVE  ClaimsInv' /\ Stays
<1>. DEFINE d == claims[t].d
<1>0. Typed
  BY DEF ClaimsInv
<1>1. /\ Typed' /\ d \in Deployment
      /\ run'[d].state = run[d].state /\ run'[d].token = run[d].token
      /\ \A e \in Deployment : e # d => run'[e] = run[e]
      /\ Len(claims') = Len(claims)
      /\ \A u \in Tokens :
            /\ claims'[u].d = claims[u].d /\ claims'[u].caps = claims[u].caps
            /\ claims'[u].agent = claims[u].agent /\ claims'[u].granted = claims[u].granted
      /\ status' = status /\ staging' = staging
  BY <1>0, LogsShape
<1>2. RowsMove
  BY <1>1 DEF RowsMove, RowMoves
<1>3. OutputsStay
  BY <1>1 DEF OutputsStay
<1>4. \A u \in Tokens : ClaimMoves(claims[u], claims'[u]) /\ (claims'[u].granted => claims[u].granted)
  BY <1>1 DEF ClaimMoves, ClaimsInv, Granted
<1>. QED
  BY <1>1, <1>2, <1>3, <1>4, MovesKeepClaims

LEMMA FinishShape ==
    ASSUME RemoteAssumption, Typed, NEW d \in Deployment, NEW s \in Finished, Finish(d, s)
    PROVE  LET b == decodeRemoteLogBuffer(d) IN
           /\ Typed'
           /\ run'[d].state = s /\ run'[d].token = run[d].token
           /\ run'[d].dropped = run[d].dropped /\ run'[d].buffer = NoBuffer
           /\ \A e \in Deployment : e # d => run'[e] = run[e] /\ log'[e] = log[e]
           /\ log'[d] = Lines(d, b.tail \cup b.gaps, b.suppressed)
           /\ b.tail \cup b.gaps \in SUBSET Seqs /\ b.suppressed \in BOOLEAN
           /\ UNCHANGED <<agent, polls, status, staging, claims>>
<1>. DEFINE b == decodeRemoteLogBuffer(d)
            r == [run[d] EXCEPT !.state = s, !.buffer = NoBuffer]
            L == Lines(d, b.tail \cup b.gaps, b.suppressed)
<1>1. b \in Buffers
  BY DecodedType
<1>2. b.tail \cup b.gaps \in SUBSET Seqs /\ b.suppressed \in BOOLEAN
  BY <1>1 DEF Buffers
<1>3. /\ run' = [run EXCEPT ![d] = r] /\ log' = [log EXCEPT ![d] = L]
      /\ UNCHANGED <<agent, polls, status, staging, claims>>
  BY DEF Finish, Flushed
<1>. HIDE DEF b
<1>4. /\ r \in Rows /\ r.state = s /\ r.token = run[d].token /\ r.dropped = run[d].dropped
      /\ r.buffer = NoBuffer
  BY RowAt, NoBufferType DEF Rows, States
<1>5. L \in Seq(LogRows)
  <2>. DEFINE U == b.tail \cup b.gaps
              h == b.suppressed
  <2>1. U \in SUBSET Seqs /\ h \in BOOLEAN
    BY <1>2
  <2>. HIDE DEF U, h
  <2>2. Lines(d, U, h) \in Seq(LogRows)
    BY <2>1, LinesShape
  <2>. QED
    BY <2>2 DEF U, h
<1>. HIDE DEF r, L
<1>6. /\ run' \in [Deployment -> Rows] /\ run'[d] = r
      /\ \A e \in Deployment : e # d => run'[e] = run[e]
  BY <1>3, <1>4 DEF Typed
<1>7. /\ log' \in [Deployment -> Seq(LogRows)] /\ log'[d] = L
      /\ \A e \in Deployment : e # d => log'[e] = log[e]
  BY <1>3, <1>5 DEF Typed
<1>8. Typed'
  BY <1>3, <1>6, <1>7 DEF Typed
<1>. QED
  BY <1>2, <1>3, <1>4, <1>6, <1>7, <1>8 DEF L, b

\* The end of a run, reported by the claim that owns it.
LEMMA FinishKeepsClaims ==
    ASSUME RemoteAssumption, ClaimsInv, NEW t \in Tokens, NEW s \in Finished,
           Owns(t), run[claims[t].d].state \in PastStart \ Finished,
           claims[t].agent = (IF s = "cancelled" THEN "stopped" ELSE s),
           OutputPresent(claims[t].d, s), Finish(claims[t].d, s)
    PROVE  ClaimsInv' /\ Stays
<1>. DEFINE d == claims[t].d
<1>0. Typed /\ d \in Deployment /\ t # 0
  BY ClaimAt DEF ClaimsInv
<1>1. /\ Typed' /\ run'[d].state = s /\ run'[d].token = run[d].token
      /\ \A e \in Deployment : e # d => run'[e] = run[e]
      /\ claims' = claims /\ status' = status /\ staging' = staging
  BY <1>0, FinishShape
<1>2. Tokens' = Tokens /\ run[d].token = t
  BY <1>1 DEF Tokens, Owns
<1>t. \A u \in Tokens : claims[u].d \in Deployment
  BY <1>0, ClaimAt
<1>3. Stays
  BY <1>0, <1>1 DEF Stays
<1>4. Owned'
  <2>1. s \notin {"none", "waiting"}
    BY DEF Finished
  <2>. QED
    BY <1>0, <1>1, <2>1 DEF ClaimsInv, Owned
<1>5. Granted'
  <2>. SUFFICES ASSUME NEW u \in Tokens
                PROVE  /\ claims[u].granted => run'[claims[u].d].token = u /\ run'[claims[u].d].state \in PastStart
                       /\ claims[u].agent \in Began => claims[u].granted
    BY <1>1, <1>2 DEF Granted, Owns
  <2>1. /\ claims[u].granted => run[claims[u].d].token = u /\ run[claims[u].d].state \in PastStart
        /\ claims[u].agent \in Began => claims[u].granted
    BY DEF ClaimsInv, Granted, Owns
  <2>2. s \in PastStart
    BY DEF PastStart
  <2>3. run'[claims[u].d].token = run[claims[u].d].token
    BY <1>1, <1>t
  <2>4. run[claims[u].d].state \in PastStart => run'[claims[u].d].state \in PastStart
    BY <1>1, <1>t, <2>2
  <2>. QED
    BY <2>1, <2>3, <2>4
<1>6. OutcomeHonest'
  <2>. SUFFICES ASSUME NEW u \in Tokens, run'[claims[u].d].token = u,
                       run'[claims[u].d].state \in Finished
                PROVE  claims[u].agent = (IF run'[claims[u].d].state = "cancelled" THEN "stopped"
                                          ELSE run'[claims[u].d].state)
    BY <1>1, <1>2 DEF OutcomeHonest
  <2>1. CASE claims[u].d = d
    <3>1. u = t
      BY <1>1, <1>2, <2>1
    <3>. QED
      BY <1>1, <3>1
  <2>2. CASE claims[u].d # d
    <3>1. run'[claims[u].d] = run[claims[u].d]
      BY <1>1, <1>t, <2>2
    <3>. QED
      BY <3>1 DEF ClaimsInv, OutcomeHonest
  <2>. QED
    BY <2>1, <2>2
<1>7. ClaimFits'
  BY <1>1, <1>2 DEF ClaimsInv, ClaimFits
<1>8. SuccessHasOutput'
  <2>1. s = "succeeded" /\ Input(d) => d \in staging
    BY DEF OutputPresent
  <2>. QED
    BY <1>1, <2>1 DEF ClaimsInv, SuccessHasOutput, Input
<1>. QED
  BY <1>1, <1>3, <1>4, <1>5, <1>6, <1>7, <1>8 DEF ClaimsInv

\* What a report of the agent needs of the row it finishes.
LEMMA ResultFinishes ==
    ASSUME NEW t \in Tokens, Result(t)
    PROVE  LET s == claims[t].agent IN
           /\ s \in Finished /\ s # "cancelled" /\ Owns(t)
           /\ run[claims[t].d].state \in PastStart \ Finished
           /\ OutputPresent(claims[t].d, s) /\ Finish(claims[t].d, s)
BY DEF Result, FinishRemoteStepRun, PastStart, Finished

LEMMA CancelledFinishes ==
    ASSUME NEW t \in Tokens, Cancelled(t)
    PROVE  /\ "cancelled" \in Finished /\ Owns(t) /\ claims[t].agent = "stopped"
           /\ run[claims[t].d].state \in PastStart \ Finished
           /\ OutputPresent(claims[t].d, "cancelled") /\ Finish(claims[t].d, "cancelled")
BY DEF Cancelled, AcknowledgeRemoteStepCancellation, PastStart, Finished, OutputPresent

\* The steps that touch neither rows nor claims.
LEMMA QuietSteps ==
    ASSUME Typed,
           \/ \E p \in Poll : PollEnds(p)
           \/ \E t \in Tokens : SaveStaging(t)
           \/ \E d \in Deployment : Complete(d)
           \/ \E b \in BOOLEAN : SetDraining(b)
           \/ UNCHANGED rvars
    PROVE  Typed' /\ OutputsStay /\ run' = run /\ claims' = claims /\ log' = log
<1>1. ASSUME NEW p \in Poll, PollEnds(p)
      PROVE  Typed' /\ OutputsStay /\ run' = run /\ claims' = claims /\ log' = log
  <2>1. NoPoll \in Capabilities
    BY DEF NoPoll, Capabilities
  <2>. QED
    BY <1>1, <2>1 DEF PollEnds, Typed, OutputsStay
<1>2. ASSUME NEW t \in Tokens, SaveStaging(t)
      PROVE  Typed' /\ OutputsStay /\ run' = run /\ claims' = claims /\ log' = log
  <2>1. claims[t].d \in Staged /\ staging' = staging \cup {claims[t].d}
    BY <1>2 DEF SaveStaging, liveStagingRun, Input
  <2>. QED
    BY <1>2, <2>1 DEF SaveStaging, Typed, OutputsStay
<1>3. ASSUME NEW d \in Deployment, Complete(d)
      PROVE  Typed' /\ OutputsStay /\ run' = run /\ claims' = claims /\ log' = log
  <2>1. run[d].state \in Statuses \ {"running"} /\ status' = [status EXCEPT ![d] = run[d].state]
    BY <1>3 DEF Complete, Statuses
  <2>2. status' \in [Deployment -> Statuses] /\ status'[d] # "running"
        /\ \A e \in Deployment : e # d => status'[e] = status[e]
    BY <2>1 DEF Typed
  <2>3. staging' = {e \in staging : status'[e] = "running"}
    BY <1>3 DEF Complete, PurgeTerminalStaging
  <2>. QED
    BY <1>3, <2>2, <2>3 DEF Complete, Typed, OutputsStay
<1>4. ASSUME NEW b \in BOOLEAN, SetDraining(b)
      PROVE  Typed' /\ OutputsStay /\ run' = run /\ claims' = claims /\ log' = log
  BY <1>4 DEF SetDraining, Typed, OutputsStay
<1>5. ASSUME UNCHANGED rvars
      PROVE  Typed' /\ OutputsStay /\ run' = run /\ claims' = claims /\ log' = log
  BY <1>5 DEF rvars, Typed, OutputsStay
<1>. QED
  BY <1>1, <1>2, <1>3, <1>4, <1>5

LEMMA InitClaims ==
    ASSUME RemoteAssumption, Init
    PROVE  ClaimsInv
<1>1. agent \in [status : {"active", "revoked"}, draining : BOOLEAN,
                 caps : [modes : {c.modes : c \in Cap}, staging : BOOLEAN, ready : BOOLEAN]]
  <2>1. PICK c \in Cap : agent = [status |-> "active", draining |-> FALSE, caps |-> c]
    BY DEF Init
  <2>2. c \in Capabilities
    BY Assumed
  <2>3. c \in [modes : {x.modes : x \in Cap}, staging : BOOLEAN, ready : BOOLEAN]
    BY <2>2 DEF Capabilities
  <2>. QED
    BY <2>1, <2>3
<1>2. NoPoll \in Capabilities
  BY DEF NoPoll, Capabilities
<1>3. NoRun \in Rows
  BY NoBufferType, MaxAgeType DEF NoRun, Rows, States
<1>4. claims = <<>> /\ Len(claims) = 0 /\ claims \in Seq(ClaimRows) /\ <<>> \in Seq(LogRows)
  BY EmptySeq DEF Init
<1>5. Tokens = {}
  BY <1>4 DEF Tokens
<1>6. Typed
  BY <1>1, <1>2, <1>3, <1>4 DEF Init, Typed, Statuses
<1>7. \A d \in Deployment : run[d].token = 0 /\ run[d].state = "none"
  BY DEF Init, NoRun
<1>8. Owned
  BY <1>4, <1>7 DEF Owned
<1>9. Granted /\ OutcomeHonest /\ ClaimFits
  BY <1>5 DEF Granted, OutcomeHonest, ClaimFits
<1>10. SuccessHasOutput
  BY <1>7 DEF SuccessHasOutput
<1>. QED
  BY <1>6, <1>8, <1>9, <1>10 DEF ClaimsInv

\* One step per action.
LEMMA NextKeepsClaims ==
    ASSUME RemoteAssumption, ClaimsInv, [Next]_rvars
    PROVE  ClaimsInv' /\ Stays
<1>0. Typed
  BY DEF ClaimsInv
<1>1. ASSUME NEW p \in Poll, NEW c \in Cap, PollArrives(p, c) PROVE ClaimsInv' /\ Stays
  <2>1. OutputsStay /\ claims' = claims
    BY <1>1 DEF PollArrives, OutputsStay
  <2>. QED
    BY <1>0, <1>1, <2>1, PollArrivesMoves, QuietMovesKeepClaims
<1>2. ASSUME NEW p \in Poll, NEW d \in Deployment, ClaimStep(p, d) PROVE ClaimsInv' /\ Stays
  BY <1>2, ClaimStepKeeps
<1>3. ASSUME NEW p \in Poll, NEW d \in Deployment, ClaimInvalid(p, d) PROVE ClaimsInv' /\ Stays
  <2>1. claims' = claims
    BY <1>3 DEF ClaimInvalid
  <2>. QED
    BY <1>0, <1>3, <2>1, ClaimInvalidMoves, QuietMovesKeepClaims
<1>4. ASSUME \/ \E p \in Poll : PollEnds(p)
             \/ \E t \in Tokens : SaveStaging(t)
             \/ \E d \in Deployment : Complete(d)
             \/ \E b \in BOOLEAN : SetDraining(b)
             \/ UNCHANGED rvars
      PROVE  ClaimsInv' /\ Stays
  <2>1. Typed' /\ OutputsStay /\ run' = run /\ claims' = claims
    BY <1>0, <1>4, QuietSteps
  <2>2. RowsMove
    BY <2>1 DEF RowsMove, RowMoves
  <2>. QED
    BY <2>1, <2>2, QuietMovesKeepClaims
<1>5. ASSUME NEW t \in Tokens, Start(t) PROVE ClaimsInv' /\ Stays
  BY <1>5, StartKeeps
<1>6. ASSUME NEW t \in Tokens, Heartbeat(t) PROVE ClaimsInv' /\ Stays
  BY <1>6, HeartbeatKeeps
<1>7. ASSUME NEW t \in Tokens, Result(t) PROVE ClaimsInv' /\ Stays
  BY <1>7, ResultFinishes, FinishKeepsClaims
<1>8. ASSUME NEW t \in Tokens, Cancelled(t) PROVE ClaimsInv' /\ Stays
  BY <1>8, CancelledFinishes, FinishKeepsClaims
<1>9. ASSUME NEW t \in Tokens, NEW S \in (SUBSET Seqs) \ {{}}, Logs(t, S) PROVE ClaimsInv' /\ Stays
  BY <1>9, LogsKeepClaims
<1>10. ASSUME NEW t \in Tokens, AgentReceives(t) PROVE ClaimsInv' /\ Stays
  BY <1>10, AgentStepKeeps DEF AgentReceives, Began
<1>11. ASSUME NEW t \in Tokens, AgentBegins(t) PROVE ClaimsInv' /\ Stays
  BY <1>11, AgentStepKeeps DEF AgentBegins, Began
<1>12. ASSUME NEW t \in Tokens, AgentStops(t) PROVE ClaimsInv' /\ Stays
  <2>1. claims[t].granted
    BY <1>12 DEF AgentStops, AgentStep, ClaimsInv, Granted, Began
  <2>. QED
    BY <1>12, <2>1, AgentStepKeeps DEF AgentStops, Began
<1>13. ASSUME NEW t \in Tokens, NEW s \in {"succeeded", "failed", "cleanup_unconfirmed"}, AgentEnds(t, s)
       PROVE  ClaimsInv' /\ Stays
  <2>1. claims[t].granted
    BY <1>13 DEF AgentEnds, AgentStep, ClaimsInv, Granted, Began
  <2>. QED
    BY <1>13, <2>1, AgentStepKeeps DEF AgentEnds, Began
<1>14. ASSUME NEW d \in Deployment, QueueRun(d) PROVE ClaimsInv' /\ Stays
  <2>1. OutputsStay /\ claims' = claims
    BY <1>14 DEF QueueRun, OutputsStay
  <2>. QED
    BY <1>0, <1>14, <2>1, QueueRunMoves, QuietMovesKeepClaims
<1>15. ASSUME NEW d \in Deployment, RequestCancel(d) PROVE ClaimsInv' /\ Stays
  <2>1. OutputsStay /\ claims' = claims
    BY <1>15 DEF RequestCancel, OutputsStay
  <2>. QED
    BY <1>0, <1>15, <2>1, RequestCancelMoves, QuietMovesKeepClaims
<1>16. ASSUME Maintain PROVE ClaimsInv' /\ Stays
  <2>1. claims' = claims
    BY <1>16 DEF Maintain
  <2>. QED
    BY <1>0, <1>16, <2>1, MaintainMoves, QuietMovesKeepClaims
<1>17. ASSUME RevokeAgent PROVE ClaimsInv' /\ Stays
  <2>1. claims' = claims
    BY <1>17 DEF RevokeAgent
  <2>. QED
    BY <1>0, <1>17, <2>1, RevokeAgentMoves, QuietMovesKeepClaims
<1>18. ASSUME Tick PROVE ClaimsInv' /\ Stays
  <2>1. OutputsStay /\ claims' = claims
    BY <1>18 DEF Tick, OutputsStay
  <2>. QED
    BY <1>0, <1>18, <2>1, TickMoves, QuietMovesKeepClaims
<1>. QED
  BY <1>1, <1>2, <1>3, <1>4, <1>5, <1>6, <1>7, <1>8, <1>9, <1>10, <1>11, <1>12, <1>13, <1>14,
     <1>15, <1>16, <1>17, <1>18 DEF Next

-----------------------------------------------------------------------------
(* The log through every step. *)

\* The last of a set of lines, -1 when there is none.
LastOf(P) == CHOOSE n \in P \cup {-1} : \A m \in P : m <= n

LEMMA LastOfIs ==
    ASSUME RemoteAssumption, NEW P \in SUBSET Seqs, NEW n \in P \cup {-1}, \A m \in P : m <= n
    PROVE  LastOf(P) = n
<1>0. P \subseteq Nat
  BY Assumed
<1>1. LastOf(P) \in P \cup {-1} /\ \A m \in P : m <= LastOf(P)
  BY DEF LastOf
<1>2. CASE P = {}
  BY <1>1, <1>2
<1>3. CASE P # {}
  <2>1. PICK x \in P : TRUE
    BY <1>3
  <2>2. x \in Nat /\ x <= n /\ x <= LastOf(P)
    BY <1>0, <1>1, <2>1
  <2>3. n \in P /\ LastOf(P) \in P
    BY <1>1, <2>2
  <2>4. n <= LastOf(P) /\ LastOf(P) <= n /\ n \in Nat /\ LastOf(P) \in Nat
    BY <1>0, <1>1, <2>3
  <2>. QED
    BY <2>4
<1>. QED
  BY <1>2, <1>3

LEMMA EmptyLog ==
    ASSUME RemoteAssumption, Typed, NEW d \in Deployment, log[d] = <<>>
    PROVE  Published(d) = {} /\ GetLastRemoteStepLogSequence(d) = -1 /\ DOMAIN log[d] = {}
<1>1. Len(log[d]) = 0
  BY EmptySeq
<1>2. DOMAIN log[d] = {}
  BY <1>1, LogAt
<1>3. Published(d) = {}
  BY <1>2 DEF Published
<1>. QED
  BY <1>2, <1>3, LastLine

\* The buffer a batch or a result finds.
LEMMA DecodedIs ==
    ASSUME RemoteAssumption, ClaimsInv, LogInv, NEW d \in Deployment,
           run[d].buffer # NoBuffer \/ run[d].state \in Receiving
    PROVE  LET b == decodeRemoteLogBuffer(d)
               last == GetLastRemoteStepLogSequence(d)
           IN  /\ b \in Buffers /\ Readable(b, last) /\ \A n \in b.tail : n > last
               /\ 1 .. b.through \subseteq Published(d) \cup b.tail
               /\ Sealed(log[d], last)
               /\ b.tail = run[d].buffer.tail /\ b.gaps = run[d].buffer.gaps
<1>. DEFINE b == decodeRemoteLogBuffer(d)
            last == GetLastRemoteStepLogSequence(d)
<1>0. Typed /\ b \in Buffers /\ last \in Int /\ last >= -1
  BY DecodedType, LastLine DEF ClaimsInv
<1>1. CASE run[d].buffer # NoBuffer
  <2>1. b = run[d].buffer
    BY <1>1 DEF decodeRemoteLogBuffer
  <2>. QED
    BY <1>0, <1>1, <2>1 DEF LogInv, Buffered
<1>2. CASE run[d].buffer = NoBuffer
  <2>1. log[d] = <<>>
    BY <1>2 DEF LogInv, LogStarts
  <2>2. last = -1 /\ DOMAIN log[d] = {}
    BY <1>0, <2>1, EmptyLog
  <2>3. b = [through |-> last, suppressed |-> FALSE, tail |-> {}, gaps |-> {}]
    BY <1>2 DEF decodeRemoteLogBuffer
  <2>. HIDE DEF b, last
  <2>4. b.through = last /\ b.suppressed = FALSE /\ b.tail = {} /\ b.gaps = {}
    BY <2>3
  <2>5. remoteLogEventsFit({})
    BY FS_EmptySet, Assumed DEF remoteLogEventsFit
  <2>6. \A c : contiguous({}, c) = {} /\ Advanced({}, c) = c /\ GapsAllowed({}, c)
    BY <2>5 DEF contiguous, Advanced, GapsAllowed
  <2>7. Readable(b, last)
    BY <1>0, <2>4, <2>5, <2>6 DEF Readable
  <2>8. 1 .. -1 = {} /\ NoBuffer.tail = {} /\ NoBuffer.gaps = {}
    BY DEF NoBuffer
  <2>9. Sealed(log[d], last)
    BY <2>2 DEF Sealed
  <2>. QED
    BY <1>0, <1>2, <2>2, <2>4, <2>7, <2>8, <2>9 DEF b, last
<1>. QED
  BY <1>1, <1>2

\* Order and secrets of one log, apart from the others.
InOrder(L) == \A i, j \in DOMAIN L : i < j => L[i].seq < L[j].seq
Whole(L) ==
    \A i, j \in DOMAIN L :
        L[i].seq \in Split /\ L[j].seq = L[i].seq + 1 =>
            L[i].tx = L[j].tx \/ L[i].hidden \/ L[j].hidden

LEMMA LinesKeepOrder ==
    ASSUME RemoteAssumption, Typed, NEW d \in Deployment, NEW S \in SUBSET Seqs,
           NEW hidden \in BOOLEAN,
           InOrder(log[d]), Whole(log[d]),
           \A n \in S : n > GetLastRemoteStepLogSequence(d),
           S # {} => Sealed(log[d], GetLastRemoteStepLogSequence(d))
    PROVE  InOrder(Lines(d, S, hidden)) /\ Whole(Lines(d, S, hidden))
<1>. DEFINE L == Lines(d, S, hidden)
            old == Len(log[d])
            last == GetLastRemoteStepLogSequence(d)
<1>1. /\ Len(L) \in Nat /\ old <= Len(L) /\ DOMAIN L = 1 .. Len(L)
      /\ \A i \in 1 .. old : L[i] = log[d][i]
      /\ \A i \in old + 1 .. Len(L) : L[i].seq \in S /\ L[i].tx = old /\ L[i].hidden = hidden
      /\ \A i, j \in old + 1 .. Len(L) : i < j => L[i].seq < L[j].seq
  <2>1. Appends(L, log[d], S, hidden)
    BY LinesShape
  <2>. HIDE DEF L
  <2>. QED
    BY <2>1 DEF Appends
<1>2. /\ old \in Nat /\ DOMAIN log[d] = 1 .. old
      /\ \A i \in 1 .. old : log[d][i].seq \in Published(d) /\ log[d][i].seq \in Nat
  BY LogAt, Assumed
<1>3. last \in Int /\ \A m \in Published(d) : m <= last
  BY LastLine
<1>4. S \subseteq Nat /\ \A n \in S : n > last
  BY Assumed
<1>. HIDE DEF L, old, last
<1>5. \A i \in DOMAIN L : i \in 1 .. old \/ i \in old + 1 .. Len(L)
  BY <1>1, <1>2
<1>6. \A i \in 1 .. old : L[i].seq <= last /\ L[i].seq \in Nat
  BY <1>1, <1>2, <1>3
<1>7. \A i \in old + 1 .. Len(L) : L[i].seq > last /\ L[i].seq \in Nat
  BY <1>1, <1>4
<1>8. InOrder(L)
  <2>. SUFFICES ASSUME NEW i \in DOMAIN L, NEW j \in DOMAIN L, i < j PROVE L[i].seq < L[j].seq
    BY DEF InOrder
  <2>1. CASE i \in 1 .. old /\ j \in 1 .. old
    BY <1>1, <1>2, <2>1 DEF InOrder
  <2>2. CASE i \in 1 .. old /\ j \in old + 1 .. Len(L)
    BY <1>3, <1>6, <1>7, <2>2
  <2>3. CASE i \in old + 1 .. Len(L)
    <3>1. j \in old + 1 .. Len(L)
      BY <1>1, <1>2, <2>3
    <3>. QED
      BY <1>1, <2>3, <3>1
  <2>. QED
    BY <1>5, <2>1, <2>2, <2>3
<1>9. Whole(L)
  <2>. SUFFICES ASSUME NEW i \in DOMAIN L, NEW j \in DOMAIN L,
                       L[i].seq \in Split, L[j].seq = L[i].seq + 1
                PROVE  L[i].tx = L[j].tx \/ L[i].hidden \/ L[j].hidden
    BY DEF Whole
  <2>1. CASE i \in 1 .. old /\ j \in 1 .. old
    BY <1>1, <1>2, <2>1 DEF Whole
  <2>2. CASE i \in 1 .. old /\ j \in old + 1 .. Len(L)
    <3>1. L[i].seq = last
      BY <1>3, <1>6, <1>7, <2>2
    <3>2. S # {}
      BY <1>1, <2>2
    <3>3. Sealed(log[d], last) /\ log[d][i].seq = last /\ i \in DOMAIN log[d]
      BY <1>1, <1>2, <2>2, <3>1, <3>2 DEF last
    <3>4. log[d][i].hidden
      BY <3>1, <3>3 DEF Sealed
    <3>. QED
      BY <1>1, <2>2, <3>4
  <2>3. CASE i \in old + 1 .. Len(L) /\ j \in 1 .. old
    BY <1>3, <1>6, <1>7, <2>3
  <2>4. CASE i \in old + 1 .. Len(L) /\ j \in old + 1 .. Len(L)
    BY <1>1, <2>4
  <2>. QED
    BY <1>5, <2>1, <2>2, <2>3, <2>4
<1>. QED
  BY <1>8, <1>9 DEF L

\* A step that publishes nothing.
LEMMA MovesKeepLog ==
    ASSUME ClaimsInv, LogInv, log' = log, RowsMove, BuffersMove, Len(claims') = Len(claims),
           \A u \in Tokens : claims'[u].d = claims[u].d /\ claims'[u].acked = claims[u].acked
    PROVE  LogInv'
<1>0. Typed /\ Tokens' = Tokens
  BY DEF ClaimsInv, Tokens
<1>t. \A u \in Tokens : claims[u].d \in Deployment /\ u # 0
  BY <1>0, ClaimAt
<1>1. \A d \in Deployment : /\ Published(d)' = Published(d)
                            /\ GetLastRemoteStepLogSequence(d)' = GetLastRemoteStepLogSequence(d)
  BY DEF Published, GetLastRemoteStepLogSequence
<1>2. LogStarts'
  <2>. SUFFICES ASSUME NEW d \in Deployment
                PROVE  /\ run'[d].buffer # NoBuffer => run'[d].state \in Receiving
                       /\ run'[d].buffer = NoBuffer /\ run'[d].state \in Early => log[d] = <<>>
    BY DEF LogStarts, Early
  <2>1. BufferMoves(run[d], run'[d])
    BY DEF BuffersMove
  <2>2. /\ run[d].buffer # NoBuffer => run[d].state \in Receiving
        /\ run[d].buffer = NoBuffer /\ run[d].state \in Early => log[d] = <<>>
    BY DEF LogInv, LogStarts, Early
  <2>3. "lost" \notin Early /\ "cancel_unconfirmed" \notin Early
    BY DEF Early, Receiving
  <2>. QED
    BY <2>1, <2>2, <2>3 DEF BufferMoves
<1>3. LogOrdered' /\ SecretWhole'
  BY DEF LogInv, LogOrdered, SecretWhole
<1>4. Buffered'
  <2>1. \A d \in Deployment : run'[d].buffer # NoBuffer => run'[d].buffer = run[d].buffer
    BY DEF BuffersMove, BufferMoves
  <2>. QED
    BY <1>1, <2>1 DEF LogInv, Buffered
<1>5. Kept'
  <2>. SUFFICES ASSUME NEW t \in Tokens, run'[claims[t].d].token = t, ~run'[claims[t].d].dropped
                PROVE  claims[t].acked \ {0} \subseteq Published(claims[t].d)
                          \cup run'[claims[t].d].buffer.tail \cup run'[claims[t].d].buffer.gaps
    BY <1>0, <1>1, <1>t DEF Kept, Owns
  <2>1. RowMoves(run[claims[t].d], run'[claims[t].d]) /\ BufferMoves(run[claims[t].d], run'[claims[t].d])
    BY <1>t DEF RowsMove, BuffersMove
  <2>2. run[claims[t].d].token = t
    BY <1>t, <2>1 DEF RowMoves
  <2>3. run'[claims[t].d].buffer = run[claims[t].d].buffer /\ ~run[claims[t].d].dropped
    BY <2>1 DEF BufferMoves
  <2>. QED
    BY <2>2, <2>3 DEF LogInv, Kept, Owns
<1>. QED
  BY <1>2, <1>3, <1>4, <1>5 DEF LogInv

LEMMA ClaimStepKeepsLog ==
    ASSUME RemoteAssumption, ClaimsInv, LogInv, NEW p \in Poll, NEW d \in Deployment, ClaimStep(p, d)
    PROVE  LogInv'
<1>. DEFINE n == Len(claims) + 1
<1>0. /\ \A u \in Tokens : claims'[u] = claims[u]
      /\ claims'[n] = [d |-> d, caps |-> polls[p], agent |-> "sent",
                       granted |-> FALSE, told |-> FALSE, acked |-> {}]
      /\ Tokens' = Tokens \cup {n} /\ n \notin Tokens
      /\ run[d].state = "waiting"
      /\ \A e \in Deployment : e # d => run'[e] = run[e]
      /\ run'[d].state = "claimed" /\ run'[d].token = n
      /\ run'[d].buffer = run[d].buffer
  BY ClaimStepShape
<1>1. log' = log
  BY DEF ClaimStep
<1>t. \A u \in Tokens : claims[u].d \in Deployment
  BY ClaimAt DEF ClaimsInv
<1>2. \A e \in Deployment : /\ Published(e)' = Published(e)
                            /\ GetLastRemoteStepLogSequence(e)' = GetLastRemoteStepLogSequence(e)
                            /\ run'[e].buffer = run[e].buffer
  BY <1>0, <1>1 DEF Published, GetLastRemoteStepLogSequence
<1>3. run[d].buffer = NoBuffer
  BY <1>0 DEF LogInv, LogStarts, Receiving
<1>4. LogStarts'
  BY <1>0, <1>1, <1>2, <1>3 DEF LogInv, LogStarts, Receiving
<1>5. LogOrdered' /\ SecretWhole'
  BY <1>1 DEF LogInv, LogOrdered, SecretWhole
<1>6. Buffered'
  BY <1>1, <1>2 DEF LogInv, Buffered
<1>7. Kept'
  <2>. SUFFICES ASSUME NEW t \in Tokens', run'[claims'[t].d].token = t, ~run'[claims'[t].d].dropped
                PROVE  claims'[t].acked \ {0} \subseteq Published(claims'[t].d)
                          \cup run'[claims'[t].d].buffer.tail \cup run'[claims'[t].d].buffer.gaps
    BY <1>1 DEF Kept, Owns, Published
  <2>1. CASE t = n
    BY <1>0, <2>1
  <2>2. CASE t # n
    <3>1. t \in Tokens /\ claims'[t] = claims[t]
      BY <1>0, <2>2
    <3>2. claims[t].d # d /\ run'[claims[t].d] = run[claims[t].d]
      BY <1>0, <1>t, <2>2, <3>1
    <3>. QED
      BY <1>2, <1>t, <3>1, <3>2 DEF LogInv, Kept, Owns
  <2>. QED
    BY <2>1, <2>2
<1>. QED
  BY <1>4, <1>5, <1>6, <1>7 DEF LogInv

\* A result or an acknowledgement publishes what the buffer still holds.
LEMMA FinishKeepsLog ==
    ASSUME RemoteAssumption, ClaimsInv, LogInv, NEW d \in Deployment, NEW s \in Finished, Finish(d, s)
    PROVE  LogInv'
<1>. DEFINE b == decodeRemoteLogBuffer(d)
            S == b.tail \cup b.gaps
            h == b.suppressed
            L == Lines(d, S, h)
            last == GetLastRemoteStepLogSequence(d)
<1>0. Typed
  BY DEF ClaimsInv
<1>1. /\ run'[d].state = s /\ run'[d].token = run[d].token
      /\ run'[d].dropped = run[d].dropped /\ run'[d].buffer = NoBuffer
      /\ \A e \in Deployment : e # d => run'[e] = run[e] /\ log'[e] = log[e]
      /\ log'[d] = L /\ S \in SUBSET Seqs /\ h \in BOOLEAN
      /\ claims' = claims
  BY <1>0, FinishShape
<1>2. /\ \A n \in S : n > last
      /\ S # {} => Sealed(log[d], last)
      /\ S = run[d].buffer.tail \cup run[d].buffer.gaps
  <2>1. CASE run[d].buffer = NoBuffer
    <3>1. b = [through |-> last, suppressed |-> FALSE, tail |-> {}, gaps |-> {}]
      BY <2>1 DEF decodeRemoteLogBuffer
    <3>2. NoBuffer.tail = {} /\ NoBuffer.gaps = {}
      BY DEF NoBuffer
    <3>3. S = {}
      BY <3>1
    <3>. QED
      BY <2>1, <3>2, <3>3
  <2>2. CASE run[d].buffer # NoBuffer
    <3>1. /\ b \in Buffers /\ Readable(b, last) /\ \A n \in b.tail : n > last
          /\ Sealed(log[d], last)
          /\ b.tail = run[d].buffer.tail /\ b.gaps = run[d].buffer.gaps
      BY <2>2, DecodedIs
    <3>2. last \in Int /\ b.through \in Int /\ b.gaps \subseteq Nat
      BY <1>0, <3>1, LastLine, Assumed DEF Buffers
    <3>3. \A n \in b.gaps : n > last
      <4>1. last <= b.through /\ \A n \in b.gaps : n > b.through
        BY <3>1 DEF Readable
      <4>. QED
        BY <3>2, <4>1
    <3>. QED
      BY <3>1, <3>3
  <2>. QED
    BY <2>1, <2>2
<1>. HIDE DEF S, h, last, b
<1>3. InOrder(log[d]) /\ Whole(log[d])
  BY DEF LogInv, LogOrdered, SecretWhole, InOrder, Whole
<1>4. InOrder(L) /\ Whole(L)
  BY <1>0, <1>1, <1>2, <1>3, LinesKeepOrder DEF last
<1>5. SeqsOf(L) = Published(d) \cup S
  BY <1>0, <1>1, LinesShape
<1>6. LogOrdered' /\ SecretWhole'
  <2>1. \A e \in Deployment : InOrder(log'[e]) /\ Whole(log'[e])
    BY <1>1, <1>4 DEF LogInv, LogOrdered, SecretWhole, InOrder, Whole
  <2>. QED
    BY <2>1 DEF LogOrdered, SecretWhole, InOrder, Whole
<1>. HIDE DEF L
<1>7. \A e \in Deployment : e # d => /\ Published(e)' = Published(e)
                                     /\ GetLastRemoteStepLogSequence(e)' = GetLastRemoteStepLogSequence(e)
  BY <1>1 DEF Published, GetLastRemoteStepLogSequence
<1>8. LogStarts'
  <2>1. s \notin Receiving \cup {"none", "waiting", "claimed"}
    BY DEF Finished, Receiving
  <2>. QED
    BY <1>1, <2>1 DEF LogInv, LogStarts
<1>9. Buffered'
  BY <1>1, <1>7 DEF LogInv, Buffered
<1>10. Kept'
  <2>. SUFFICES ASSUME NEW t \in Tokens, run'[claims[t].d].token = t, ~run'[claims[t].d].dropped
                PROVE  claims[t].acked \ {0} \subseteq SeqsOf(log'[claims[t].d])
                          \cup run'[claims[t].d].buffer.tail \cup run'[claims[t].d].buffer.gaps
    BY <1>1 DEF Kept, Owns, Published, SeqsOf, Tokens
  <2>0. claims[t].d \in Deployment
    BY <1>0, ClaimAt
  <2>1. run[claims[t].d].token = t /\ ~run[claims[t].d].dropped
    BY <1>1, <2>0
  <2>2. claims[t].acked \ {0} \subseteq Published(claims[t].d)
                          \cup run[claims[t].d].buffer.tail \cup run[claims[t].d].buffer.gaps
    BY <2>1 DEF LogInv, Kept, Owns
  <2>3. CASE claims[t].d = d
    BY <1>1, <1>2, <1>5, <2>2, <2>3
  <2>4. CASE claims[t].d # d
    BY <1>1, <2>0, <2>2, <2>4 DEF Published, SeqsOf
  <2>. QED
    BY <2>3, <2>4
<1>. QED
  BY <1>6, <1>8, <1>9, <1>10 DEF LogInv

\* A batch: the lines in order go to the log or are held back.
LEMMA LogsKeepLog ==
    ASSUME RemoteAssumption, ClaimsInv, LogInv, NEW t \in Tokens, NEW S \in SUBSET Seqs, Logs(t, S),
           NEW d \in Deployment, d = claims[t].d
    PROVE  LogInv'
<1>. DEFINE b == decodeRemoteLogBuffer(d)
            p == prepareRemoteLogEvents(b, S)
            k == p.buffer
            R == p.ready
            h == p.hidden
            L == Lines(d, R, h)
            last == GetLastRemoteStepLogSequence(d)
            P == Published(d)
<1>0. Typed /\ Typed'
  BY LogsShape DEF ClaimsInv
<1>1. /\ run'[d].buffer = k /\ run'[d].state = run[d].state
      /\ run'[d].token = run[d].token /\ run'[d].dropped = run[d].dropped
      /\ \A e \in Deployment : e # d => run'[e] = run[e] /\ log'[e] = log[e]
      /\ log'[d] = L
      /\ Len(claims') = Len(claims)
      /\ \A u \in Tokens :
            /\ claims'[u].d = claims[u].d
            /\ claims'[u].acked = IF u = t THEN claims[u].acked \cup S ELSE claims[u].acked
  BY <1>0, LogsShape
<1>2. run[d].state \in Receiving /\ run[d].token = t /\ Admissible(b, S)
  BY DEF Logs, Owns, Receiving
<1>3. /\ b \in Buffers /\ Readable(b, last) /\ \A n \in b.tail : n > last
      /\ 1 .. b.through \subseteq P \cup b.tail
      /\ Sealed(log[d], last)
      /\ b.tail = run[d].buffer.tail /\ b.gaps = run[d].buffer.gaps
  BY <1>1, <1>2, DecodedIs
<1>4. last \in Int /\ last >= -1 /\ last \in P \cup {-1} /\ (\A m \in P : m <= last) /\ P \in SUBSET Seqs
  BY <1>0, <1>1, LastLine, LogAt
<1>5. R \in SUBSET Seqs /\ h \in BOOLEAN /\ k \in Buffers
  BY <1>3, PreparedTypes
<1>. HIDE DEF b, last
<1>6. /\ k.through >= -1
      /\ \A n \in R : n > last
      /\ R = {} => Readable(k, last) /\ \A n \in k.tail : n > last
      /\ R # {} => /\ Readable(k, SetMax(R)) /\ \A n \in k.tail : n > SetMax(R)
                   /\ h \/ SetMax(R) \notin Split
      /\ b.tail \subseteq R \cup k.tail
      /\ b.gaps \subseteq R \cup k.tail \cup k.gaps
      /\ \A n \in S : n <= b.through \/ n \in R \cup k.tail \cup k.gaps
      /\ \A n \in 1 .. k.through : n <= b.through \/ n \in R \cup k.tail
  BY <1>2, <1>3, <1>4, PreparedKeeps
<1>. HIDE DEF p, k, R, h, P
<1>7. /\ Len(L) \in Nat /\ Len(log[d]) <= Len(L) /\ DOMAIN L = 1 .. Len(L)
      /\ \A i \in 1 .. Len(log[d]) : L[i] = log[d][i]
      /\ \A i \in Len(log[d]) + 1 .. Len(L) : L[i].seq \in R /\ L[i].hidden = h
      /\ SeqsOf(L) = P \cup R
  <2>1. Appends(L, log[d], R, h) /\ SeqsOf(L) = P \cup R
    BY <1>0, <1>5, LinesShape DEF P
  <2>. HIDE DEF L
  <2>. QED
    BY <2>1 DEF Appends
<1>8. InOrder(L) /\ Whole(L)
  <2>1. InOrder(log[d]) /\ Whole(log[d])
    BY <1>1 DEF LogInv, LogOrdered, SecretWhole, InOrder, Whole
  <2>. QED
    BY <1>0, <1>1, <1>3, <1>5, <1>6, <2>1, LinesKeepOrder DEF last
<1>. HIDE DEF L
<1>9. LogOrdered' /\ SecretWhole'
  <2>1. \A e \in Deployment : InOrder(log'[e]) /\ Whole(log'[e])
    BY <1>1, <1>8 DEF LogInv, LogOrdered, SecretWhole, InOrder, Whole
  <2>. QED
    BY <2>1 DEF LogOrdered, SecretWhole, InOrder, Whole
<1>10. \A e \in Deployment : e # d => /\ Published(e)' = Published(e)
                                      /\ GetLastRemoteStepLogSequence(e)' = GetLastRemoteStepLogSequence(e)
  <2>. SUFFICES ASSUME NEW e \in Deployment, e # d
                PROVE  /\ Published(e)' = Published(e)
                       /\ GetLastRemoteStepLogSequence(e)' = GetLastRemoteStepLogSequence(e)
    OBVIOUS
  <2>1. log'[e] = log[e]
    BY <1>1
  <2>2. Published(e)' = Published(e)
    BY <2>1 DEF Published
  <2>. QED
    BY <2>2 DEF GetLastRemoteStepLogSequence
<1>11. Published(d)' = P \cup R /\ GetLastRemoteStepLogSequence(d)' = LastOf(P \cup R)
  <2>1. Published(d)' = SeqsOf(L)
    BY <1>1 DEF Published, SeqsOf
  <2>2. GetLastRemoteStepLogSequence(d)' = LastOf(Published(d)')
    BY DEF GetLastRemoteStepLogSequence, LastOf
  <2>. QED
    BY <1>7, <2>1, <2>2
<1>12. \E n \in Int : /\ LastOf(P \cup R) = n
                      /\ Readable(k, n) /\ (\A m \in k.tail : m > n) /\ Sealed(L, n)
  <2>0. Len(log[d]) \in Nat /\ DOMAIN log[d] = 1 .. Len(log[d])
        /\ \A i \in 1 .. Len(log[d]) : log[d][i].seq \in P
    BY <1>0, LogAt DEF P
  <2>a. \A i \in DOMAIN L : i \in 1 .. Len(log[d]) \/ i \in Len(log[d]) + 1 .. Len(L)
    BY <1>7, <2>0
  <2>1. CASE R = {}
    <3>1. LastOf(P \cup R) = last
      BY <1>4, <1>5, <2>1, LastOfIs
    <3>2. \A i \in DOMAIN L : i \in DOMAIN log[d] /\ L[i] = log[d][i]
      BY <1>7, <2>0, <2>1, <2>a
    <3>3. Sealed(L, last)
      BY <1>3, <3>2 DEF Sealed
    <3>. QED
      BY <1>4, <1>6, <2>1, <3>1, <3>3
  <2>2. CASE R # {}
    <3>. DEFINE r == SetMax(R)
    <3>1. r \in R /\ (\A m \in R : m <= r) /\ r \in Nat /\ R \subseteq Nat
      BY <1>5, <2>2, SetMaxType, Assumed
    <3>2. Readable(k, r) /\ (\A m \in k.tail : m > r) /\ (h \/ r \notin Split)
      BY <1>6, <2>2
    <3>. HIDE DEF r
    <3>3. r > last /\ \A m \in P : m < r /\ m \in Nat
      BY <1>4, <1>6, <3>1, Assumed
    <3>4. LastOf(P \cup R) = r
      <4>1. P \cup R \in SUBSET Seqs /\ r \in (P \cup R) \cup {-1} /\ \A m \in P \cup R : m <= r
        BY <1>4, <1>5, <3>1, <3>3
      <4>. QED
        BY <4>1, LastOfIs
    <3>5. Sealed(L, r)
      <4>. SUFFICES ASSUME NEW i \in DOMAIN L, L[i].seq = r PROVE L[i].hidden \/ r \notin Split
        BY DEF Sealed
      <4>1. i \notin 1 .. Len(log[d])
        BY <1>7, <2>0, <3>3
      <4>2. L[i].hidden = h
        BY <1>7, <2>a, <4>1
      <4>. QED
        BY <3>2, <4>2
    <3>. QED
      BY <3>1, <3>2, <3>4, <3>5
  <2>. QED
    BY <2>1, <2>2
<1>13. P \cup b.tail \subseteq (P \cup R) \cup k.tail
  BY <1>6
<1>14. b.through \in Int /\ k.through \in Int /\ k # NoBuffer /\ S \subseteq Nat
  <2>1. b.through \in Int /\ k.through \in Int /\ NoBuffer.through = -2
    BY <1>3, <1>5 DEF Buffers, NoBuffer
  <2>. QED
    BY <1>6, <2>1, Assumed
<1>15. 1 .. k.through \subseteq (P \cup R) \cup k.tail
  <2>. SUFFICES ASSUME NEW n \in 1 .. k.through PROVE n \in (P \cup R) \cup k.tail
    OBVIOUS
  <2>1. CASE n <= b.through
    BY <1>3, <1>13, <1>14, <2>1
  <2>2. CASE ~(n <= b.through)
    BY <1>6, <2>2
  <2>. QED
    BY <2>1, <2>2
<1>16. Buffered'
  <2>. SUFFICES ASSUME NEW e \in Deployment, run'[e].buffer # NoBuffer
                PROVE  /\ Readable(run'[e].buffer, GetLastRemoteStepLogSequence(e)')
                       /\ \A n \in run'[e].buffer.tail : n > GetLastRemoteStepLogSequence(e)'
                       /\ 1 .. run'[e].buffer.through \subseteq Published(e)' \cup run'[e].buffer.tail
                       /\ Sealed(log'[e], GetLastRemoteStepLogSequence(e)')
    BY DEF Buffered
  <2>1. CASE e = d
    BY <1>1, <1>11, <1>12, <1>15, <2>1
  <2>2. CASE e # d
    BY <1>1, <1>10, <2>2 DEF LogInv, Buffered
  <2>. QED
    BY <2>1, <2>2
<1>17. LogStarts'
  BY <1>1, <1>2, <1>14 DEF LogInv, LogStarts
<1>a. /\ Tokens' = Tokens
      /\ \A u \in Tokens : claims'[u].d = claims[u].d
      /\ \A u \in Tokens : u # t => claims'[u].acked = claims[u].acked
      /\ claims'[t].acked = claims[t].acked \cup S
  BY <1>1 DEF Tokens
<1>18. Kept'
  <2>. SUFFICES ASSUME NEW u \in Tokens, run'[claims[u].d].token = u, ~run'[claims[u].d].dropped
                PROVE  claims'[u].acked \ {0} \subseteq SeqsOf(log'[claims[u].d])
                          \cup run'[claims[u].d].buffer.tail \cup run'[claims[u].d].buffer.gaps
    BY <1>a DEF Kept, Owns, Published, SeqsOf
  <2>0. claims[u].d \in Deployment
    BY <1>0, ClaimAt
  <2>1. run[claims[u].d].token = u /\ ~run[claims[u].d].dropped
    BY <1>1, <2>0
  <2>2. claims[u].acked \ {0} \subseteq Published(claims[u].d)
                          \cup run[claims[u].d].buffer.tail \cup run[claims[u].d].buffer.gaps
    BY <2>1 DEF LogInv, Kept, Owns
  <2>3. CASE claims[u].d = d
    <3>1. u = t
      BY <1>2, <2>1, <2>3
    <3>2. claims[u].acked \ {0} \subseteq (P \cup R) \cup k.tail \cup k.gaps
      BY <1>3, <1>6, <1>13, <2>2, <2>3 DEF P
    <3>3. S \ {0} \subseteq (P \cup R) \cup k.tail \cup k.gaps
      <4>. SUFFICES ASSUME NEW n \in S, n # 0, n <= b.through PROVE n \in (P \cup R) \cup k.tail
        BY <1>6
      <4>1. n \in 1 .. b.through
        BY <1>14
      <4>. QED
        BY <1>3, <1>13, <4>1
    <3>. QED
      BY <1>1, <1>7, <1>a, <2>3, <3>1, <3>2, <3>3
  <2>4. CASE claims[u].d # d
    <3>1. u # t
      BY <2>4
    <3>. QED
      BY <1>1, <1>a, <2>0, <2>2, <2>4, <3>1 DEF Published, SeqsOf
  <2>. QED
    BY <2>3, <2>4
<1>. QED
  BY <1>9, <1>16, <1>17, <1>18 DEF LogInv

LEMMA InitLog ==
    ASSUME RemoteAssumption, Init
    PROVE  LogInv
<1>1. \A d \in Deployment : log[d] = <<>> /\ run[d].buffer = NoBuffer
  BY DEF Init, NoRun
<1>2. Typed
  BY InitClaims DEF ClaimsInv
<1>3. \A d \in Deployment : DOMAIN log[d] = {}
  BY <1>1, <1>2, EmptyLog
<1>4. Tokens = {}
  <2>1. Len(claims) = 0
    BY EmptySeq DEF Init
  <2>. QED
    BY <2>1 DEF Tokens
<1>5. LogStarts /\ Buffered
  BY <1>1 DEF LogStarts, Buffered
<1>6. LogOrdered /\ SecretWhole
  BY <1>3 DEF LogOrdered, SecretWhole
<1>7. Kept
  BY <1>4 DEF Kept
<1>. QED
  BY <1>5, <1>6, <1>7 DEF LogInv

\* One step per action.
LEMMA NextKeepsLog ==
    ASSUME RemoteAssumption, ClaimsInv, LogInv, [Next]_rvars
    PROVE  LogInv'
<1>0. Typed /\ \A t \in Tokens : claims[t].d \in Deployment
  BY ClaimAt DEF ClaimsInv
<1>q. ASSUME log' = log, claims' = claims, RowsMove, BuffersMove PROVE LogInv'
  BY <1>q, MovesKeepLog
<1>s. ASSUME run' = run PROVE RowsMove /\ BuffersMove
  BY <1>s DEF RowsMove, BuffersMove, RowMoves, BufferMoves
<1>a. ASSUME NEW t \in Tokens, NEW from \in {"sent", "held", "running"}, NEW to \in {"held"} \cup Began,
             AgentStep(t, from, to), to \in Began => claims[t].granted
      PROVE  LogInv'
  <2>1. log' = log /\ RowsMove /\ BuffersMove
    BY <1>a, <1>s DEF AgentStep
  <2>2. /\ Len(claims') = Len(claims)
        /\ \A u \in Tokens : claims'[u].d = claims[u].d /\ claims'[u].acked = claims[u].acked
    BY <1>a, AgentStepKeeps
  <2>. QED
    BY <2>1, <2>2, MovesKeepLog
<1>1. ASSUME NEW p \in Poll, NEW c \in Cap, PollArrives(p, c) PROVE LogInv'
  <2>1. log' = log /\ claims' = claims
    BY <1>1 DEF PollArrives
  <2>. QED
    BY <1>0, <1>1, <1>q, <2>1, PollArrivesMoves
<1>2. ASSUME NEW p \in Poll, NEW d \in Deployment, ClaimStep(p, d) PROVE LogInv'
  BY <1>2, ClaimStepKeepsLog
<1>3. ASSUME NEW p \in Poll, NEW d \in Deployment, ClaimInvalid(p, d) PROVE LogInv'
  <2>1. log' = log /\ claims' = claims
    BY <1>3 DEF ClaimInvalid
  <2>. QED
    BY <1>0, <1>3, <1>q, <2>1, ClaimInvalidMoves
<1>4. ASSUME \/ \E p \in Poll : PollEnds(p)
             \/ \E t \in Tokens : SaveStaging(t)
             \/ \E d \in Deployment : Complete(d)
             \/ \E b \in BOOLEAN : SetDraining(b)
             \/ UNCHANGED rvars
      PROVE  LogInv'
  <2>1. run' = run /\ claims' = claims /\ log' = log
    BY <1>0, <1>4, QuietSteps
  <2>. QED
    BY <1>q, <1>s, <2>1
<1>5. ASSUME NEW t \in Tokens, Start(t) PROVE LogInv'
  <2>1. log' = log
    BY <1>5 DEF Start
  <2>. QED
    BY <1>5, <2>1, StartKeeps, MovesKeepLog
<1>6. ASSUME NEW t \in Tokens, Heartbeat(t) PROVE LogInv'
  <2>1. log' = log
    BY <1>6 DEF Heartbeat
  <2>. QED
    BY <1>6, <2>1, HeartbeatKeeps, MovesKeepLog
<1>7. ASSUME NEW t \in Tokens, Result(t) PROVE LogInv'
  BY <1>0, <1>7, ResultFinishes, FinishKeepsLog
<1>8. ASSUME NEW t \in Tokens, Cancelled(t) PROVE LogInv'
  BY <1>0, <1>8, CancelledFinishes, FinishKeepsLog
<1>9. ASSUME NEW t \in Tokens, NEW S \in (SUBSET Seqs) \ {{}}, Logs(t, S) PROVE LogInv'
  BY <1>0, <1>9, LogsKeepLog
<1>10. ASSUME NEW t \in Tokens, AgentReceives(t) PROVE LogInv'
  BY <1>10, <1>a DEF AgentReceives, Began
<1>11. ASSUME NEW t \in Tokens, AgentBegins(t) PROVE LogInv'
  BY <1>11, <1>a DEF AgentBegins, Began
<1>12. ASSUME NEW t \in Tokens, AgentStops(t) PROVE LogInv'
  <2>1. claims[t].granted
    BY <1>12 DEF AgentStops, AgentStep, ClaimsInv, Granted, Began
  <2>. QED
    BY <1>12, <1>a, <2>1 DEF AgentStops, Began
<1>13. ASSUME NEW t \in Tokens, NEW s \in {"succeeded", "failed", "cleanup_unconfirmed"}, AgentEnds(t, s)
       PROVE  LogInv'
  <2>1. claims[t].granted
    BY <1>13 DEF AgentEnds, AgentStep, ClaimsInv, Granted, Began
  <2>. QED
    BY <1>13, <1>a, <2>1 DEF AgentEnds, Began
<1>14. ASSUME NEW d \in Deployment, QueueRun(d) PROVE LogInv'
  <2>1. log' = log /\ claims' = claims
    BY <1>14 DEF QueueRun
  <2>. QED
    BY <1>0, <1>14, <1>q, <2>1, QueueRunMoves
<1>15. ASSUME NEW d \in Deployment, RequestCancel(d) PROVE LogInv'
  <2>1. log' = log /\ claims' = claims
    BY <1>15 DEF RequestCancel
  <2>. QED
    BY <1>0, <1>15, <1>q, <2>1, RequestCancelMoves
<1>16. ASSUME Maintain PROVE LogInv'
  <2>1. log' = log /\ claims' = claims
    BY <1>16 DEF Maintain
  <2>. QED
    BY <1>0, <1>16, <1>q, <2>1, MaintainMoves
<1>17. ASSUME RevokeAgent PROVE LogInv'
  <2>1. log' = log /\ claims' = claims
    BY <1>17 DEF RevokeAgent
  <2>. QED
    BY <1>0, <1>17, <1>q, <2>1, RevokeAgentMoves
<1>18. ASSUME Tick PROVE LogInv'
  <2>1. log' = log /\ claims' = claims
    BY <1>18 DEF Tick
  <2>. QED
    BY <1>0, <1>18, <1>q, <2>1, TickMoves
<1>. QED
  BY <1>1, <1>2, <1>3, <1>4, <1>5, <1>6, <1>7, <1>8, <1>9, <1>10, <1>11, <1>12, <1>13, <1>14,
     <1>15, <1>16, <1>17, <1>18 DEF Next

-----------------------------------------------------------------------------
(* The theorems. *)

LEMMA ClaimsAlways ==
    ASSUME RemoteAssumption
    PROVE  RemoteSpec => [](ClaimsInv /\ LogInv)
<1>1. Init => ClaimsInv /\ LogInv
  BY InitClaims, InitLog
<1>2. (ClaimsInv /\ LogInv) /\ [Next]_rvars => (ClaimsInv /\ LogInv)'
  BY NextKeepsClaims, NextKeepsLog
<1>. QED
  BY <1>1, <1>2, PTL DEF RemoteSpec

\* The agents row, the rows of remote_step_runs and their tokens keep their
\* types through every handler and the maintenance loop.
THEOREM RemoteTypeCorrect == RemoteAssumption => (RemoteSpec => []RemoteTypeOK)
<1>. SUFFICES ASSUME RemoteAssumption PROVE RemoteSpec => []RemoteTypeOK
  OBVIOUS
<1>1. ClaimsInv => RemoteTypeOK
  <2>. SUFFICES ASSUME ClaimsInv PROVE RemoteTypeOK
    OBVIOUS
  <2>1. Typed
    BY DEF ClaimsInv
  <2>2. \A d \in Deployment : /\ run[d].state \in States /\ run[d].age \in 0 .. MaxAge
                              /\ run[d].token \in 0 .. Len(claims)
    BY <2>1, RowAt DEF ClaimsInv, Owned
  <2>. QED
    BY <2>1, <2>2 DEF Typed, RemoteTypeOK, States
<1>. QED
  BY <1>1, ClaimsAlways, PTL

\* Started work is never offered again, and a claim that expired is never
\* started: at most one claim of a step is ever executed, whatever the network
\* loses, repeats or delays.
THEOREM ExecutedOnce == RemoteAssumption => (RemoteSpec => []ExecutesOnce)
<1>. SUFFICES ASSUME RemoteAssumption PROVE RemoteSpec => []ExecutesOnce
  OBVIOUS
<1>1. ClaimsInv => ExecutesOnce
  BY DEF ClaimsInv, Granted, Owns, ExecutesOnce
<1>. QED
  BY <1>1, ClaimsAlways, PTL

\* The outcome that a run records is the one that the agent which executed it
\* reached; FinishRemoteStep takes it from no other claim.
THEOREM OutcomeIsHonest == RemoteAssumption => (RemoteSpec => []OutcomeHonest)
<1>. SUFFICES ASSUME RemoteAssumption PROVE RemoteSpec => []OutcomeHonest
  OBVIOUS
<1>1. ClaimsInv => OutcomeHonest
  BY DEF ClaimsInv
<1>. QED
  BY <1>1, ClaimsAlways, PTL

\* No later report, request to cancel, expiry or revocation changes a recorded
\* outcome.
THEOREM OutcomeIsKept == RemoteAssumption => (RemoteSpec => OutcomeStays)
<1>. SUFFICES ASSUME RemoteAssumption PROVE RemoteSpec => OutcomeStays
  OBVIOUS
<1>1. ClaimsInv /\ [Next]_rvars =>
        [\A d \in Deployment : run[d].state \in Finished => run'[d].state = run[d].state]_rvars
  BY NextKeepsClaims DEF Stays
<1>. QED
  BY <1>1, ClaimsAlways, PTL DEF RemoteSpec, OutcomeStays

\* A claim goes only to a poll whose own report has what the step needs.
THEOREM ClaimsFit == RemoteAssumption => (RemoteSpec => []ClaimFits)
<1>. SUFFICES ASSUME RemoteAssumption PROVE RemoteSpec => []ClaimFits
  OBVIOUS
<1>1. ClaimsInv => ClaimFits
  BY DEF ClaimsInv
<1>. QED
  BY <1>1, ClaimsAlways, PTL

\* A staged step that succeeded has its output for as long as the deployment
\* runs: nothing purges the snapshot before the runner has merged it.
THEOREM OutputIsThere == RemoteAssumption => (RemoteSpec => []SuccessHasOutput)
<1>. SUFFICES ASSUME RemoteAssumption PROVE RemoteSpec => []SuccessHasOutput
  OBVIOUS
<1>1. ClaimsInv => SuccessHasOutput
  BY DEF ClaimsInv
<1>. QED
  BY <1>1, ClaimsAlways, PTL

\* What a run records is backed: by a claim of a poll that fits it, by what its
\* agent reached, and by the output that the next step reads.
THEOREM OutcomesAreBacked == RemoteAssumption => (RemoteSpec => []OutcomeBacked)
<1>. SUFFICES ASSUME RemoteAssumption PROVE RemoteSpec => []OutcomeBacked
  OBVIOUS
<1>1. RemoteSpec => [](ClaimFits /\ OutcomeHonest /\ SuccessHasOutput)
  BY ClaimsFit, OutcomeIsHonest, OutputIsThere, PTL
<1>. QED
  BY <1>1 DEF OutcomeBacked

\* Lines are published once each and in the agent's order, in whatever batches,
\* order and number of copies they arrive.
THEOREM LogIsOrdered == RemoteAssumption => (RemoteSpec => []LogOrdered)
<1>. SUFFICES ASSUME RemoteAssumption PROVE RemoteSpec => []LogOrdered
  OBVIOUS
<1>1. LogInv => LogOrdered
  BY DEF LogInv
<1>. QED
  BY <1>1, ClaimsAlways, PTL

\* A secret that spans two lines is never published in two transactions in the
\* clear, whichever lines begin one and however small the buffer.
THEOREM SecretsStayWhole == RemoteAssumption => (RemoteSpec => []SecretWhole)
<1>. SUFFICES ASSUME RemoteAssumption PROVE RemoteSpec => []SecretWhole
  OBVIOUS
<1>1. LogInv => SecretWhole
  BY DEF LogInv
<1>. QED
  BY <1>1, ClaimsAlways, PTL

\* Every buffer the server stores is one that validateRemoteLogState accepts.
THEOREM BufferStaysReadable == RemoteAssumption => (RemoteSpec => []BufferReadable)
<1>. SUFFICES ASSUME RemoteAssumption PROVE RemoteSpec => []BufferReadable
  OBVIOUS
<1>1. LogInv => BufferReadable
  BY DEF LogInv, Buffered, Readable, BufferReadable
<1>. QED
  BY <1>1, ClaimsAlways, PTL

\* The log of a run stays in order, without a secret in parts, and its buffered
\* rest readable, in whatever batches its lines arrive.
THEOREM LogIsWhole == RemoteAssumption => (RemoteSpec => []LogHolds)
<1>. SUFFICES ASSUME RemoteAssumption PROVE RemoteSpec => []LogHolds
  OBVIOUS
<1>1. RemoteSpec => [](LogOrdered /\ SecretWhole /\ BufferReadable)
  BY LogIsOrdered, SecretsStayWhole, BufferStaysReadable, PTL
<1>. QED
  BY <1>1 DEF LogHolds

\* A line that was acknowledged is published when the run ends, unless the
\* server had given the run up.  An agent that numbers its lines from 0 may
\* lose that one: a batch that starts with line 1 closes the place before it.
THEOREM AcknowledgedIsPublished ==
    RemoteAssumption /\ FirstSeq = 1 => (RemoteSpec => []AcknowledgedPublished)
<1>. SUFFICES ASSUME RemoteAssumption, FirstSeq = 1 PROVE RemoteSpec => []AcknowledgedPublished
  OBVIOUS
<1>1. ClaimsInv /\ LogInv => AcknowledgedPublished
  <2>. SUFFICES ASSUME ClaimsInv, LogInv, NEW t \in Tokens, run[claims[t].d].token = t,
                       run[claims[t].d].state \in Finished, ~run[claims[t].d].dropped
                PROVE  claims[t].acked \subseteq Published(claims[t].d)
    BY DEF AcknowledgedPublished
  <2>1. claims[t].acked \in SUBSET Seqs /\ claims[t].d \in Deployment
    BY ClaimAt DEF ClaimsInv, ClaimRows
  <2>2. 0 \notin Seqs
    BY Assumed DEF Seqs
  <2>3. run[claims[t].d].buffer = NoBuffer
    BY <2>1 DEF LogInv, LogStarts, Receiving, Finished
  <2>4. claims[t].acked \ {0} \subseteq Published(claims[t].d) \cup NoBuffer.tail \cup NoBuffer.gaps
    BY <2>3 DEF LogInv, Kept, Owns
  <2>5. NoBuffer.tail = {} /\ NoBuffer.gaps = {}
    BY DEF NoBuffer
  <2>. QED
    BY <2>1, <2>2, <2>4, <2>5
<1>. QED
  BY <1>1, ClaimsAlways, PTL

=============================================================================
