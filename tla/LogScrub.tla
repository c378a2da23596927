------------------------------ MODULE LogScrub ------------------------------
(***************************************************************************)
(* Redaction of credentials in the output of a step, whatever chunks the   *)
(* output arrives in.                                                      *)
(*                                                                         *)
(* A local step writes to broadcastWriter, which holds back everything     *)
(* that may still become part of a credential, scrubs up to a newline and  *)
(* publishes the lines.  An agent's log events are scrubbed as parts of    *)
(* one text.  Output is a sequence of letters: New is the newline, Marker  *)
(* the replacement.  Literals are the deployment's secret values; of the   *)
(* patterns of common credentials one is modelled, "Bearer" followed by    *)
(* white space and token characters, because it is unbounded and spans a   *)
(* newline.  Incomplete UTF-8 and configured patterns are left out, and so *)
(* is a line the database refuses: it is lost, and nothing replaces it.    *)
(***************************************************************************)
EXTENDS Naturals, SequencesExt

CONSTANTS Plain,      \* letters without meaning
          Secret,     \* letters of secrets; they are token characters too
          New,        \* newline
          Bearer,     \* the word Bearer
          Marker,     \* "[REDACTED]"
          Literals,   \* secret values of the deployment
          MaxOutput,  \* bound: letters of output
          MaxChunk,   \* bound: letters of one Write
          PendingLimit \* Logs.PendingBytes

Letters == Plain \cup Secret \cup {New, Bearer}

LogScrubAssumption ==
    /\ MaxOutput \in Nat /\ MaxChunk \in Nat /\ PendingLimit \in Nat
    /\ Literals \subseteq Seq(Letters) \ {<<>>}
    /\ Marker \notin Letters

VARIABLES chunks,  \* ghost: what was written so far, by Write
          buf,     \* broadcastWriter.buf
          out,     \* text published so far
          failed,  \* broadcastWriter.outputFailed
          flushed  \* the attempt is over

vars == <<chunks, buf, out, failed, flushed>>

Part(text, from, to) == SubSeq(text, from, to)
Take(text, n) == SubSeq(text, 1, n)
Drop(text, n) == SubSeq(text, n + 1, Len(text))
Suffix(text, n) == Drop(text, Len(text) - n)

Joined(parts) == FlattenSeq(parts)
Written == Joined(chunks)

-----------------------------------------------------------------------------
(* Scrubber *)

\* Bearer\s+[token]+ from i to j.
IsToken(text, i, j) ==
    /\ text[i] = Bearer
    /\ \E k \in (i + 1)..(j - 1) :
           /\ \A m \in (i + 1)..k : text[m] = New
           /\ \A m \in (k + 1)..j : text[m] \in Secret

\* Bearer\s+[token]*$ from i.
IsPendingToken(text, i) ==
    /\ text[i] = Bearer
    /\ \E k \in (i + 1)..Len(text) :
           /\ \A m \in (i + 1)..k : text[m] = New
           /\ \A m \in (k + 1)..Len(text) : text[m] \in Secret

\* Length of the longest match that starts at i, 0 without one (Longest()).
LongestAt(text, i) ==
    Max({0} \cup {n \in 1..(Len(text) - i + 1) :
                \/ Part(text, i, i + n - 1) \in Literals
                \/ IsToken(text, i, i + n - 1)})

\* First and last positions of the matches, left to right without overlap.
FindAll(text) ==
    LET find[i \in 1..(Len(text) + 1)] ==
            IF i > Len(text) THEN {}
            ELSE IF LongestAt(text, i) = 0 THEN find[i + 1]
            ELSE {<<i, i + LongestAt(text, i) - 1>>} \cup find[i + LongestAt(text, i)]
    IN  find[1]

\* The text from..to with every match that starts in it shown as one marker.
Redacted(text, matches, from, to) ==
    LET show[i \in from..(to + 1)] ==
            IF i > to THEN <<>>
            ELSE IF \E m \in matches : m[1] = i THEN <<Marker>> \o show[i + 1]
            ELSE IF \E m \in matches : m[1] < i /\ i <= m[2] THEN show[i + 1]
            ELSE <<text[i]>> \o show[i + 1]
    IN  show[from]

Scrub(text) == Redacted(text, FindAll(text), 1, Len(text))

\* One part of ScrubParts: matches are those of the joined text.
ScrubPart(parts, n) ==
    LET text == Joined(parts)
        before == Len(Joined(SubSeq(parts, 1, n - 1)))
    IN  Redacted(text, FindAll(text), before + 1, before + Len(parts[n]))
ScrubParts(parts) == [n \in 1..Len(parts) |-> ScrubPart(parts, n)]

\* scrubRemoteLogEvents: the parts of an agent's events, then each line again.
scrubRemoteLogEvents(parts) == [n \in 1..Len(parts) |-> Scrub(ScrubParts(parts)[n])]

\* A suffix of the text that may be the beginning of a match.
PendingPrefix(text, n) ==
    \/ \E l \in Literals : n < Len(l) /\ Suffix(text, n) = Take(l, n)
    \/ Suffix(text, n) = <<Bearer>>
    \/ IsPendingToken(text, Len(text) - n + 1)

PendingBytes(text) ==
    LET pending == Max({0} \cup {n \in 1..Len(text) : PendingPrefix(text, n)})
        \* A match across the boundary is held back as a whole.
        across == {m \in FindAll(text) : m[1] <= Len(text) - pending
                                         /\ m[2] > Len(text) - pending}
    IN  IF pending = 0 \/ across = {} THEN pending
        ELSE Max({Len(text) - m[1] + 1 : m \in across})

-----------------------------------------------------------------------------
(* broadcastWriter *)

LastNewline(text) == Max({0} \cup {i \in 1..Len(text) : text[i] = New})

\* The newline to publish up to, 0 without one: nothing before it is pending.
Cut(data) ==
    LET cut[n \in 0..Len(data)] ==
            IF n = 0 \/ PendingBytes(Take(data, n)) = 0 THEN n
            ELSE cut[LastNewline(Take(data, n - PendingBytes(Take(data, n))))]
    IN  cut[LastNewline(Take(data, Len(data) - PendingBytes(data)))]

\* The output limit: the buffer is dropped and the attempt cancelled.
WriteTooMuch(p) ==
    /\ ~failed /\ Len(p) + Len(buf) > PendingLimit
    /\ failed' = TRUE /\ buf' = <<>> /\ chunks' = Append(chunks, p)
    /\ UNCHANGED <<out, flushed>>

Write(p) ==
    LET data == buf \o p
    IN  /\ ~failed /\ Len(p) + Len(buf) <= PendingLimit
        /\ chunks' = Append(chunks, p)
        /\ buf' = Drop(data, Cut(data))
        /\ out' = out \o Scrub(Take(data, Cut(data)))
        /\ UNCHANGED <<failed, flushed>>

MutantFlushRaw ==
    /\ ~flushed /\ flushed' = TRUE
    /\ IF failed THEN UNCHANGED <<buf, out>> ELSE buf' = <<>> /\ out' = out \o buf
    /\ UNCHANGED <<chunks, failed>>

Flush ==
    /\ ~flushed /\ flushed' = TRUE
    /\ IF failed THEN UNCHANGED <<buf, out>>
       ELSE buf' = <<>> /\ out' = out \o Scrub(buf)
    /\ UNCHANGED <<chunks, failed>>

Init ==
    /\ chunks = <<>> /\ buf = <<>> /\ out = <<>>
    /\ failed = FALSE /\ flushed = FALSE

Next ==
    \/ /\ ~flushed
       /\ \E n \in 1..MaxChunk : \E p \in [1..n -> Letters] :
              /\ Len(Written) + n <= MaxOutput
              /\ Write(p) \/ WriteTooMuch(p)
    \/ Flush

Spec == Init /\ [][Next]_vars

-----------------------------------------------------------------------------
(* Properties *)

Occurs(part, text) ==
    \E i \in 1..(Len(text) - Len(part) + 1) : Part(text, i, i + Len(part) - 1) = part

\* Every variable has its type.
TypeOK ==
    /\ \A i \in 1..Len(buf) : buf[i] \in Letters
    /\ \A i \in 1..Len(out) : out[i] \in Letters \cup {Marker}
    /\ Len(buf) <= PendingLimit /\ failed \in BOOLEAN /\ flushed \in BOOLEAN

\* No secret value and no bearer token is ever published, however the output is
\* cut into writes and wherever newlines fall in it (broadcastWriter.Write).
NoSecretPublished ==
    /\ \A l \in Literals : ~Occurs(l, out)
    /\ \A i, j \in 1..Len(out) : ~IsToken(out, i, j)

\* Scrubbing in chunks is scrubbing the whole output: the chunks a step happens
\* to write change neither what is redacted nor what is shown (Write, Flush).
WholeScrub == ~failed => out \o Scrub(buf) = Scrub(Written)

\* ScrubParts redacts what Scrub redacts in the joined text and keeps the parts.
PartsAgree == Joined(ScrubParts(chunks)) = Scrub(Written)

\* No secret value spans the scrubbed events of an agent, published one by one
\* (scrubRemoteLogEvents).
EventsScrubbed == \A l \in Literals : ~Occurs(l, Joined(scrubRemoteLogEvents(chunks)))

\* Output is held back only while it may become a credential: a complete line
\* with nothing pending before it is published by the Write that completes it.
LinesAppear ==
    ~failed /\ buf # <<>> => LET n == LastNewline(buf)
                           IN  n = 0 \/ PendingBytes(Take(buf, n)) > 0 \/ PendingBytes(buf) > Len(buf) - n
=============================================================================
