---------------------------- MODULE StagingMerge ----------------------------
(***************************************************************************)
(* The merge of the files that the agents of one step hand to the next.    *)
(*                                                                         *)
(* Every agent starts from the same base tree and uploads its own tree.    *)
(* The merger takes the outputs one after another, compares each with the  *)
(* base, path by path in the order of a Go map, and accepts a change       *)
(* unless another output changed the same path differently.  Finish checks *)
(* the tree that results.  The tree is written as an archive and read back *)
(* by the next step.                                                       *)
(*                                                                         *)
(* A path is the sequence of its names; a file is its content, a number    *)
(* that is its size and its checksum at once.                              *)
(***************************************************************************)
EXTENDS Naturals, Sequences, FiniteSetsExt, SequencesExt

CONSTANTS Paths,        \* paths of entries, with every parent of a path
          Contents,     \* contents of files, positive sizes
          Outputs,      \* number of outputs
          Entries,      \* Limits.Staging.Entries
          PayloadBytes, \* Limits.Staging.PayloadBytes
          EntryVisits   \* Limits.Merge.EntryVisits

MergeAssumption ==
    /\ \A p \in Paths : Len(p) > 1 => Front(p) \in Paths
    /\ Contents \subseteq Nat \ {0}
    /\ Outputs \in Nat /\ Entries \in Nat /\ PayloadBytes \in Nat /\ EntryVisits \in Nat

VARIABLES base,    \* the input of the step
          outputs, \* the trees the agents uploaded
          merger,  \* Merger: result, changed paths, sizes and the visits left
          next,    \* the output being added
          todo,    \* its paths not compared yet
          pc,      \* "add", "finish", "write", "read", "done" or "refused"
          archive, \* the entries written, in order
          readBack \* the tree read from the archive

vars == <<base, outputs, merger, next, todo, pc, archive, readBack>>

Absent == <<>>
Dir == <<0>>
File(n) == <<n>>
Entry == {Absent, Dir} \cup {File(n) : n \in Contents}
Size(e) == IF e = Absent THEN 0 ELSE e[1]

Names(t) == {p \in Paths : t[p] # Absent}
Payload(t) == MapThenSumSet(LAMBDA p : Size(t[p]), Names(t))

\* Parents are directories.
IsTree(t) == \A p \in Names(t) : Len(p) > 1 => t[Front(p)] = Dir

\* What Read accepts.
Fits(t) == Cardinality(Names(t)) <= Entries /\ Payload(t) <= PayloadBytes
Snapshot == {t \in [Paths -> Entry] : IsTree(t) /\ Fits(t)}

-----------------------------------------------------------------------------
(* Merger *)

NewMerger(b) ==
    [result |-> b, changed |-> {}, stored |-> 0, storedPaths |-> 0,
     remaining |-> EntryVisits - Cardinality(Names(b))]

Init ==
    /\ base \in Snapshot /\ outputs \in [1..Outputs -> Snapshot]
    /\ Cardinality(Names(base)) <= EntryVisits
    /\ merger = NewMerger(base)
    /\ next = 0 /\ todo = {} /\ pc = "add"
    /\ archive = <<>> /\ readBack = [p \in Paths |-> Absent]

Refuse ==
    /\ pc' = "refused"
    /\ UNCHANGED <<base, outputs, merger, next, todo, archive, readBack>>

Visits(o) == Cardinality(Names(base)) + Cardinality(Names(o))

\* Add: the visits of an output are taken from the budget before any comparison.
Add ==
    /\ pc = "add" /\ todo = {} /\ next < Outputs
    /\ LET o == outputs[next + 1] IN
       \/ Visits(o) > merger.remaining /\ Refuse
       \/ /\ Visits(o) <= merger.remaining
          /\ merger' = [merger EXCEPT !.remaining = @ - Visits(o)]
          /\ next' = next + 1
          /\ todo' = Names(base) \cup Names(o)
          /\ UNCHANGED <<base, outputs, pc, archive, readBack>>

\* Paths of the base the output lacks come before all others.
Deleted(o) == {p \in todo : o[p] = Absent}
Compared(o) == IF Deleted(o) # {} THEN Deleted(o) ELSE todo

\* Another output changed the path to something else.
Conflicts(p, e) == p \in merger.changed /\ merger.result[p] # e

\* The change does not fit what the merger stores.
TooLarge(e) ==
    e # Absent /\ (\/ Size(e) > PayloadBytes - merger.stored
                   \/ merger.storedPaths >= Entries)

\* change: a path that differs from the base.
change(p, e) ==
    IF p \in merger.changed THEN merger
    ELSE [merger EXCEPT !.result[p] = e, !.changed = @ \cup {p},
                        !.stored = @ + Size(e),
                        !.storedPaths = IF e = Absent THEN @ ELSE @ + 1]

Compare(p) ==
    /\ pc = "add" /\ p \in todo /\ p \in Compared(outputs[next])
    /\ LET e == outputs[next][p] IN
       \/ e # base[p] /\ (Conflicts(p, e) \/ (p \notin merger.changed /\ TooLarge(e))) /\ Refuse
       \/ /\ e # base[p] => ~Conflicts(p, e) /\ (p \in merger.changed \/ ~TooLarge(e))
          /\ merger' = IF e = base[p] THEN merger ELSE change(p, e)
          /\ todo' = todo \ {p}
          /\ UNCHANGED <<base, outputs, next, pc, archive, readBack>>

\* Finish: the tree that results is checked once more.
Finish ==
    /\ pc = "add" /\ todo = {} /\ next = Outputs
    /\ LET t == merger.result IN
       \/ ~(IsTree(t) /\ Fits(t)) /\ Refuse
       \/ /\ IsTree(t) /\ Fits(t)
          /\ pc' = "write"
          /\ UNCHANGED <<base, outputs, merger, next, todo, archive, readBack>>

-----------------------------------------------------------------------------
(* The archive *)

\* Names are sorted: a directory comes before what is in it.
Before(p, q) == Len(p) < Len(q) \/ (Len(p) = Len(q) /\ p # q)
Sorted(S) == SetToSortSeq(S, Before)

\* Write: every entry, directories too.
Write ==
    /\ pc = "write"
    /\ archive' = Sorted(Names(merger.result))
    /\ pc' = "read"
    /\ UNCHANGED <<base, outputs, merger, next, todo, readBack>>

Parents(p) == {SubSeq(p, 1, n) : n \in 1..(Len(p) - 1)}

\* addEntry: missing parents become directories; a file in their place refuses.
addEntry(t, p, e) ==
    [q \in Paths |-> IF q = p THEN e ELSE IF q \in Parents(p) THEN Dir ELSE t[q]]
Accepted(t, p, e) ==
    /\ t[p] = Absent \/ (t[p] = Dir /\ e = Dir)
    /\ \A q \in Parents(p) : t[q] \in {Absent, Dir}
    /\ Cardinality(Names(addEntry(t, p, e))) <= Entries

\* readSnapshotEntries: the next step reads the archive entry by entry.
Read ==
    /\ pc = "read" /\ archive # <<>>
    /\ LET p == Head(archive)
           e == merger.result[p]
       IN  \/ ~Accepted(readBack, p, e) /\ Refuse
           \/ /\ Accepted(readBack, p, e)
              /\ readBack' = addEntry(readBack, p, e)
              /\ archive' = Tail(archive)
              /\ UNCHANGED <<base, outputs, merger, next, todo, pc>>

ReadEnds ==
    /\ pc = "read" /\ archive = <<>>
    /\ pc' = "done"
    /\ UNCHANGED <<base, outputs, merger, next, todo, archive, readBack>>

Next == Add \/ (\E p \in Paths : Compare(p)) \/ Finish \/ Write \/ Read \/ ReadEnds

Spec == Init /\ [][Next]_vars

-----------------------------------------------------------------------------
(* The reference: a merge of all outputs at once *)

Changes(p) == {outputs[i][p] : i \in 1..Outputs} \ {base[p]}
Agrees == \A p \in Paths : Cardinality(Changes(p)) <= 1
ThreeWay == [p \in Paths |-> IF Changes(p) = {} THEN base[p] ELSE CHOOSE e \in Changes(p) : TRUE]
InBudget ==
    FoldFunction(LAMBDA o, n : n + Visits(o), Cardinality(Names(base)), outputs) <= EntryVisits
Mergeable == Agrees /\ IsTree(ThreeWay) /\ Fits(ThreeWay) /\ InBudget

\* What the merger counts is what its result holds.
TypeOK ==
    /\ base \in Snapshot /\ merger.result \in [Paths -> Entry]
    /\ pc \in {"add", "write", "read", "done", "refused"}
    /\ merger.remaining \in 0..EntryVisits
    /\ merger.storedPaths = Cardinality({p \in merger.changed : merger.result[p] # Absent})

\* A merge that succeeds is the merge of all outputs at once: no change is lost
\* and none is invented, in whichever order outputs and paths were taken (Add).
MergedIsThreeWay ==
    pc \in {"write", "read", "done"} => Agrees /\ merger.result = ThreeWay /\ IsTree(ThreeWay)

\* A merge is refused only for a reason that does not depend on the order: two
\* outputs disagree, no tree results, or a limit is exceeded (change, Finish).
\* In particular the limit on stored paths refuses nothing Finish would accept.
RefusedForReason == pc = "refused" => ~Mergeable

\* The next step reads the tree that was merged (Write, Read).
ReadsWhatWasMerged == pc = "done" => readBack = merger.result
=============================================================================
