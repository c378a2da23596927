---------------------------- MODULE MCRemoteStep ----------------------------
(*****************************************************************************)
(* A finite instance of RemoteStep: an agent that holds two long polls and   *)
(* is upgraded or downgraded between them, a deployment whose environment    *)
(* cannot be delivered before one that can, and a log with secrets across    *)
(* its lines.                                                                *)
(*****************************************************************************)
EXTENDS RemoteStep, TLC

CONSTANTS p1, p2

\* What an old and a new agent report of themselves.
Old == [modes |-> {"host"}, staging |-> FALSE, ready |-> FALSE]
New == [modes |-> {"host", "container"}, staging |-> TRUE, ready |-> TRUE]
OldAndNew == {Old, New}

NeedContainers == <<"container", "container">>
FirstIsDefect == <<"environment", "none">>

ASSUME Instance == RemoteAssumption

\* Polls are interchangeable.
SamePolls == Permutations({p1, p2})

=============================================================================
