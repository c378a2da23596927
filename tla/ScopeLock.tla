------------------------------ MODULE ScopeLock ------------------------------
(***************************************************************************)
(* What the deployment queue promises its users, without the tables: each  *)
(* scope is a lock, handed to waiting clients in the order they were       *)
(* created, and a client that has released it never gets it back.  One     *)
(* step may move several clients: a transaction that ends one deployment   *)
(* admits the next, in every scope of the environment.                     *)
(***************************************************************************)
EXTENDS Naturals

CONSTANTS Client, ScopeOf

VARIABLE phase

\* parked: waiting for a person's approval.  waiting: queued for the lock.
Phase == {"absent", "parked", "waiting", "holding", "released"}

Init == phase = [c \in Client |-> "absent"]

Move == {<<"absent", "parked">>, <<"absent", "waiting">>, <<"absent", "holding">>,
         <<"parked", "waiting">>, <<"parked", "holding">>, <<"parked", "released">>,
         <<"waiting", "holding">>, <<"waiting", "released">>,
         <<"holding", "released">>}

Rivals(c) == {e \in Client : ScopeOf[e] = ScopeOf[c] /\ e # c}

\* c acquires its scope: nobody else holds it, and nobody older still waits.
Acquires(c) ==
    \A e \in Rivals(c) : /\ phase'[e] # "holding"
                         /\ e < c => phase'[e] # "waiting"

Next ==
    /\ phase' \in [Client -> Phase]
    /\ \A c \in Client : phase'[c] # phase[c] =>
           /\ <<phase[c], phase'[c]>> \in Move
           /\ phase'[c] = "holding" => Acquires(c)

Spec == Init /\ [][Next]_phase

=============================================================================
