------------------------------ MODULE MCRunner ------------------------------
(* Finite instances of Runner.                                             *)
EXTENDS Runner

CONSTANTS s1, e1, a1, a2

MCScopeOf == [d \in Deployment |-> s1]
MCEnvOf == [s \in Scope |-> e1]

LocalAgentLocal == <<"local", "agent", "local">>
GateLocal == <<"gate", "local">>
GateAgentLocal == <<"gate", "agent", "local">>
AgentLocal == <<"agent", "local">>

=============================================================================
