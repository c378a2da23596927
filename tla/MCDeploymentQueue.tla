-------------------------- MODULE MCDeploymentQueue --------------------------
(* Finite instances of DeploymentQueue: every deployment competes for one   *)
(* scope (the proofs cover any number of scopes).                          *)
EXTENDS DeploymentQueue

CONSTANTS s1, e1, a1, a2

MCScopeOf == [d \in Deployment |-> s1]
MCEnvOf == [s \in Scope |-> e1]

=============================================================================
