CONSTANTS
    s1 = s1
    e1 = e1
    a1 = a1
    a2 = a2
    NoDeployment = NoDeployment
    Deployment = {1, 2}
    Agent = {a1}
    Scope = {s1}
    Env = {e1}
    ScopeOf <- MCScopeOf
    EnvOf <- MCEnvOf
SPECIFICATION Spec
INVARIANT TypeOK
INVARIANT SlotOwned
INVARIANT NoLostWakeup
PROPERTY NeverReoccupies
PROPERTY StartedNeverReplayed
PROPERTY DeletionKeepsCleanup
PROPERTY ImplementsLock
CHECK_DEADLOCK FALSE
