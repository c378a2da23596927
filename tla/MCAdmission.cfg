CONSTANTS
    s1 = s1
    e1 = e1
    a1 = a1
    a2 = a2
    NoDeployment = NoDeployment
    Deployment = {1, 2}
    Agent = {a1}
    Scope = {s1}
    Env = {e1}
    ScopeOf <- MCScopeOf
    EnvOf <- MCEnvOf
    Plan <- GateLocal
    Verification = "none"
    Fault = {"commit", "admission"}
    MaxRetries = 0
    MaxRestarts = 0
SPECIFICATION RSpec
INVARIANT WorkExclusive
CHECK_DEADLOCK FALSE
