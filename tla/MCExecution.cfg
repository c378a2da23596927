CONSTANTS
    s1 = s1
    e1 = e1
    a1 = a1
    a2 = a2
    NoDeployment = NoDeployment
    Deployment = {1, 2}
    Agent = {a1}
    Scope = {s1}
    Env = {e1}
    ScopeOf <- MCScopeOf
    EnvOf <- MCEnvOf
    Plan <- GateAgentLocal
    Verification = "bash"
    Fault = {"crash", "engine", "commit"}
    MaxRetries = 1
    MaxRestarts = 1
SPECIFICATION RSpec
INVARIANTS
    WorkExclusive
    StepsSequential
PROPERTIES
    SuccessHonest
    OutcomeFinal
CHECK_DEADLOCK FALSE
