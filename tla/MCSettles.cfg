CONSTANTS
    s1 = s1
    e1 = e1
    a1 = a1
    a2 = a2
    NoDeployment = NoDeployment
    Deployment = {1}
    Agent = {a1, a2}
    Scope = {s1}
    Env = {e1}
    ScopeOf <- MCScopeOf
    EnvOf <- MCEnvOf
    Plan <- GateAgentLocal
    Verification = "bash"
    Fault = {"admission", "crash", "shutdown", "engine"}
    MaxRetries = 0
    MaxRestarts = 1
SPECIFICATION RFairSpec
PROPERTY Settles
CHECK_DEADLOCK FALSE
