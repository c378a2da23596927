CONSTANTS
    s1 = s1
    e1 = e1
    a1 = a1
    a2 = a2
    NoDeployment = NoDeployment
    Deployment = {1}
    Agent = {a1}
    Scope = {s1}
    Env = {e1}
    ScopeOf <- MCScopeOf
    EnvOf <- MCEnvOf
    Plan <- AgentLocal
    Verification = "none"
    Fault = {"shutdown"}
    MaxRetries = 0
    MaxRestarts = 1
SPECIFICATION RSpec
PROPERTY RemoteSettledFirst
CHECK_DEADLOCK FALSE
