CONSTANTS
    None = None
    Namespaces = {"a", "b"}
    Pods = {"web1", "web2", "db", "rep", "bare"}
    Ns <- MCNs
    Owners <- MCOwners
    Labelled <- MCLabelled
    Sized <- MCSized
    ReplicaSets = {"web-a", "web-b"}
    DeploymentOf <- MCDeploymentOf
    Targets <- Except
    MaxEdits = 0
SPECIFICATION SpecSeen
CHECK_DEADLOCK FALSE
INVARIANT ExclusionsHold
