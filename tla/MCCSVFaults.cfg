CONSTANTS
    a = a
    b = b
    c = c
    dep = dep
    other = other
    None = None
    CSVs = {a, b}
    Replaces <- Chain2
    Owned <- OwnedCRDs
    Deployments = {dep}
    Deploys <- OneDeployment
    FailForward = FALSE
    Faults = {"requirements", "strategy", "install", "noretry", "unhealthy", "update", "metadata", "undeploy", "crash", "group", "get", "delete", "webhook"}
    MaxFaults = 2
SPECIFICATION FairSpec
INVARIANT TypeOK
INVARIANT ReplacedBySucceeded
PROPERTY NewestSucceeds
CHECK_DEADLOCK FALSE
