CONSTANTS
    a = a
    b = b
    c = c
    dep = dep
    other = other
    None = None
    CSVs = {a, b, c}
    Replaces <- Chain3
    Owned <- OwnedCRDs
    Deployments = {dep}
    Deploys <- OneDeployment
    FailForward = TRUE
    Faults = {"requirements", "strategy", "install", "noretry", "unhealthy", "update", "metadata", "undeploy", "crash"}
    MaxFaults = 1
SPECIFICATION Spec
INVARIANT OldestFirst
INVARIANT NoPanic
CHECK_DEADLOCK FALSE
