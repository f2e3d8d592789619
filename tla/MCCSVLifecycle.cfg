CONSTANTS
    a = a
    b = b
    c = c
    dep = dep
    other = other
    None = None
    CSVs = {a, b, c}
    Replaces <- TwoOperators
    Owned <- OwnedCRDs
    Deployments = {dep, other}
    Deploys <- TwoDeployments
    FailForward = FALSE
    Faults = {"requirements", "strategy", "install", "noretry", "unhealthy", "update", "metadata", "undeploy", "crash"}
    MaxFaults = 1
SPECIFICATION Spec
INVARIANT UpgradeGate
INVARIANT OperatorKept
INVARIANT OneOwner
PROPERTY NoRollback
CHECK_DEADLOCK FALSE
