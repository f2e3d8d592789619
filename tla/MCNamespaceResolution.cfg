SPECIFICATION FairSpec
CONSTANTS
    Workers = {w1}
    MaxVersion = 3
    MaxPlans = 4
    MaxInstallPlanCount = 1
    MaxDeletesPerSweep = 1
    Skips = {}
    Approvals = {"Automatic", "Manual"}
    FailForward = TRUE
    Faults = {"delete", "get", "resolve", "unpack", "unpacking", "list", "create", "status", "update", "planstatus", "install", "crash"}
    MaxFaults = 1
    None = None
INVARIANTS TypeOK   PendingPlanKept
PROPERTIES NoDowngrade KeptUpToDateUnlessBlocked
