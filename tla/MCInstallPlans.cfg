SPECIFICATION FairSpec
CONSTANTS
    Kind <- KindAll
    Workers = {w1}
    MaxPlans = 2
    MaxVersion = 2
    Scoped = TRUE
    Denials <- DenyRest
    Approvals = {"Manual"}
    Faults = {"write", "query", "step", "restart", "deletePlan", "deleteCSV", "deleteCRD", "catalog"}
    MaxFaults = 1
INVARIANT TypeOK
INVARIANT CompleteApplied
INVARIANT FailedJustified
 
CHECK_DEADLOCK FALSE
PROPERTY PlansFinish
PROPERTY SubscriptionFollows
