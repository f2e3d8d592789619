\* Three failures of unpack Jobs, or two and a fault at any point.
SPECIFICATION FairSpec
CONSTANTS
    MaxJobs = 3
    MaxRetainedJobs = 1
    MaxFailures = 3
    UnpackRetry = TRUE
    Faults = {"request", "deleteCM", "deleteCatalog", "deleteJob", "spec"}
    MaxFaults = 1
PROPERTIES RetriesKeepJobs EventuallyUnpacked
CHECK_DEADLOCK FALSE
