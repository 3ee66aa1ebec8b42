\* A panel that may fail: is a failed job ever resolved?
CONSTANTS
    w1 = w1
    w2 = w2
    v1 = v1
    v2 = v2
    Workers = {w1, w2}
    MaxJobs = 1
    Vendors = {v1, v2}
    JobVendor <- MCJobVendor
    Attempts = 3
    MaxRetries = 5
    MaxClaims = 2
    Faults = {"panel"}
SPECIFICATION FairSpec
PROPERTIES FailedJobsResolved
CHECK_DEADLOCK FALSE
