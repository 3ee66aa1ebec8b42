\* Two workers, three jobs of two vendors, every kind of fault.
CONSTANTS
    w1 = w1
    w2 = w2
    v1 = v1
    v2 = v2
    Workers = {w1, w2}
    MaxJobs = 3
    Vendors = {v1, v2}
    JobVendor <- MCJobVendor
    Attempts = 3
    MaxRetries = 5
    MaxClaims = 2
    Faults = {"panel", "db", "crash"}
SPECIFICATION FairSpec
INVARIANTS TypeOK ClaimsExclusive OneServicePerOrder ServicesReal
PROPERTIES JobsSettled ImplementsDelivery
CHECK_DEADLOCK FALSE
