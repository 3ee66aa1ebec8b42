\* Two processes that seed and one in production, two migration files, every
\* kind of fault.  Processes that all serve have nothing left to do here.
CONSTANTS
    p1 = p1
    p2 = p2
    p3 = p3
    Processes = {p1, p2, p3}
    Complete = {p1, p2, p3}
    AppEnv <- MCAppEnv
    Files = 2
    Attempts = 2
    Faults = TRUE
SPECIFICATION FairSpec
INVARIANTS TypeOK ServesReady
PROPERTIES Boots
CHECK_DEADLOCK FALSE
