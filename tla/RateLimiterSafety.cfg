\* Two clients, a limit of two per window of two ticks, four windows.
CONSTANTS
    c1 = c1
    c2 = c2
    Clients = {c1, c2}
    Requests <- MCRequests
    Limit = 2
    Window = 2
    MaxTime = 6
    None = None
SPECIFICATION Spec
SYMMETRY ClientSymmetry
INVARIANTS TypeOK AtMostTwice RefusalsEarned
