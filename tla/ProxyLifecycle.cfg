\* Two handlers and the expiry job on one service, with every fault.
CONSTANTS
    s1 = s1
    h1 = h1
    h2 = h2
    Services = {s1}
    Handlers = {h1, h2}
    Duration = 1
    PanelExpiries = {0, 2}
    MaxTime = 3
    MaxPaid = 2
    Faults = {"panel", "db", "crash"}
SPECIFICATION FairSpec
INVARIANTS TypeOK PaidTimeGranted ActiveIsReal
PROPERTIES NoEarlyExpiry ExpiredAreMarked
