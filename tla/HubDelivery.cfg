\* Two notifiers, two subscribers, three events and channels that hold two.
\* The system may stop: Notify is called MaxEvents times.
CONSTANTS
    c1 = c1
    c2 = c2
    n1 = n1
    n2 = n2
    Clients = {c1, c2}
    Notifiers = {n1, n2}
    Cap = 2
    MaxEvents = 3
    None = None
SPECIFICATION FairSpec
INVARIANTS TypeOK SendsSafe SameOrder
PROPERTIES NotifyReturns ClientsLeave
CHECK_DEADLOCK FALSE
