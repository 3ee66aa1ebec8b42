\* Two handlers, two addresses, an operator who changes roles, two requests and
\* every fault.  The system may stop: the bounds are used up.
CONSTANTS
    h1 = h1
    h2 = h2
    e1 = e1
    e2 = e2
    p1 = p1
    Empty = Empty
    Handlers = {h1, h2}
    Emails = {e1, e2}
    Passwords = {p1, Empty}
    Grants <- MCGrants
    MaxUsers = 2
    MaxOps = 2
    Faults = {"db", "crash"}
SPECIFICATION Spec
SYMMETRY AccountSymmetry
INVARIANTS TypeOK OneWalletPerUser ChangesAccountable AuditTruthful
CHECK_DEADLOCK FALSE
