\* The process and the database stay up.
CONSTANTS
    h1 = h1
    h2 = h2
    e1 = e1
    e2 = e2
    p1 = p1
    Empty = Empty
    Handlers = {h1, h2}
    Emails = {e1, e2}
    Passwords = {p1, Empty}
    Grants <- MCGrants
    MaxUsers = 2
    MaxOps = 2
    Faults = {}
SPECIFICATION Spec
SYMMETRY AccountSymmetry
INVARIANT ServiceRoutesNeedLogin
CHECK_DEADLOCK FALSE
