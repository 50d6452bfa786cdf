CONSTANTS
    None = None
    u1 = u1  u2 = u2  c1 = c1  c2 = c2  c3 = c3
    Users = {u1, u2}
    Channels = {c1, c2}
    Owner <- MCOwner
    TTL = 2
    MaxTime = 1
    MaxRequests = 2
    MaxFaults = 0
SPECIFICATION Spec
INVARIANTS
    WelcomeHasSession
CHECK_DEADLOCK FALSE
