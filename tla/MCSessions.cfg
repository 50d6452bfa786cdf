CONSTANTS
    None = None
    u1 = u1  u2 = u2  c1 = c1  c2 = c2  c3 = c3
    Users = {u1, u2}
    Channels = {c1, c2, c3}
    Owner <- MCOwner
    TTL = 1
    MaxTime = 1
    MaxRequests = 3
    MaxFaults = 1
SPECIFICATION Spec
INVARIANTS
    TypeOK
    MixedUpOnlyIfCrowded
    SessionsApart
    LogoutIsFinal
    WelcomeUnlessDisturbed
SYMMETRY AppSymmetry
CHECK_DEADLOCK FALSE
