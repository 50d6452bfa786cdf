CONSTANTS
    None = None  Unnamed = Unnamed
    l1 = l1  l2 = l2  l3 = l3  c1 = c1  c2 = c2  c3 = c3
    Logins = {l1, l2}
    LongLogins = {}
    RateListed = TRUE
    Channels = {c1, c2}
    StrayIds <- MCStrayIds
    MaxId = 2
    Word = 4
    MaxRequests = 2
    MaxFaults = 1
SPECIFICATION Spec
INVARIANT SuccessMeansRegistered
CHECK_DEADLOCK FALSE
