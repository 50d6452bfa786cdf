CONSTANTS
    None = None  Unnamed = Unnamed
    l1 = l1  l2 = l2  l3 = l3  c1 = c1  c2 = c2  c3 = c3
    Logins = {l1, l2, l3}
    LongLogins = {l3}
    RateListed = TRUE
    Channels = {c1, c2, c3}
    StrayIds <- MCStrayIds
    MaxId = 2
    Word = 4
    MaxRequests = 4
    MaxFaults = 2
SPECIFICATION Spec
INVARIANTS
    TypeOK
    AccountIsOwners
    OneWriterPerLogin
    CompleteUnlessDisturbed
PROPERTY ImplementsDirectory
SYMMETRY ChannelSymmetry
CHECK_DEADLOCK FALSE
