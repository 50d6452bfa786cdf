CONSTANTS
    None = None
    u1 = u1  u2 = u2  r1 = r1  r2 = r2  s1 = s1  c1 = c1  c2 = c2  a1 = a1
    Users = {u1, u2}
    Rates = {r1, r2}
    Services = {s1}
    Listed = {r1, s1}
    Clients = {c1, c2}
    Admins = {a1}
    SessionUser <- TwoUsers
    Cost <- MCCost
    Gives <- MCGives
    Opening <- MCOpening
    Scores <- MCScores
    AdminPacks <- FittingPacks
    StrayScores = {}
    StrayPacks = {}
    MaxCount = 4
    Word = 5
    MaxRequests = 3
    MaxFaults = 0
SPECIFICATION IsolatedSpec
PROPERTIES
    ImplementsAtomicBilling
    NoOverspend
CHECK_DEADLOCK FALSE
