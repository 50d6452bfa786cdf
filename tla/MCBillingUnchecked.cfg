CONSTANTS
    None = None
    u1 = u1  u2 = u2  r1 = r1  r2 = r2  s1 = s1  c1 = c1  c2 = c2  a1 = a1
    Users = {u1, u2}
    Rates = {r1, r2}
    Services = {}
    Listed = {r1}
    Clients = {c1}
    Admins = {}
    SessionUser <- OneUser
    Cost <- MCCost
    Gives <- MCGives
    Opening <- MCOpening
    Scores <- MCScores
    AdminPacks <- MCAdminPacks
    StrayScores <- MCStrayScores
    StrayPacks <- MCStrayPacks
    MaxCount = 3
    Word = 8
    MaxRequests = 1
    MaxFaults = 1
SPECIFICATION Spec
PROPERTY SuccessMeansDelivered
CHECK_DEADLOCK FALSE
