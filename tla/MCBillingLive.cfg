CONSTANTS
    None = None
    u1 = u1  u2 = u2  r1 = r1  r2 = r2  s1 = s1  c1 = c1  c2 = c2  a1 = a1
    Users = {u1, u2}
    Rates = {r1}
    Services = {}
    Listed = {r1}
    Clients = {c1, c2}
    Admins = {a1}
    SessionUser <- OneUser
    Cost <- MCCost
    Gives <- MCGives
    Opening <- MCOpening
    Scores <- MCScores
    AdminPacks <- LargePack
    StrayScores <- MCStrayScores
    StrayPacks <- MCStrayPacks
    MaxCount = 3
    Word = 8
    MaxRequests = 2
    MaxFaults = 1
SPECIFICATION FairSpec
PROPERTY ChargeIsAnswered
CHECK_DEADLOCK FALSE
