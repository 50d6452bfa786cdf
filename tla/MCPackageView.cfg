CONSTANTS
    None = None
    u1 = u1  r1 = r1  s1 = s1  c1 = c1  a1 = a1  v1 = v1
    Users = {u1}
    Rates = {r1}
    Services = {s1}
    Listed = {r1, s1}
    Clients = {c1}
    Admins = {a1}
    SessionUser <- OneUser
    Cost <- MCCost
    Gives <- MCGives
    Opening <- MCOpening
    Scores <- MCScores
    AdminPacks <- EmptyPacks
    StrayScores <- MCStrayScores
    StrayPacks <- EmptyPacks
    MaxCount = 3
    Word = 8
    MaxRequests = 2
    MaxFaults = 0
    Viewers = {v1}
    FirstRate = r1
    LongLived = {}
    MaxFirst = 1
    MaxFailed = 1
SPECIFICATION ViewSpec
INVARIANTS
    ViewTypeOK
    PackageIsExplained
    ScoreIsCurrent
    ViewIsReal
    CompleteIsShown
CHECK_DEADLOCK FALSE
