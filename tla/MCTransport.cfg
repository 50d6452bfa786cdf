CONSTANTS
    None = None
    c1 = c1  c2 = c2  t1 = t1  t2 = t2
    Channels = {c1, c2}
    Threads = {t1, t2}
    Limits = {1, 2}
    Word = 3
    Sizes = {2, 3}
    MaxRequests <- MCRequests
    MaxInbox = 1
SPECIFICATION FairSpec
INVARIANTS
    TypeOK
    OneHandlerPerChannel
    OneAccept
    ThreadsEndApart
    RunsUntilThrown
    ResponsesIntact
PROPERTIES
    InstalledEndsNoThread
    RequestsAreAnswered
    AppsAreAccepted
    ImplementsDialogue
CHECK_DEADLOCK FALSE
