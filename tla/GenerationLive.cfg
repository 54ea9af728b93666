\* One Run, two threads that poll and cancel it, and the fairness of the system.
SPECIFICATION FairSpec
CONSTANTS
    r1 = r1
    r2 = r2
    k1 = k1
    k2 = k2
    c1 = c1
    c2 = c2
    Loop = Loop
    None = None
    Runs <- MCOneRun
    Keys <- MCOneKey
    Clients <- MCTwoClients
    MaxGlobal = 2
    MaxSession = 2
    MaxQueued = 2
    MaxProvider = 2
INVARIANT
    ReplyIsSettled
PROPERTIES
    EveryRunEnds
    EverySlotComesBack
CHECK_DEADLOCK FALSE
