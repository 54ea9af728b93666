SPECIFICATION FairSpec
CONSTANTS
    c1 = c1
    c2 = c2
    t1 = t1
    t2 = t2
    s1 = s1
    s2 = s2
    None = None
    Ids <- MCIds
    Threads <- MCThreads
    Sweepers <- MCSweepers
    MaxResident = 1
    CreateRate = 1
    MaxRateKeys = 1
    EvictionBatch = 1
INVARIANTS
    FirstDetectorIsUnique
    StoreIsConsistent
PROPERTY
    ExpiredIsReclaimed
\* A closed Store whose bounded ids are used up has nothing left to do.
CHECK_DEADLOCK FALSE
