SPECIFICATION FairSpec
CONSTANTS
    r1 = r1
    p1 = p1
    p2 = p2
    Closer = Closer
    Runs <- MCRuns
    Probes <- MCProbes
    MaxSpawns = 2
    MaxFrames = 1
CHECK_DEADLOCK FALSE
INVARIANTS
    EveryChildIsOwned
    WorkIsWanted
PROPERTIES
    CrashEndsItsCalls
