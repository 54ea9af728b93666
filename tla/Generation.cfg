\* Two questions, with one key or two, and a thread that polls and cancels.
SPECIFICATION Spec
CONSTANTS
    r1 = r1
    r2 = r2
    k1 = k1
    k2 = k2
    c1 = c1
    c2 = c2
    Loop = Loop
    None = None
    Runs <- MCTwoRuns
    Keys <- MCKeys
    Clients <- MCOneClient
    MaxGlobal = 2
    MaxSession = 2
    MaxQueued = 2
    MaxProvider = 2
SYMMETRY MCSymmetry
INVARIANTS
    AbortOnlyAfterFence
    SlotHeldWhileOwned
    OneRunPerKey
CHECK_DEADLOCK FALSE
