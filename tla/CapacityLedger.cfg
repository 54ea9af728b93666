SPECIFICATION Spec
CONSTANTS
    l1 = l1
    l2 = l2
    l3 = l3
    l4 = l4
    l5 = l5
    c1 = c1
    c2 = c2
    Leases <- MCLeases
    Conversations <- MCConversations
    Conv <- MCConv
    MaxGlobal = 3
    MaxSession = 2
    MaxQueued = 2
    MaxProvider = 3
    SpendLimit = 4
INVARIANTS
    LedgerMatchesLeases
    SpendWithinLimit
PROPERTY
    ImplementsRunSlots
