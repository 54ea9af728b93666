SPECIFICATION FairSpec
CONSTANTS
    t1 = t1
    t2 = t2
    p1 = p1
    p2 = p2
    Threads <- MCThreads
    Profiles <- MCProfiles
    MaxFlights = 3
    MaxChanges = 2
CHECK_DEADLOCK FALSE
PROPERTIES
    ReadyIsEarned
    HealthyProbeAdmits
    FlightsLand
