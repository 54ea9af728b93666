SPECIFICATION Spec
CONSTANTS
    r1 = r1
    r2 = r2
    r3 = r3
    k1 = k1
    k2 = k2
    k3 = k3
    c1 = c1
    None = None
    Runs <- MCThreeRuns
    Keys <- MCThreeKeys
    Contents <- MCContents
    MaxTurns = 2
    MaxAttempts = 3
    MaxReplayEvents = 6
    MaxReplayBytes = 11
    MaxOutputBytes = 2
    Envelope = 1
    ByteHeadroom = 4
    Texts <- MCTexts
    StepSizes = {1}
    SourcesSizes = {1}
SYMMETRY MCSymmetry
CHECK_DEADLOCK FALSE
INVARIANTS
    TranscriptMatchesRuns
    RetryContinuesLineage
    RunEndsInsideCeilings
    WireFormHolds
PROPERTIES
    PreparedIsCurrentHistory
    CommittedIsStable
    ExpiryTailContinuesLog
    ImplementsRunLifecycle
