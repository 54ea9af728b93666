SPECIFICATION StreamSpec
CONSTANTS
    r1 = r1
    k1 = k1
    c1 = c1
    q1 = q1
    q2 = q2
    None = None
    Runs <- MCRuns
    Keys <- MCKeys
    Contents <- MCContents
    Requests <- MCRequests
    Cursors <- MCCursors
    MaxStreams = 1
    MaxTurns = 1
    MaxAttempts = 1
    MaxReplayEvents = 6
    MaxReplayBytes = 40
    MaxOutputBytes = 2
    Envelope = 1
    ByteHeadroom = 4
    Texts <- MCShortText
    StepSizes = {}
    SourcesSizes = {1}
CHECK_DEADLOCK FALSE
INVARIANTS
    SlotsAreHeld
    FramesFollowTheLog
    ServerCloseIsComplete
    ExpiryEndsStream
PROPERTIES
    EverySlotComesBack
