SPECIFICATION ClientSpec
CONSTANTS
    r1 = r1
    k1 = k1
    c1 = c1
    q1 = q1
    q2 = q2
    None = None
    Runs <- MCRuns
    Keys <- MCKeys
    Contents <- MCContents
    Requests <- MCRequests
    Stream = q1
    Poll = q2
    TheRun = r1
    Cursors <- MCCursors
    MaxStreams = 1
    MaxPollRetries = 1
    MaxUpsets = 1
    MaxInFlight = 2
    HiddenPageRuns = FALSE
    MaxTurns = 1
    MaxAttempts = 1
    MaxReplayEvents = 7
    MaxReplayBytes = 14
    MaxOutputBytes = 2
    Envelope = 1
    ByteHeadroom = 4
    Texts <- MCShortText
    StepSizes = {8}
    SourcesSizes = {1}
CHECK_DEADLOCK FALSE
INVARIANTS
    ShowsCommittedOutcome
    NoFrameRefused
    PollContradictsOnlyCutAnswers
PROPERTIES
    TabSettles
