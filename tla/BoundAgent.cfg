SPECIFICATION BoundSpec
CONSTANTS
    None = None
    index = index
    doc = doc
    Documents <- MCDocuments
    Index = index
    LocalTestDocument = doc
    Cost <- MCCost
    MaxToolCalls = 2
    MaxToolOutputTokens = 2
    MaxReadTokens = 2
    MaxBatch = 2
    MaxText = 2
    MaxDeltas = 1
INVARIANT
    AnswerCitesWhatItSaw
PROPERTY
    ImplementsAgentPort
CHECK_DEADLOCK FALSE
