SPECIFICATION Spec
CONSTANTS
    None = None
    MaxConversations = 2
    MaxQuestions = 2
    MaxRuns = 3
    MaxTurns = 2
    MaxAttempts = 3
    MaxWire = 2
INVARIANTS
    OneRunPerCommand
    TabMatchesServer
PROPERTY
    TabComesBack
