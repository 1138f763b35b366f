SPECIFICATION Spec
CONSTANTS
    UseTls = TRUE
    MaxAttempts = 3
    MaxFaults = 2
    MaxReopens = 1
CHECK_DEADLOCK FALSE
INVARIANTS
    ReaderPresent
    OneChain
    FeedMirrorsSource
PROPERTY ImplementsStream
