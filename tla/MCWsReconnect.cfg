SPECIFICATION FairSpec
CONSTANTS
    UseTls = FALSE
    MaxAttempts = 2
    MaxFaults = 4
    MaxReopens = 0
CHECK_DEADLOCK FALSE
INVARIANT GivesUpAfterMaxAttempts
PROPERTY Reconnects
