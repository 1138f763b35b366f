SPECIFICATION FairSpec
CONSTANTS
    UseTls = TRUE
    MaxAttempts = 3
INVARIANTS
    TypeOK
    AnswersAreFinal
PROPERTIES
    ImplementsSubmission
    EveryCallReturns
