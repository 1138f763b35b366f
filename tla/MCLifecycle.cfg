SPECIFICATION FairSpec
CONSTANT MaxSignals = 2
INVARIANTS
    TerminatesOnlyIfStoppedInRun
    NoUserAtDestruction
PROPERTIES
    SignalIgnoredOnlyBeforeRun
    SignalEndsProcess
    FailedStartEndsProcess
