SPECIFICATION Spec
CONSTANTS
    MaxBlock = 1
    MaxSeq = 2
    MaxEpoch = 0
    NumPools = 2
    MaxFaults = 1
    MaxRewinds = 0
    Capacity = 2
    Relevant = {1, 2}
INVARIANTS
    TypeOK
    CoherentView
    InvalidationReported
    NoLostWakeup
    EndsOnlyWhenStopped
    NoSilentLoss
PROPERTIES
    ImplementsFeed
