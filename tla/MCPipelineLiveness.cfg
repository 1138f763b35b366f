SPECIFICATION FairSpec
CONSTANTS
    MaxBlock = 1
    MaxSeq = 2
    MaxEpoch = 0
    NumPools = 1
    MaxFaults = 2
    MaxRewinds = 0
    Capacity = 1
    Relevant = {2}
PROPERTIES
    EventuallyCurrent
    EventuallyDelivered
