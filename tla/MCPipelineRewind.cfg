SPECIFICATION Spec
CONSTANTS
    MaxBlock = 1
    MaxSeq = 1
    MaxEpoch = 1
    NumPools = 1
    MaxFaults = 1
    MaxRewinds = 1
    Capacity = 1
    Relevant = {1}
PROPERTIES
    ViewsNeverRegress
