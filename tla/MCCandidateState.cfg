SPECIFICATION StateSpec
CONSTANTS
    MaxBlock = 2
    MaxSeq = 3
    MaxEpoch = 1
    NumPools = 2
INVARIANTS
    StateTypeOK
    CoherentState
PROPERTIES
    NeverRegresses
