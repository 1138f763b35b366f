SPECIFICATION Spec
CONSTANTS
    Accounts = {"s"}
    Victims <- TwoOfOne
    MaxBlock = 2
    MaxAttempts = 2
    MaxFaults = 2
INVARIANTS
    NonceInStep
    MinedAsSimulated
    RecordsMatchChain
