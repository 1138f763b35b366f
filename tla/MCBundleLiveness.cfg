SPECIFICATION FairSpec
CONSTANTS
    Accounts = {"r", "s"}
    Victims <- TwoSenders
    MaxBlock = 1
    MaxAttempts = 3
    MaxFaults = 2
PROPERTIES
    EveryCandidateFinishes
