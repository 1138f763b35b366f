SPECIFICATION Spec
CONSTANTS
    p1 = p1
    p2 = p2
    p3 = p3
    Pools <- MCPools
    Trader = trader
    Bot = bot
    FeeNumerator = 7
    FeeDenominator = 8
    Width = 9
    MaxAmountInB = 3
    MinProfitB = 0
    MinOutputBps = 9
    BpsDenominator = 10
    SqrtBits = 15
    Amounts = {0, 3, 5}
    Gifts = {2}
    Chains <- MCChains
    MaxSteps = 3
CHECK_DEADLOCK FALSE
INVARIANTS
    Solvent
    SupplyConserved
    PredictionExact
    PredictionExecutes
    SqrtExact
PROPERTIES
    ProductNeverFalls
    NothingLeftBehind
