SPECIFICATION Spec
CONSTANTS
    p1 = p1
    p2 = p2
    p3 = p3
    Pools <- MCPools
    Trader = trader
    Bot = bot
    FeeNumerator = 3
    FeeDenominator = 4
    Width = 20
    MaxAmountInB = 40
    MinProfitB = 1
    MinOutputBps = 9
    BpsDenominator = 10
    SqrtBits = 15
    Amounts = {1, 4, 9}
    Gifts = {0}
    Chains <- MCWideChains
    MaxSteps = 2
CHECK_DEADLOCK FALSE
INVARIANT NearOptimal
