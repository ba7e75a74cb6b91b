SPECIFICATION EngineSpec
CONSTANTS
    s1 = s1
    s2 = s2
    w1 = w1
    w2 = w2
    Keep = Keep
    Slugs = {s1, s2}
    Sides <- BothSides
    Wallets = {w1, w2}
    Blank = Blank
    Funder = Blank
    Relayer = w1
    InitialMode = "live"
    InitialWallet = w1
    Requests <- LiveRequests
    Faults = {}
    MaxCalls = 1
CHECK_DEADLOCK FALSE
INVARIANTS
    MarketsManaged
    ProfitSound
    BalanceLocked
