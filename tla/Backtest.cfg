SPECIFICATION BacktestSpec
CONSTANTS
    Snaps <- MCSnaps
    Offset = 200
    ExitThresh = 600
    ExitReversal = 200
    MaxPairCost = 9900
    QuoteLo = 1000
    QuoteHi = 9000
    WindowLen = 6
    DeadZone = 2
    EntryDelay = 1
    NakedAtExpiry = "close"
    EnableLegChase = TRUE
    QueueGate = 0
    PairCostGate = 0
    MaxTicks = 6
    MaxStep = 2
CHECK_DEADLOCK FALSE
INVARIANTS
    LedgerSound
    ReplaySound
    SearchSound
PROPERTIES
    FollowsRules
    QuotesHoldAndClose
