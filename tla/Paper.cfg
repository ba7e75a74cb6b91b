SPECIFICATION PaperSpec
CONSTANTS
    Books <- TradingBooks
    Offsets = {200}
    ExitThresh = 500
    ExitReversal = 200
    MaxPairCost = 9900
    QuoteLo = 1000
    QuoteHi = 9000
    WindowLen = 3
    DeadZone = 1
    EntryDelay = 0
    NakedAtExpiry = "close"
    EnableLegChase = TRUE
    Commands = {}
    LastWindow = 1
    PollLag = 1
INVARIANTS
    PositionKnown
    StopArmed
    PairCostBounded
PROPERTIES
    RoundSteps
    EntryGates
CHECK_DEADLOCK FALSE
