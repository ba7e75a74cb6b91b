SPECIFICATION StreamsSpec
CONSTANTS
    t1 = t1
    t2 = t2
    o1 = o1
    o2 = o2
    o3 = o3
    Tokens = {t1, t2}
    Levels = {1}
    Transport = "direct"
    RotateDuringSend = FALSE
    BufferMax = 1
    BackoffCap = 1
    MaxWire = 2
    MaxRotations = 2
    MaxMoves = 0
    MaxPrints = 0
    MaxFaults = 1
INVARIANTS
    FeedSound
    ClientsSound
CHECK_DEADLOCK FALSE
