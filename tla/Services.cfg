SPECIFICATION ServicesSpec
CONSTANTS
    t1 = t1
    p1 = p1
    p2 = p2
    p3 = p3
    r1 = r1
    w1 = w1
    Tokens = {t1}
    Levels = {1}
    Transport = "direct"
    RotateDuringSend = FALSE
    BufferMax = 1
    BackoffCap = 1
    MaxWire = 2
    MaxRotations = 3
    MaxMoves = 0
    MaxPrints = 0
    MaxFaults = 1
PROPERTIES
    StreamsSettle
    CaptureResumes
    PendingEnds
CHECK_DEADLOCK FALSE
