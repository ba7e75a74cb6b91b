SPECIFICATION CollectorSpec
CONSTANTS
    p1 = p1
    p2 = p2
    p3 = p3
    up = up
    down = down
    Pids = {p1, p2, p3}
    Requests = {}
    Check = 3
    Stale = 6
    ExternalStale = 3
    BeatMax = 2
    StartMax = 2
    Watchdog = TRUE
    Faults = {"die", "wedge", "probe", "start", "torn"}
    MaxFaults = 3
    MaxRequests = 0
    MaxWindows = 1
    Count = 2
    Duration <- TwoSeries
    Boundary = 20
    Lead = 5
    Stagger = 1
    Steps = 2
    Cooldown = 2
    MaxAge = 4
    WakeLead = 3
    Aligned = TRUE
    StartTimes = {3, 12}
    ListAt = {2, 6}
    MaxGap = 2
    MaxSkew = 1
    LateCalls = TRUE
    PrewarmFails = FALSE
    MaxFails = 1
    MaxReplaced = 0
    MaxTime = 24
CHECK_DEADLOCK FALSE
INVARIANTS
    OneWriter
    HealthyIsKept
    TapeSound
    MarketIsLive
