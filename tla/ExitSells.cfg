SPECIFICATION Spec
CONSTANTS
    Stream = TRUE
    Faults = {}
    NakedAtExpiry = "close"
    PreQuotes = FALSE
    Executors = {}
    MaxOrders = 5
    MaxFaults = 0
    MaxStops = 0
    LastWindow = 2
INVARIANT ExitIsOfThisWindow
CHECK_DEADLOCK FALSE
