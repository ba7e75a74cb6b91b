SPECIFICATION LiveSpec
CONSTANTS
    Stream = TRUE
    Faults = {"refuse", "lost"}
    NakedAtExpiry = "close"
    PreQuotes = FALSE
    Executors = {}
    MaxOrders = 3
    MaxFaults = 1
    MaxStops = 0
    LastWindow = 1
INVARIANTS OrdersKnown SoldOnce
CHECK_DEADLOCK FALSE
