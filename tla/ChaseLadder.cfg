SPECIFICATION LadderSpec
CONSTANTS
    Entries <- EntryPrices
    Originals <- OriginalQuotes
    Asks <- AskPrices
    MaxPairCost = 9900
    DeadZoneAt = 5
    LastTick = 6
INVARIANTS ChaseWithinCap CapReachedAtDeadZone
PROPERTY CeilingRises
