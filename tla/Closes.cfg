SPECIFICATION ClosesSpec
CONSTANTS
    r1 = r1
    r2 = r2
    s1 = s1
    NoRun = NoRun
    MaxTicks = 4
INVARIANTS
    PairBookedOnce
    PairNotAbandoned
    MergedPairUnprotected
PROPERTIES
    EveryLegCloses
    GuardsComeBack
CHECK_DEADLOCK FALSE
