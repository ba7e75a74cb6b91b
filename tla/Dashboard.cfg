SPECIFICATION DashboardSpec
CONSTANTS
    NoRun = NoRun
    Runs = {r1, r2}
    Stops = {s1, s2}
    MaxCompleted = 1
    Malformed = Malformed
    NoFile = NoFile
SYMMETRY Interchangeable
CHECK_DEADLOCK FALSE
INVARIANTS
    GuardsAgree
    
    ReportsSound
    RequestsSound
    FilesSound
