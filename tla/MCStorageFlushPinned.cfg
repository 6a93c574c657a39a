\* A caller flushes while it holds a guard.
CONSTANTS
    MaxPages = 2
    PoolSize = 1
    Guards = {g1, g2}
    MaxBody = 1
    MaxRecords = 4
    MaxCrashes = 1
    FlushWhilePinned = TRUE
    Corrupt = Corrupt
    Torn = Torn
    NoGuard = NoGuard
    NoFrame = NoFrame
    NoPage = NoPage
SPECIFICATION Spec
INVARIANTS
    AckedSurvives
