\* Every interleaving of two guards over three pages and two frames, with two crashes.
CONSTANTS
    MaxPages = 3
    PoolSize = 2
    Guards = {g1, g2}
    MaxBody = 1
    MaxRecords = 4
    MaxCrashes = 2
    FlushWhilePinned = FALSE
    Corrupt = Corrupt
    Torn = Torn
    NoGuard = NoGuard
    NoFrame = NoFrame
    NoPage = NoPage
SPECIFICATION Spec
SYMMETRY GuardSymmetry
INVARIANTS
    StorageInv
    AckedSurvives
    WriteAhead
    CacheIsCurrent
    GuardsArePins
    FramesAreAccountedFor
    NextPageIdIsFresh
