\* The abstract page store, and the end of recovery; one frame makes every
\* second page an eviction.
CONSTANTS
    MaxPages = 2
    PoolSize = 1
    Guards = {g1, g2}
    MaxBody = 1
    MaxRecords = 4
    MaxCrashes = 2
    FlushWhilePinned = FALSE
    Corrupt = Corrupt
    Torn = Torn
    NoGuard = NoGuard
    NoFrame = NoFrame
    NoPage = NoPage
SPECIFICATION FairSpec
PROPERTIES
    ImplementsPageStore
    LogOnlyGrows
    RecoveryCompletes
