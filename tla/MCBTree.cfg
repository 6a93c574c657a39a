\* Three levels, updates with a second value, deletes and reopening; the search trees
\* in memory and between any two records of the log; no crash.
CONSTANTS
    Key = {1, 2, 3, 4, 5}
    Value = {v1, v2}
    Absent = Absent
    NoPage = NoPage
    NoNode = NoNode
    LEAF_MAX_KEYS = 2
    INTERNAL_MAX_KEYS = 2
    PoolSizes = {4}
    MaxPages = 9
    MaxOps = 7
    MaxCrashes = 0
SPECIFICATION Spec
INVARIANTS
    BTreeTypeOK
    TreesAreSound
    NodesFit
    GetIsRight
    ScanIsRight
