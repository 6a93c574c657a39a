\* A crash inside the first open.
CONSTANTS
    Key = {1, 2, 3, 4}
    Value = {v1}
    Absent = Absent
    NoPage = NoPage
    NoNode = NoNode
    LEAF_MAX_KEYS = 2
    INTERNAL_MAX_KEYS = 2
    PoolSizes = {4}
    MaxPages = 12
    MaxOps = 4
    MaxCrashes = 1
SPECIFICATION Spec
INVARIANTS
    OpenSucceeds
