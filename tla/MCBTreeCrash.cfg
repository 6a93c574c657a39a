\* Crashes between any two log records of an Insert, and pools too small for
\* a descent or a split; Insert under weak fairness of its own steps.
CONSTANTS
    Key = {1, 2, 3, 4, 5}
    Value = {v1}
    Absent = Absent
    NoPage = NoPage
    NoNode = NoNode
    LEAF_MAX_KEYS = 2
    INTERNAL_MAX_KEYS = 2
    PoolSizes = {2, 4}
    MaxPages = 9
    MaxOps = 6
    MaxCrashes = 2
SPECIFICATION FairSpec
INVARIANTS
    NoDangling
    Walkable
    KeysRouteHome
    NodesAreSorted
    Balanced
    GetIsRight
PROPERTIES
    InsertReturns
