\* Three table names for two slots, crashes at every log record.
CONSTANTS
    t1 = t1
    t2 = t2
    t3 = t3
    c1 = c1
    BadName = BadName
    NoPage = NoPage
    Names <- MCNames
    Columns <- MCColumns
    Rows <- MCRows
    TEXT_COLUMN_CAPACITY = 16
    INTEGER_WIDTH = 8
    VALUE_SIZE = 24
    MAX_CATALOG_TABLES = 2
    MAX_CATALOG_COLUMNS = 3
    MaxPages = 6
    MaxCalls = 4
    MaxCrashes = 1
SPECIFICATION Spec
SYMMETRY NameSymmetry
INVARIANTS
    CatalogInv
    CatalogTypeOK
    RootsAreLogged
    TablesAreDisjoint
    HandlesAreCurrent
    ScanIsExact
    RowCountBound
