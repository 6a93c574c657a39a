\* An ON condition on the new table alone.
CONSTANTS
    Word = 8
    TEXT_COLUMN_CAPACITY = 16
    INTEGER_WIDTH = 8
    VALUE_SIZE = 24
    MAX_CATALOG_TABLES = 4
    MAX_CATALOG_COLUMNS = 3
    MaxInserts = 2
    MaxInterrupted = 0
    Statements <- LateResolution
SPECIFICATION Spec
INVARIANTS
    NoLateResolution
