\* An unqualified name in ON, with a later table that has it too.
CONSTANTS
    Word = 8
    TEXT_COLUMN_CAPACITY = 16
    INTEGER_WIDTH = 8
    VALUE_SIZE = 24
    MAX_CATALOG_TABLES = 4
    MAX_CATALOG_COLUMNS = 3
    MaxInserts = 7
    MaxInterrupted = 0
    Statements <- WrongColumn
SPECIFICATION Spec
INVARIANTS
    OrderKeepsTheAnswer
