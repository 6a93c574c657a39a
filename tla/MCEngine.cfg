\* Every SELECT on every database that a few INSERTs reach.
CONSTANTS
    Word = 8
    TEXT_COLUMN_CAPACITY = 16
    INTEGER_WIDTH = 8
    VALUE_SIZE = 24
    MAX_CATALOG_TABLES = 3
    MAX_CATALOG_COLUMNS = 3
    MaxInserts = 5
    MaxInterrupted = 1
    Statements <- MCStatements
SPECIFICATION FairSpec
INVARIANTS
    AnswerIsRight
    JoinsAreClosed
PROPERTIES
    SelectReturns
