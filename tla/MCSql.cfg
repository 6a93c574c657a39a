\* The texts of a few statements, with an error in them or not, and every
\* short text.
CONSTANTS
    Letters <- MCLetters
    ToUpper <- MCToUpper
    INT64_MAX = 99
    Sources <- MCSources
    Known <- MCKnown
SPECIFICATION FairSpec
INVARIANTS
    PositionsAreRight
    TokensSpellTheSource
    NothingIsLost
    GroupingIsRight
    ErrorIsFirstBadToken
PROPERTIES
    ParseSQLReturns
CHECK_DEADLOCK FALSE
