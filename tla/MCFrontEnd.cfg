\* Sentences, faulty texts and arbitrary bytes, through the lexer and the parser.
SPECIFICATION Spec
CONSTANTS
    Unknown = Unknown
    Sources <- MCSources
    Keywords <- MCKeywords
    Operands = 3
    LongestEdited = 5
    LongestBytes = 4
INVARIANTS
    TokensTileSource
    PositionsAreTrue
    DepthIsTrue
    ParsesAsWritten
    HolesAreReported
    CleanIsBalanced
PROPERTY Terminates
CHECK_DEADLOCK FALSE
