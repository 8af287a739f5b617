\* A statement that begins with `=`.
SPECIFICATION Spec
CONSTANTS
    Unknown = Unknown
    Sources <- MCEqual
    Keywords <- MCKeywords
    Operands = 1
    LongestEdited = 0
    LongestBytes = 0
INVARIANT Survives
CHECK_DEADLOCK FALSE
