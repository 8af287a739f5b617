\* The code of every nesting of three statements, verified and run next to its source.
SPECIFICATION FairSpec
CONSTANTS
    Node <- MCNode
    Programs <- MCPrograms
    Size = 3
    UsedKinds = {"act", "return", "if", "ifElse", "while", "for", "forEver",
                 "match", "matchElse", "loop", "func"}
    Unvalued = {"act", "return", "if", "while", "match"}
INVARIANTS
    BranchesStayInside
    VerifiesExactlyWhenClean
    CleanFailsForLostValues
    RunsAsWritten
PROPERTIES
    KeepsPace
CHECK_DEADLOCK FALSE
