\* Every program of two statements over two names, and of four over one.
SPECIFICATION Spec
CONSTANTS
    Names = {"a", "b"}
    Programs <- MCPrograms
    Long = 3
    Short = 2
INVARIANTS
    ErrorsAreUnboundNames
    BindsAsWritten
    NilOnlyToOptions
