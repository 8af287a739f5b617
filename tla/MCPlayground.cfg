\* Two processes, each started by the page or from a shell.
SPECIFICATION Spec
CONSTANTS
    Runs = 2
    Procs <- MCProcs
    HaveLLVM = TRUE
INVARIANTS
    ZeroMeansDone
    ReadyMeansRan
    OnlyKnownFilesStay
PROPERTY EveryRunEnds
CHECK_DEADLOCK FALSE
