\* The heap: safety, termination of a collection, refinement of Memory.
SPECIFICATION FairSpec
CONSTANTS
    a = a
    b = b
    c = c
    Obj <- MCObj
    InitialThreshold = 2
    GrowthFactor = 2
    MinThreshold = 2
\* The program ends when operator new has no address left.
CHECK_DEADLOCK FALSE
INVARIANTS
    TypeOK
    RootedIsLive
    MarksAreClear
    CountIsExact
    LinkedOnce
    CollectionMakesRoom
PROPERTIES
    CollectionIsExact
    CollectionEnds
    ImplementsMemory
