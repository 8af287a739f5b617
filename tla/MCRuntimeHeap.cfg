\* What holds of the heap under the clients a druk process really has.
SPECIFICATION Spec
CONSTANTS
    a = a
    b = b
    c = c
    x = x
    y = y
    Nil = Nil
    Obj <- MCObj
    Slots <- MCSlots
    InitialThreshold = 2
    GrowthFactor = 2
    MinThreshold = 1
    MaxLiterals = 3
    MaxAllocs = 4
SYMMETRY Symmetry
INVARIANTS
    SafeUntilFirstCollection
    HeapStaysSmall
