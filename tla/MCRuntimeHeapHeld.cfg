\* A value the running program holds is freed.
SPECIFICATION Spec
CONSTANTS
    a = a
    b = b
    c = c
    x = x
    y = y
    Nil = Nil
    Obj <- MCObj
    Slots <- MCSlots
    InitialThreshold = 2
    GrowthFactor = 2
    MinThreshold = 1
    MaxLiterals = 3
    MaxAllocs = 4
SYMMETRY Symmetry
INVARIANT HeldValuesAreLive
