\* The bytecode machine: windows, calls, returns and errors.
SPECIFICATION Spec
CONSTANTS
    script = script
    f = f
    g = g
    h = h
    Fn <- MCFn
    Arity <- MCArity
    Name = {}
    ArgNames = {}
    Number = {0, 1}
    MaxFrames = 2
    FrameSlots = 3
    MaxIp = 2
INVARIANTS
    TypeOK
    StackInBounds
    CallersAreUntouched
PROPERTIES
    CallsReturnBalanced
    TraceIsTrue
