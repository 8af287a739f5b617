\* The bytecode machine: two globals, one of them defined by set_args.
SPECIFICATION Spec
CONSTANTS
    script = script
    f = f
    g = g
    h = h
    Fn = {script}
    Arity <- MCArity
    Name <- MCName
    ArgNames <- MCArgNames
    Number = {0, 1}
    MaxFrames = 1
    FrameSlots = 2
    MaxIp = 1
PROPERTY CacheIsTransparent
