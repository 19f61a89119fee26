CONSTANTS
    a = a
    b = b
    Node = {a, b}
    Milli = 2
    MaxNow = 3
    MaxDraws = 2
    MaxInits = 2
    Delays = {1}
SPECIFICATION Spec
SYMMETRY Symmetry
INVARIANT HalTypeOK
INVARIANT ElapsedIsReal
INVARIANT SleepsShow
INVARIANT StartsSetApart
