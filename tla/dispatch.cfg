CONSTANTS
    t1 = t1
    t2 = t2
    f = f
    g = g
    Nothing = Nothing
    Type <- MCType
    Callback <- MCCallback
    MAX_CALLBACKS = 3
    MaxReceived = 2
SPECIFICATION Spec
SYMMETRY Symmetry
INVARIANT DispatchTypeOK
INVARIANT ErrorsWereReceived
PROPERTY ImplementsRegistry
