CONSTANTS
    c1 = c1
    c2 = c2
    c3 = c3
    Context = {c1, c2, c3}
    Word = 4
    MaxCalls = 3
    MaxTime = 9
SPECIFICATION FairSpec
INVARIANT AsmTypeOK
PROPERTY NoUpdateLost
PROPERTY SomeCallReturns
