SPECIFICATION Spec
CONSTANTS
    a = a
    b = b
    x = x
    y = y
    Callers <- MCCallers
    Cwds <- MCCwds
    MaxCalls = 2
    MaxOpens = 2
    MaxStrays = 1
INVARIANTS
    TypeOK
    BindsCwd
    NoServerIsLost
PROPERTIES
    OwnAnswers
    EveryCallReturns
