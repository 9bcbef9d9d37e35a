SPECIFICATION Spec
CONSTANTS
    Tx <- TwoTx
    Out <- TwoOut
    CheckDepth = 1
    SpentDepth = 2
    MaxReorg = 2
    MaxLag = 1
    MaxFaults = 1
    StartTip = 3
    MaxTip = 6
INVARIANT UnconfirmedHeight
