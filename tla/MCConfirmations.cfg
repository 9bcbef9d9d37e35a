SPECIFICATION FairSpec
CONSTANTS
    Tx <- OneTx
    Out <- OneOut
    CheckDepth = 1
    SpentDepth = 2
    MaxReorg = 2
    MaxLag = 1
    MaxFaults = 2
    StartTip = 3
    MaxTip = 7
INVARIANTS SpentIsNoUtxo SpentHasSpender
PROPERTIES OrphanForGood ChainFollowed BuriedIsMarked
