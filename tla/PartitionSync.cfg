SPECIFICATION FairSpec
CONSTANTS
    Node = {a, b}
    Tx = {t1}
    Partitions = 2
    Compare = 1
    MaxEvents = 2
INVARIANT RoundCatchesUp
PROPERTY ImplementsTxSpread
