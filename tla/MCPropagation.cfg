SPECIFICATION FairSpec
CONSTANTS
    Node = {n1, n2}
    Tx <- MCTx
    Ancestors <- MCAncestors
    MaxSends = 5
    MaxRestarts = 1
 
PROPERTIES  OpenForGood
