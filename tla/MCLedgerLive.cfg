SPECIFICATION FairSpec
CONSTANTS
    Tx <- IllTx
    TxIn <- IllIn
    TxOut <- IllOut
    Token <- IllToken
    MaxBadge = 3
    Worker = {w1, w2}
    Requests <- IllRequests
PROPERTIES SyncTerminates ClearTerminates
