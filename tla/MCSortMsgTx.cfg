SPECIFICATION SortSpec
CONSTANTS
    Txid <- MCTxid
    Pre <- MCPre
    MaxLen = 5
    Batches <- MCBatches
INVARIANTS Permutes Sorted AlwaysPlaces
CHECK_DEADLOCK FALSE
