SPECIFICATION Spec
CONSTANTS
    Tx <- MoveTx
    TxIn <- MoveIn
    TxOut <- MoveOut
    Token <- MoveToken
    MaxBadge = 3
    Worker = {w1, w2}
    Requests <- MoveRequests
SYMMETRY WorkerSymmetry
INVARIANTS SettledComplete OrphansAreStale Sound ClosedIsSettled IllegalVinIsFinal
PROPERTY Refinement
