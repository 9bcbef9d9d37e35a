SPECIFICATION Spec
CONSTANTS
    MaxBadge = 2
    MaxTx = 3
    MaxVin = 2
    MaxVout = 2
INVARIANT SpentAreGone
CHECK_DEADLOCK FALSE
