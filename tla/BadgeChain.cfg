SPECIFICATION Spec
CONSTANTS
    MaxBadge = 2
    MaxTx = 3
    MaxVin = 2
    MaxVout = 2
INVARIANTS BalanceIsUnspent FollowsProtocol StuckByIllegalVin NoOverflow
PROPERTY BalanceNeverGrows
CHECK_DEADLOCK FALSE
