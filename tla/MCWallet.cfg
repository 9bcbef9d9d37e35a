SPECIFICATION Spec
CONSTANTS
    MaxBadge = 3
    MaxTx = 3
    MaxSends = 2
    User = {alice, bob}
    Sender = alice
    Issues <- MCIssues
    Amounts <- MCAmounts
    Burns <- MCBurns
INVARIANTS BalanceIsHistory UsersShareBalances VinsSuffice PagesCover
PROPERTY SendsExactly
CHECK_DEADLOCK FALSE
