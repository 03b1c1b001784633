SPECIFICATION Spec
CONSTANTS
    a = a
    b = b
    Addr = {a, b}
    Outputs <- MCOutputs
    Extras <- OneExtra
    Refund <- RefundA
    MaxIns = 2
    MaxLag = 1
    MaxTxs = 4
CHECK_DEADLOCK FALSE
INVARIANTS TypeOK EveryTransactionParses OperationsNumbered CoinsMatchLedger CoinChangesApply
PROPERTY OperationsNeverChange
