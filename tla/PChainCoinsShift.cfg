SPECIFICATION Spec
CONSTANTS
    a = a
    b = b
    Addr = {a, b}
    Outputs <- MCOutputs
    Extras <- MCExtras
    Refund <- RefundA
    MaxIns = 1
    MaxLag = 1
    MaxTxs = 3
CHECK_DEADLOCK FALSE
INVARIANT DataValidationPasses
