SPECIFICATION Spec
CONSTANTS
    u = u
    x = x
    y = y
    n = n
    burn = burn
    infl = infl
    zero = zero
    burnAddress = burn
    ftsoContractAddress = x
    inflationContractAddress = infl
    zeroAddress = zero
    X2crate = 10
    MaxInt64 = 7
    Users = {u}
    Contracts = {x, y, infl}
    Fresh = {n}
    InitialBalance <- MCInitialBalance
    Values = {0, 1}
    Fee = 2
    ftsoTxFee = 1
    Does <- MCDoes
    Cancun = FALSE
    MaxCalls = 5
    MaxTxs = 1
CHECK_DEADLOCK FALSE
INVARIANTS TypeOK ReplayMatchesEVM NeverFatal OperationsNumbered
