SPECIFICATION FairSpec
CONSTANTS
    empty = empty
    none = none
    p = p
    a = a
    s = s
    t = t
    h1 = h1
    h2 = h2
    Handlers = {h1, h2}
    Requests <- MCRequests
    TxID <- MCTxID
    Empty = empty
    NoTx = none
    GenesisTxs = {a}
    Chain <- MCChain
    RewardedIn <- MCRewardedIn
    GenesisTime = 1
    WeakMemory = TRUE
    MaxFaults = 1
CHECK_DEADLOCK FALSE
INVARIANTS TypeOK DependenciesComplete SendNeverBlocks NoOrphans FinalOnceFollowed NoSpuriousError
PROPERTY EveryRequestAnswered
