SPECIFICATION RetrySpec
CONSTANTS
    avax = avax
    other = other
    Handlers = {h1}
    MaxId = 3
    Out <- BalanceOut
    Asset <- MCAsset
    Currency <- MCCurrency
    AssetOf <- MCAssetOf
    DecimalsOK <- MCDecimalsOK
    Staker = {}
    StakerInfo <- NoStakerInfo
    Mine = {}
    FeePct = 150000
    Reqs <- TotalReqs
    PageSize = 2
    MaxUint = 100
    MaxHeight = 2
    MaxTime = 0
    MaxFaults = 0
    Genesis <- MCGenesis
    FirstId = 3
CHECK_DEADLOCK FALSE
PROPERTIES EveryRequestAnswered RetryServed
