SPECIFICATION Spec
CONSTANTS
    avax = avax
    other = other
    Handlers = {h1}
    MaxId = 3
    Out <- CoinsOut
    Asset <- MCAsset
    Currency <- MCCurrency
    AssetOf <- MCAssetOf
    DecimalsOK <- MCDecimalsOK
    Staker = {}
    StakerInfo <- NoStakerInfo
    Mine = {}
    FeePct = 150000
    Reqs <- WrongCurrencyReqs
    PageSize = 2
    MaxUint = 100
    MaxHeight = 1
    MaxTime = 0
    MaxFaults = 1
    Genesis <- MCGenesis
    FirstId = 3
CHECK_DEADLOCK FALSE
INVARIANT OnlyRequestedAssets
