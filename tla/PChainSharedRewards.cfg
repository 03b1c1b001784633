SPECIFICATION Spec
CONSTANTS
    avax = avax
    other = other
    Handlers = {h1}
    MaxId = 2
    Out <- SharedOut
    Asset <- MCAsset
    Currency <- MCCurrency
    AssetOf <- MCAssetOf
    DecimalsOK <- MCDecimalsOK
    Staker <- MCStaker
    StakerInfo <- MCStakerInfo
    Mine = {"v", "d2"}
    FeePct = 150000
    Reqs <- SharedAndRewardsReqs
    PageSize = 2
    MaxUint = 100
    MaxHeight = 2
    MaxTime = 0
    MaxFaults = 1
    Genesis <- SharedGenesis
    FirstId = 1
CHECK_DEADLOCK FALSE
INVARIANTS SharedBalanceCountsOnce RewardsConserved RewardsNotFromTheFuture
