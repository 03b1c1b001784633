SPECIFICATION Spec
CONSTANTS
    avax = avax
    other = other
    Handlers = {h1}
    MaxId = 4
    Out <- BalanceOut
    Asset <- MCAsset
    Currency <- MCCurrency
    AssetOf <- MCAssetOf
    DecimalsOK <- MCDecimalsOK
    Staker = {}
    StakerInfo <- NoStakerInfo
    Mine = {}
    FeePct = 150000
    Reqs <- LedgerReqs
    PageSize = 2
    MaxUint = 8
    MaxHeight = 2
    MaxTime = 1
    MaxFaults = 0
    Genesis <- MCGenesis
    FirstId = 3
CHECK_DEADLOCK FALSE
INVARIANTS TypeOK ReadingInv SnapshotConsistency BalanceOfItsBlock CoinsOfItsBlock
PROPERTY ReadsAreAtomic
