SPECIFICATION FairSpec
CONSTANTS
    h1 = h1
    h2 = h2
    u = u
    v = v
    t = t
    w = w
    nft = nft
    burn = burn
    ftso = ftso
    infl = infl
    zero = zero
    burnAddress = burn
    ftsoContractAddress = ftso
    inflationContractAddress = infl
    zeroAddress = zero
    X2crate = 10
    MaxInt64 = 7
    Handlers = {h1, h2}
    Session <- MCSession
    Chain <- MCChain
    BaseFee <- MCBaseFee
    Account <- MCAccount
    Token = {t, w, nft}
    Info <- MCInfo
    Exports <- MCExports
    isAnalyticsMode = TRUE
    TokenWhiteList = {}
    IndexUnknownTokens = FALSE
    CacheSize = 1
    getUTXOsPageSize = 2
    MaxFaults = 1
CHECK_DEADLOCK FALSE
INVARIANTS TypeOK OperationsMatchChain AnswersFitTheirBlock CoinsOfTheirBlock
PROPERTY EveryRequestAnswered
