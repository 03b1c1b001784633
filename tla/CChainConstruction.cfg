SPECIFICATION FairSpec
CONSTANTS
    Client = {"c1", "c2"}
    Address = {"a", "b", "t", "u"}
    Contract = {"t", "u"}
    BridgeTokenList = {"t"}
    Intents <- MCIntents
    GasPrices = {1, 2}
    Gas <- MCGas
    nativeTransferGasLimit = 2
    erc20TransferGasLimit = 5
    unwrapGasLimit = 6
    MaxInt64 = 7
    TopByte = 32
    Word = 64
    MaxOthers = 1
    MaxFaults = 1
CHECK_DEADLOCK FALSE
INVARIANTS TypeOK IntentConfirmed HonestFlowsGetThrough
PROPERTIES AcceptedUnlessRaced
