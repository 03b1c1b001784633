-------------------------- MODULE CChainConstruction --------------------------
(***************************************************************************)
(* Construction of C-chain transactions                                    *)
(* (server/service/service_construction.go, types.go,                      *)
(* contract_call_data.go): clients take what they intend - a transfer of   *)
(* FLR or of a token, an unwrapping of a bridged token, a call of any      *)
(* contract - through the /construction endpoints, check what the server   *)
(* parses, sign, and submit, while others use their accounts.              *)
(*                                                                         *)
(* The server keeps nothing between the calls.  Options, metadata and      *)
(* transactions travel with the client as JSON with hexadecimal numbers    *)
(* of at most 256 bits.  A currency is FLR, the contract of a token, or    *)
(* neither.  Something that may be missing is a sequence of at most one.   *)
(***************************************************************************)
EXTENDS Integers, Sequences, SequencesExt, FiniteSets, TLC

CONSTANTS
    Client,                   \* programs that construct transactions
    Address,                  \* addresses of accounts and contracts
    Contract,                 \* those of token contracts
    BridgeTokenList,          \* configuration: tokens that can be unwrapped
    Intents,                  \* Intents[c]: what c may intend
    GasPrices,                \* what the node may suggest
    Gas,                      \* Gas[method]: what the node estimates
    nativeTransferGasLimit, erc20TransferGasLimit, unwrapGasLimit,
    MaxInt64,                 \* the largest int64
    TopByte, Word,            \* 2^248 and 2^256
    MaxOthers,                \* bound: transactions of other wallets
    MaxFaults                 \* bound: RPCs that fail

(* An intent: operations, the metadata that say what else is meant by them *)
(* (an unwrapping, or a method and its arguments, good if they encode),    *)
(* what the client chose, and the calls made in an older format.           *)
OpType == [type : STRING, acct : STRING, val : Int, cur : STRING]
ArgsType ==
    [good : {FALSE}] \cup [good : BOOLEAN, to : STRING, amount : Nat, chain : Nat, whole : BOOLEAN]
IntentType ==
    [network : {"C", "P"}, ops : Seq(OpType) \ {<<>>}, unwrap : BOOLEAN, method : STRING,
     args : ArgsType, multiplier : Seq(Nat \X (Nat \ {0})), gasPrice : Seq(Int),
     gasLimit : Seq(Int), nonce : Seq(Int), legacy : SUBSET {"options", "signed"}]

Uint64s == 0 .. 2 * MaxInt64 + 1

ASSUME ConstantsAssumption ==
    /\ Contract \subseteq Address /\ BridgeTokenList \subseteq Contract
    /\ "" \notin Address /\ "FLR" \notin Address
    /\ \A c \in Client : Intents[c] \subseteq IntentType
    /\ GasPrices \subseteq Nat
    /\ \A method \in {"", "transfer", "unwrap"} : Gas[method] \in Uint64s
    /\ \A c \in Client : \A i \in Intents[c] : Gas[i.method] \in Uint64s
    /\ MaxInt64 \in Nat /\ TopByte \in Nat /\ Word \in Nat
    /\ 2 * (MaxInt64 + 1) < TopByte /\ TopByte < Word
    /\ {nativeTransferGasLimit, erc20TransferGasLimit, unwrapGasLimit} \subseteq Uint64s
    /\ MaxOthers \in Nat /\ MaxFaults \in Nat

VARIABLES
    offline,   \* configuration: the server has no node
    pc,        \* the client: the endpoint it calls next, or the RPC of its call
    intent,    \* the client: what it intends
    held,      \* the client: what it got from the server
    why,       \* the client: why it gave up
    handled,   \* backends that have answered the client
    pool,      \* the node: transactions that wait
    accepted,  \* the node: transactions in blocks
    nonce,     \* the node: nonce of each account
    others,    \* bound: transactions of other wallets so far
    faults     \* bound: RPCs that have failed

clientVars == <<pc, intent, held, why, handled>>
nodeVars == <<pool, accepted, nonce, others>>
vars == <<offline, clientVars, nodeVars, faults>>

-----------------------------------------------------------------------------
(* Numbers.  JSON carries 256 bits; Uint64 and Int64 keep the low 64 bits. *)

Decodes(n) == n \in 0 .. Word - 1
AllDecode(seq) == \A i \in DOMAIN seq : Decodes(seq[i])
Uint64Unbounded(n) == n
Uint64(n) == n % (2 * (MaxInt64 + 1))
Int64(n) == ((n + MaxInt64 + 1) % (2 * (MaxInt64 + 1))) - (MaxInt64 + 1)

(* Call data: a method and its arguments.  whole: it has the length that   *)
(* the two methods the server knows have.                                  *)
Data(method, args) == [method |-> method, to |-> args.to, amount |-> args.amount,
                       chain |-> args.chain, whole |-> args.whole]
NoData == Data("", [to |-> "", amount |-> 0, chain |-> 0, whole |-> FALSE])

generateErc20TransferData(to, value) ==
    Data("transfer", [to |-> to, amount |-> value, chain |-> 0, whole |-> value < Word])
generateBridgeUnwrapTransferData(value) ==
    Data("unwrap", [to |-> "", amount |-> value, chain |-> 0, whole |-> value < Word])
constructContractCallDataGeneric(method, args) == Data(method, args)

-----------------------------------------------------------------------------
(* Operations, and what is made of them by kind *)

Op(type, acct, val, cur) == [type |-> type, acct |-> acct, val |-> val, cur |-> cur]

isUnwrapRequest(md) == md.unwrap
isGenericContractCall(md) == ~md.unwrap /\ md.method # ""

Description(type, signs) == [type |-> type, signs |-> signs]
Negative == -1
Positive == 1
AnyAmountSign == {-1, 0, 1}

createOperationDescriptionTransfer(type) ==
    <<Description(type, {Negative}), Description(type, {Positive})>>

(* No description: the operations are refused. *)
createTransferOperationDescription(ops) ==
    IF Len(ops) # 2 \/ ops[1].cur # ops[Len(ops)].cur THEN <<>>
    ELSE IF ops[1].cur = "FLR" THEN createOperationDescriptionTransfer("CALL")
    ELSE IF ops[1].cur \in Contract THEN createOperationDescriptionTransfer("ERC20_TRANSFER")
    ELSE <<>>

CreateUnwrapOperationDescription(ops) ==
    IF Len(ops) = 1 /\ ops[1].cur \in BridgeTokenList
    THEN <<Description("ERC20_BURN", {Negative})>> ELSE <<>>

createGenericContractCallOperationDescription(ops) ==
    IF Len(ops) = 2 /\ ops[1].cur = ops[2].cur /\ ops[1].val = 0 /\ ops[2].val = 0
    THEN <<Description("CALL", AnyAmountSign), Description("CALL", AnyAmountSign)>> ELSE <<>>

OperationDescriptions(md, ops) ==
    IF isUnwrapRequest(md) THEN CreateUnwrapOperationDescription(ops)
    ELSE IF isGenericContractCall(md) THEN createGenericContractCallOperationDescription(ops)
    ELSE createTransferOperationDescription(ops)

(* parser.MatchOperations, of as many operations as descriptions: the      *)
(* operations in the order of the descriptions, or none.                   *)
Sign(n) == IF n < 0 THEN Negative ELSE IF n > 0 THEN Positive ELSE 0

MatchOperations(descriptions, ops) ==
    LET fit(seq) == \A i \in DOMAIN descriptions : /\ seq[i].type = descriptions[i].type
                                                   /\ Sign(seq[i].val) \in descriptions[i].signs
    IN  IF descriptions = <<>> THEN <<>>
        ELSE IF fit(ops) THEN ops
        ELSE IF fit(Reverse(ops)) THEN Reverse(ops) ELSE <<>>

(* ... with valid addresses *)
Matches(md, ops) ==
    LET matches == MatchOperations(OperationDescriptions(md, ops), ops)
    IN  IF \A i \in DOMAIN matches : matches[i].acct \in Address THEN matches ELSE <<>>

From(matches) == matches[1].acct
To(matches) == matches[Len(matches)].acct
Amount(matches) == IF Len(matches) = 1 THEN -matches[1].val ELSE matches[2].val

-----------------------------------------------------------------------------
(* Which backend answers.  The P-chain's backend answers for its network,  *)
(* the one for atomic transactions what its operations, options and        *)
(* transactions look like.                                                 *)

Endpoint == {"preprocess", "metadata", "payloads", "parse unsigned", "combine", "parse signed",
             "hash", "submit"}

IsAtomicOpType(type) == type \in {"EXPORT", "IMPORT"}

ShouldHandleRequest(endpoint, i, h) ==
    CASE endpoint \in {"preprocess", "payloads"} -> IsAtomicOpType(i.ops[1].type)
      [] endpoint = "metadata" -> h.options.atomicTxGas
      [] OTHER -> h.format = "rosettaTx"

Backend(endpoint, i, h) ==
    IF i.network = "P" THEN "P"
    ELSE IF ShouldHandleRequest(endpoint, i, h) THEN "atomic" ELSE "C"

-----------------------------------------------------------------------------
(* The client *)

Following(endpoint) ==
    CASE endpoint = "preprocess" -> "metadata"
      [] endpoint = "metadata" -> "payloads"
      [] endpoint = "payloads" -> "parse unsigned"
      [] endpoint = "parse unsigned" -> "sign"
      [] endpoint = "combine" -> "parse signed"
      [] endpoint = "parse signed" -> "hash"
      [] endpoint = "hash" -> "submit"
      [] endpoint = "submit" -> "done"

NoOptions ==
    [from |-> "", to |-> "", value |-> <<>>, multiplier |-> <<>>, gasPrice |-> <<>>,
     gasLimit |-> <<>>, nonce |-> <<>>, cur |-> "", unwrap |-> FALSE, method |-> "",
     data |-> NoData, contract |-> "", atomicTxGas |-> FALSE]
NoMetadata ==
    [nonce |-> 0, gasPrice |-> 0, gasLimit |-> 0, unwrap |-> FALSE, method |-> "", data |-> NoData]
Msg(from, to, value, data) == [from |-> from, to |-> to, value |-> value, data |-> data]
NoMsg == Msg("", "", 0, NoData)
Tx(msg, nnc, price, limit) ==
    [from |-> msg.from, to |-> msg.to, value |-> msg.value, data |-> msg.data,
     nonce |-> nnc, gasPrice |-> price, gasLimit |-> limit]
NoTx == Tx(NoMsg, 0, 0, 0)

(* format is that of the transaction, tx, whose currency goes beside it.   *)
(* seen and estimated are for the properties: the account's nonce at       *)
(* /construction/metadata and the message whose gas was estimated.         *)
NoHeld ==
    [options |-> NoOptions, metadata |-> NoMetadata, fee |-> 0, format |-> "none", tx |-> NoTx,
     cur |-> "", signer |-> "", key |-> "", seen |-> 0, estimated |-> NoMsg]

NoIntent ==
    [network |-> "C", ops |-> <<Op("CALL", "", 0, "FLR")>>, unwrap |-> FALSE, method |-> "",
     args |-> [good |-> FALSE], multiplier |-> <<>>, gasPrice |-> <<>>, gasLimit |-> <<>>,
     nonce |-> <<>>, legacy |-> {}]

Calls(c, endpoint) == pc[c] = endpoint /\ Backend(endpoint, intent[c], held[c]) = "C"
Goto(c, label) == pc' = [pc EXCEPT ![c] = label]
Quiet == UNCHANGED <<offline, intent, nodeVars, faults>>
Reply(c, label, h) ==
    /\ Goto(c, label)
    /\ held' = [held EXCEPT ![c] = h]
    /\ handled' = [handled EXCEPT ![c] = @ \cup {"C"}]
    /\ UNCHANGED why
Fail(c, reason) ==
    /\ Goto(c, "refused")
    /\ why' = [why EXCEPT ![c] = reason]
    /\ handled' = [handled EXCEPT ![c] = @ \cup {"C"}]
    /\ UNCHANGED held

Begin(c) ==
    /\ pc[c] = "idle"
    /\ \E i \in Intents[c] : intent' = [intent EXCEPT ![c] = i]
    /\ Goto(c, "preprocess")
    /\ UNCHANGED <<offline, held, why, handled, nodeVars, faults>>

(* The other backends: what their answers look like to the routing.        *)
Delegate(c) ==
    LET backend == Backend(pc[c], intent[c], held[c])
        format == IF backend = "P" THEN "P-chain tx" ELSE "rosettaTx"
    IN  /\ pc[c] \in Endpoint
        /\ offline => pc[c] \notin {"metadata", "submit"}
        /\ backend # "C"
        /\ Goto(c, Following(pc[c]))
        /\ held' = [held EXCEPT
               ![c].options.atomicTxGas = @ \/ (pc[c] = "preprocess" /\ backend = "atomic"),
               ![c].format = IF pc[c] = "payloads" THEN format ELSE @]
        /\ handled' = [handled EXCEPT ![c] = @ \cup {backend}]
        /\ UNCHANGED why /\ Quiet

(* Without a node two endpoints answer nobody.                             *)
UnavailableOffline(c) ==
    /\ offline
    /\ pc[c] \in {"metadata", "submit"}
    /\ Goto(c, "refused")
    /\ why' = [why EXCEPT ![c] = "offline"]
    /\ UNCHANGED <<held, handled>> /\ Quiet

-----------------------------------------------------------------------------
(* /construction/preprocess *)

createTransferPreprocessOptions(matches) ==
    [NoOptions EXCEPT !.from = From(matches), !.to = To(matches),
                      !.value = <<Amount(matches)>>, !.cur = matches[1].cur]
createUnwrapPreprocessOptions(matches) ==
    [createTransferPreprocessOptions(matches) EXCEPT !.to = "", !.unwrap = TRUE]
createGenericContractCallPreprocessOptions(matches) ==
    [createTransferPreprocessOptions(matches) EXCEPT !.contract = To(matches)]

PreprocessOptions(i, matches) ==
    [(IF isUnwrapRequest(i) THEN createUnwrapPreprocessOptions(matches)
      ELSE IF isGenericContractCall(i) THEN createGenericContractCallPreprocessOptions(matches)
      ELSE createTransferPreprocessOptions(matches))
     EXCEPT !.multiplier = i.multiplier, !.gasPrice = i.gasPrice, !.gasLimit = i.gasLimit,
            !.nonce = i.nonce, !.method = i.method,
            !.data = IF i.method = "" THEN NoData
                     ELSE constructContractCallDataGeneric(i.method, i.args)]

(* Options from a previous version of the server say less.                 *)
LegacyOptions(i, o) == IF "options" \in i.legacy THEN [o EXCEPT !.to = "", !.value = <<>>] ELSE o

Preprocess(c) ==
    LET i == intent[c]
    IN  /\ Calls(c, "preprocess")
        /\ \E matches \in {Matches(i, i.ops)} :
               IF matches = <<>> \/ (i.method # "" /\ ~i.args.good) THEN Fail(c, "invalid")
               ELSE Reply(c, "metadata", [held[c] EXCEPT
                        !.options = LegacyOptions(i, PreprocessOptions(i, matches))])
        /\ Quiet

-----------------------------------------------------------------------------
(* /construction/metadata: the nonce of the account in the latest block,   *)
(* then the price of gas, then what the transaction would use of it.       *)

OptionsDecode(o) == AllDecode(o.value \o o.gasPrice \o o.gasLimit \o o.nonce)

NonceAtNext(acct) == nonce[acct] + 1
NonceAt(acct) == nonce[acct]

Metadata(c) ==
    LET o == held[c].options
    IN  /\ Calls(c, "metadata") /\ ~offline
        /\ IF ~OptionsDecode(o) THEN Fail(c, "invalid")
           ELSE Reply(c, "price", [held[c] EXCEPT
                    !.metadata.nonce = IF o.nonce = <<>> THEN NonceAt(o.from) ELSE Uint64(o.nonce[1]),
                    !.seen = nonce[o.from]])
        /\ Quiet

SuggestedGasPrice(o, price) ==
    IF o.gasPrice # <<>> THEN o.gasPrice[1]
    ELSE IF o.multiplier # <<>> THEN (o.multiplier[1][1] * price) \div o.multiplier[1][2]
    ELSE price

MetadataPrice(c) ==
    /\ pc[c] = "price"
    /\ \E price \in IF held[c].options.gasPrice = <<>> THEN GasPrices ELSE {0} :
           Reply(c, "gas", [held[c] EXCEPT
               !.metadata.gasPrice = SuggestedGasPrice(held[c].options, price)])
    /\ Quiet

(* The node estimates the gas of a message; without one there is a default. *)
EstimateGas(msg) == [msg |-> msg, limit |-> Gas[msg.data.method]]
Default(limit) == [msg |-> NoMsg, limit |-> limit]

getNativeTransferGasLimit(o) ==
    IF o.to = "" \/ o.value = <<>> THEN Default(nativeTransferGasLimit)
    ELSE EstimateGas(Msg(o.from, o.to, o.value[1], NoData))
getErc20TransferGasLimit(o) ==
    IF o.to = "" \/ o.value = <<>> \/ o.cur \notin Contract THEN Default(erc20TransferGasLimit)
    ELSE EstimateGas(Msg(o.from, o.cur, 0, generateErc20TransferData(o.to, o.value[1])))
getBridgeUnwrapTransferGasLimit(o) ==
    IF o.value = <<>> \/ o.cur \notin Contract THEN Default(unwrapGasLimit)
    ELSE EstimateGas(Msg(o.from, o.cur, 0, generateBridgeUnwrapTransferData(o.value[1])))
getGenericContractCallGasLimit(o) == EstimateGas(Msg(o.from, o.contract, 0, o.data))

GasLimit(o) ==
    IF o.gasLimit # <<>> THEN Default(Uint64(o.gasLimit[1]))
    ELSE IF o.cur = "FLR" THEN IF o.contract # "" THEN getGenericContractCallGasLimit(o)
                               ELSE getNativeTransferGasLimit(o)
    ELSE IF o.unwrap THEN getBridgeUnwrapTransferGasLimit(o)
    ELSE IF o.contract # "" THEN getGenericContractCallGasLimit(o)
    ELSE getErc20TransferGasLimit(o)

MetadataOfOptionsNoMethod(md, o, limit) ==
    [md EXCEPT !.gasLimit = limit, !.unwrap = o.unwrap, !.data = o.data]
MetadataOfOptions(md, o, limit) ==
    [md EXCEPT !.gasLimit = limit, !.unwrap = o.unwrap, !.data = o.data, !.method = o.method]

MetadataGas(c) ==
    LET o == held[c].options
        price == held[c].metadata.gasPrice
    IN  /\ pc[c] = "gas"
        /\ \E gas \in {GasLimit(o)} :
               Reply(c, "payloads", [held[c] EXCEPT
                   !.metadata = MetadataOfOptions(@, o, gas.limit),
                   !.fee = Int64(Int64(price) * Int64(gas.limit)),
                   !.estimated = gas.msg])
        /\ Quiet

(* An RPC that one of these steps needs fails.                             *)
NeedsNode(c) ==
    LET o == held[c].options
    IN  \/ Calls(c, "metadata") /\ OptionsDecode(o) /\ o.nonce = <<>>
        \/ pc[c] = "price" /\ o.gasPrice = <<>>
        \/ pc[c] = "gas" /\ GasLimit(o).msg # NoMsg

MetadataFault(c) ==
    /\ ~offline /\ NeedsNode(c)
    /\ faults < MaxFaults /\ faults' = faults + 1
    /\ Fail(c, "rpc")
    /\ UNCHANGED <<offline, intent, nodeVars>>

-----------------------------------------------------------------------------
(* /construction/payloads *)

createTransferPayloadValue(matches) ==
    IF matches[1].cur = "FLR" THEN Msg(From(matches), To(matches), Amount(matches), NoData)
    ELSE Msg(From(matches), matches[1].cur, Amount(matches),
             generateErc20TransferData(To(matches), Amount(matches)))
createTransferPayload(matches) ==
    IF matches[1].cur = "FLR" THEN Msg(From(matches), To(matches), Amount(matches), NoData)
    ELSE Msg(From(matches), matches[1].cur, 0,
             generateErc20TransferData(To(matches), Amount(matches)))
createUnwrapPayload(matches) ==
    Msg(From(matches), matches[1].cur, 0, generateBridgeUnwrapTransferData(Amount(matches)))
createGenericContractCallPayload(md, matches) ==
    Msg(From(matches), To(matches), Amount(matches), md.data)

UnsignedMessage(md, matches) ==
    IF isUnwrapRequest(md) THEN createUnwrapPayload(matches)
    ELSE IF isGenericContractCall(md) THEN createGenericContractCallPayload(md, matches)
    ELSE createTransferPayload(matches)

Payloads(c) ==
    LET md == held[c].metadata
    IN  /\ Calls(c, "payloads")
        /\ \E matches \in {Matches(md, intent[c].ops)} :
               IF matches = <<>> \/ ~Decodes(md.gasPrice) THEN Fail(c, "invalid")
               ELSE Reply(c, "parse unsigned", [held[c] EXCEPT
                        !.tx = Tx(UnsignedMessage(md, matches), md.nonce, md.gasPrice, md.gasLimit),
                        !.format = "unsigned", !.cur = matches[1].cur, !.signer = From(matches)])
        /\ Quiet

-----------------------------------------------------------------------------
(* /construction/parse, and what the client makes of it.  No operations:   *)
(* an error.  Both methods are read without the top byte of the amount.    *)

Move(type, from, to, amount, cur) == <<Op(type, from, -amount, cur), Op(type, to, amount, cur)>>

parseErc20TransferData(data) ==
    IF data.whole THEN <<[to |-> data.to, amount |-> data.amount % TopByte]>> ELSE <<>>
parseUnwrapData(data) ==
    IF data.whole /\ Uint64(data.chain % TopByte) = 0 THEN <<data.amount % TopByte>> ELSE <<>>

createTransferOps(tx, cur) ==
    LET parsed == parseErc20TransferData(tx.data)
    IN  IF tx.data.method = "" THEN Move("CALL", tx.from, tx.to, tx.value, cur)
        ELSE IF parsed = <<>> THEN <<>>
        ELSE Move("ERC20_TRANSFER", tx.from, parsed[1].to, parsed[1].amount, cur)
createUnwrapOps(tx, cur) ==
    LET parsed == parseUnwrapData(tx.data)
    IN  IF parsed = <<>> THEN <<>> ELSE <<Op("ERC20_BURN", tx.from, -parsed[1], cur)>>
createGenericContractCallOps(tx, cur) == Move("CALL", tx.from, tx.to, tx.value, cur)

ParsedOps(tx, cur) ==
    IF ~Decodes(tx.value) THEN <<>>
    ELSE IF tx.data.method \in {"", "transfer"} THEN createTransferOps(tx, cur)
    ELSE IF tx.data.method = "unwrap" THEN createUnwrapOps(tx, cur)
    ELSE createGenericContractCallOps(tx, cur)

AsIntended(ops, i) == ops \in {i.ops, Reverse(i.ops)}

ParseUnsigned(c) ==
    /\ Calls(c, "parse unsigned")
    /\ \E ops \in {ParsedOps(held[c].tx, held[c].cur)} :
           IF ops = <<>> THEN Fail(c, "invalid")
           ELSE IF ~AsIntended(ops, intent[c]) THEN Fail(c, "not as intended")
           ELSE Reply(c, "sign", held[c])
    /\ Quiet

(* The client signs, perhaps with the wrong key.                           *)
SignPayload(c) ==
    /\ pc[c] = "sign"
    /\ \E key \in Address \ Contract : held' = [held EXCEPT ![c].key = key]
    /\ Goto(c, "combine")
    /\ UNCHANGED <<why, handled>> /\ Quiet

(* The sender is no part of a signed transaction: it follows from the key. *)
(* A previous version of the server did not put the currency beside it.    *)
Combine(c) ==
    /\ Calls(c, "combine")
    /\ Reply(c, "parse signed", [held[c] EXCEPT
           !.tx.from = held[c].key,
           !.format = IF "signed" \in intent[c].legacy THEN "signed tx" ELSE "wrapper"])
    /\ Quiet

WrappedCurrency(h) == IF h.format = "signed tx" THEN "FLR" ELSE h.cur

ParseSigned(c) ==
    LET h == held[c]
    IN  /\ Calls(c, "parse signed")
        /\ \E ops \in {ParsedOps(h.tx, WrappedCurrency(h))} :
               IF ops = <<>> THEN Fail(c, "invalid")
               ELSE IF h.tx.from # h.signer \/ ~AsIntended(ops, intent[c])
                    THEN Fail(c, "not as intended")
               ELSE Reply(c, "hash", h)
        /\ Quiet

Hash(c) == Calls(c, "hash") /\ Reply(c, "submit", held[c]) /\ Quiet

-----------------------------------------------------------------------------
(* /construction/submit, and the node's pool: for each nonce of an account *)
(* the transaction that pays most.                                         *)

Rivals(tx) == {t \in pool : t.from = tx.from /\ t.nonce = tx.nonce}

SendError(tx) ==
    IF tx \in pool THEN "already known"
    ELSE IF tx.nonce < nonce[tx.from] THEN "nonce too low"
    ELSE IF \E t \in Rivals(tx) : t.gasPrice >= tx.gasPrice THEN "underpriced"
    ELSE "none"

SendTransaction(tx) ==
    /\ pool' = (pool \ Rivals(tx)) \cup {tx}
    /\ UNCHANGED <<accepted, nonce, others>>

Submit(c) ==
    LET tx == held[c].tx
    IN  /\ Calls(c, "submit") /\ ~offline
        /\ IF SendError(tx) # "none" THEN Fail(c, SendError(tx)) /\ UNCHANGED nodeVars
           ELSE Reply(c, "done", held[c]) /\ SendTransaction(tx)
        /\ UNCHANGED <<offline, intent, faults>>

(* The request or the answer of the node is lost.                          *)
SubmitFault(c) ==
    LET tx == held[c].tx
    IN  /\ Calls(c, "submit") /\ ~offline
        /\ faults < MaxFaults /\ faults' = faults + 1
        /\ \/ UNCHANGED nodeVars
           \/ SendError(tx) = "none" /\ SendTransaction(tx)
        /\ Fail(c, "rpc")
        /\ UNCHANGED <<offline, intent>>

(* The client cannot tell, and submits again.                              *)
Resubmit(c) ==
    /\ pc[c] = "refused" /\ why[c] = "rpc" /\ held[c].format \in {"wrapper", "signed tx"}
    /\ Goto(c, "submit")
    /\ why' = [why EXCEPT ![c] = "none"]
    /\ UNCHANGED <<held, handled>> /\ Quiet

(* The transaction that would take a nonce beyond its type stays out.      *)
AcceptNonce(acct) ==
    /\ nonce[acct] + 1 \in Uint64s
    /\ nonce' = [nonce EXCEPT ![acct] = @ + 1]
    /\ pool' = {t \in pool : t.from # acct \/ t.nonce > nonce[acct]}

AcceptBlock ==
    /\ \E tx \in pool :
           /\ tx.nonce = nonce[tx.from]
           /\ AcceptNonce(tx.from)
           /\ accepted' = accepted \cup {tx}
    /\ UNCHANGED <<offline, clientVars, others, faults>>

(* A transaction that the account's owner made with another program.       *)
OtherWallet(acct) ==
    /\ others < MaxOthers /\ others' = others + 1
    /\ AcceptNonce(acct)
    /\ UNCHANGED <<offline, clientVars, accepted, faults>>

-----------------------------------------------------------------------------
Init ==
    /\ offline \in BOOLEAN
    /\ pc = [c \in Client |-> "idle"]
    /\ intent = [c \in Client |-> NoIntent]
    /\ held = [c \in Client |-> NoHeld]
    /\ why = [c \in Client |-> "none"]
    /\ handled = [c \in Client |-> {}]
    /\ pool = {} /\ accepted = {}
    /\ nonce = [a \in Address |-> IF a \in Contract THEN 1 ELSE 0]
    /\ others = 0 /\ faults = 0

ClientStep(c) ==
    \/ Begin(c) \/ Delegate(c) \/ UnavailableOffline(c)
    \/ Preprocess(c) \/ Metadata(c) \/ MetadataPrice(c) \/ MetadataGas(c) \/ MetadataFault(c)
    \/ Payloads(c) \/ ParseUnsigned(c) \/ SignPayload(c) \/ Combine(c) \/ ParseSigned(c)
    \/ Hash(c) \/ Submit(c) \/ SubmitFault(c) \/ Resubmit(c)

Next ==
    \/ \E c \in Client : ClientStep(c)
    \/ AcceptBlock
    \/ \E acct \in Address \ Contract : OtherWallet(acct)

Spec == Init /\ [][Next]_vars

(* The node goes on to build blocks while transactions wait.               *)
FairSpec == Spec /\ WF_vars(AcceptBlock)

-----------------------------------------------------------------------------
(* Properties *)

(* What the server reads of options and metadata fits the types it has for *)
(* it: nonce and gas limit are uint64, the suggested fee is an int64.      *)
TypeOK ==
    /\ offline \in BOOLEAN
    /\ \A c \in Client :
           /\ intent[c] \in Intents[c] \cup {NoIntent}
           /\ held[c].metadata.nonce \in Uint64s /\ held[c].metadata.gasLimit \in Uint64s
           /\ held[c].fee \in -(MaxInt64 + 1) .. MaxInt64
           /\ why[c] # "none" <=> pc[c] = "refused"
           /\ handled[c] \subseteq {"C", "P", "atomic"}
    /\ \A t1, t2 \in pool : t1.from = t2.from /\ t1.nonce = t2.nonce => t1 = t2
    /\ \A t \in pool : t.nonce >= nonce[t.from]
    /\ others \in 0 .. MaxOthers /\ faults \in 0 .. MaxFaults

(* What a transaction does on the chain: it may pay FLR, and it may move   *)
(* or burn tokens or call any other method.                                *)
Did(what, from, to, amount, data) ==
    [what |-> what, from |-> from, to |-> to, amount |-> amount, data |-> data]
Effect(tx) ==
    LET d == tx.data
    IN  (IF tx.value # 0 \/ d.method = "" THEN {Did("FLR", tx.from, tx.to, tx.value, NoData)} ELSE {})
        \cup (CASE d.method = "" -> {}
                [] d.method = "transfer" -> {Did(tx.to, tx.from, d.to, d.amount, NoData)}
                [] d.method = "unwrap" -> {Did(tx.to, tx.from, "burnt", d.amount, NoData)}
                [] OTHER -> {Did("call", tx.from, tx.to, 0, d)})

Payer(ops) == CHOOSE i \in DOMAIN ops : ops[i].val < 0
Payee(ops) == CHOOSE i \in DOMAIN ops : ops[i].val > 0
Intended(i) ==
    LET first == i.ops[1]
    IN  IF i.unwrap THEN {Did(first.cur, first.acct, "burnt", -first.val, NoData)}
        ELSE IF i.method # "" THEN {Did("call", first.acct, i.ops[2].acct, 0, Data(i.method, i.args))}
        ELSE {Did(first.cur, i.ops[Payer(i.ops)].acct, i.ops[Payee(i.ops)].acct,
                  i.ops[Payee(i.ops)].val, NoData)}

Confirmed(c) ==
    /\ held[c].format \in {"wrapper", "signed tx"}
    /\ \/ pc[c] \in {"hash", "submit", "done"}
       \/ why[c] \in {"rpc", "already known", "nonce too low", "underpriced"}
Keeps(given, used) == given # <<>> /\ given[1] \in Uint64s => used = given[1]

(* A transaction that its client submits after both looks at what          *)
(* /construction/parse makes of it does just what the client intended,     *)
(* even what parsing cannot see: the FLR a token transfer would pay, the   *)
(* contract it calls, the top byte of an amount.  It comes from the        *)
(* account that pays, keeps the gas price, gas limit and nonce that the    *)
(* client chose, is the message whose gas was estimated, and the fee       *)
(* suggested for it was what it may cost, as far as an int64 can tell.     *)
IntentConfirmed ==
    \A c \in Client : Confirmed(c) =>
        LET h == held[c]
            i == intent[c]
        IN  /\ Effect(h.tx) = Intended(i)
            /\ Keeps(i.nonce, h.tx.nonce) /\ Keeps(i.gasLimit, h.tx.gasLimit)
            /\ Keeps(i.gasPrice, h.tx.gasPrice)
            /\ h.estimated # NoMsg =>
                   h.estimated = Msg(h.tx.from, h.tx.to, h.tx.value, h.tx.data)
            /\ h.tx.gasPrice <= MaxInt64 /\ h.tx.gasLimit <= MaxInt64
               /\ h.tx.gasPrice * h.tx.gasLimit <= MaxInt64
               => h.fee = h.tx.gasPrice * h.tx.gasLimit

(* A client asks for what the endpoints support: two operations that move  *)
(* FLR or a token, one that burns a bridged token, or two empty ones and a *)
(* method that is not one of those two.  The price of gas it may be given  *)
(* fits, and only FLR is signed for in the older format.                   *)
Moves(ops, type, amounts) ==
    /\ Len(ops) = 2 /\ ops[1].cur = ops[2].cur /\ ops[1].val + ops[2].val = 0
    /\ \A k \in 1 .. 2 : ops[k].type = type /\ ops[k].acct \in Address
    /\ \E k \in 1 .. 2 : ops[k].val \in amounts
Supported(i) ==
    /\ AllDecode(i.gasPrice \o i.gasLimit \o i.nonce)
    /\ \A price \in GasPrices : Decodes(SuggestedGasPrice(i, price))
    /\ "signed" \in i.legacy => i.ops[1].cur = "FLR"
    /\ IF i.unwrap
       THEN /\ i.method = "" /\ Len(i.ops) = 1
            /\ i.ops[1].cur \in BridgeTokenList /\ i.ops[1].acct \in Address
            /\ i.ops[1].type = "ERC20_BURN" /\ -i.ops[1].val \in 1 .. TopByte - 1
       ELSE IF i.method # ""
       THEN i.method \notin {"transfer", "unwrap"} /\ i.args.good /\ Moves(i.ops, "CALL", {0})
       ELSE \/ i.ops[1].cur = "FLR" /\ Moves(i.ops, "CALL", 1 .. Word - 1)
            \/ i.ops[1].cur \in Contract /\ Moves(i.ops, "ERC20_TRANSFER", 1 .. TopByte - 1)

Answers(i) ==
    IF i.network = "P" THEN "P" ELSE IF i.ops[1].type \in {"EXPORT", "IMPORT"} THEN "atomic" ELSE "C"

(* A supported intent that is signed with the right key is turned down     *)
(* only for what happens at the node: no endpoint rejects what another     *)
(* endpoint made for the same intent.  A nonce the server suggested is too *)
(* low only when the account has sent something since.  And all the calls  *)
(* of one flow are answered by one and the same backend, though each call  *)
(* is routed by what it carries.                                           *)
HonestFlowsGetThrough ==
    \A c \in Client :
        LET i == intent[c]
            h == held[c]
        IN  /\ why[c] # "none" /\ Supported(i) =>
                   \/ why[c] \in {"offline", "rpc", "already known", "underpriced"}
                   \/ why[c] = "nonce too low" /\ (i.nonce = <<>> => nonce[h.signer] > h.seen)
                   \/ why[c] = "not as intended" /\ h.key \notin {"", h.signer}
            /\ handled[c] \subseteq {Answers(i)}

(* A transaction with the nonce that the server suggested does not wait    *)
(* forever in the pool: it gets into a block unless another transaction    *)
(* with its nonce does.                                                    *)
AcceptedUnlessRaced ==
    \A c \in Client :
        (Confirmed(c) /\ held[c].tx \in pool /\ intent[c].nonce = <<>>)
            ~> held[c].tx \notin pool
=============================================================================
