--------------------------- MODULE CChainOperations ---------------------------
(***************************************************************************)
(* How the C-chain mapper turns what a block did into Rosetta operations   *)
(* (server/mapper/transaction.go, with Call.init of server/client/types.go *)
(* and the classes of calls of server/mapper/types.go).                    *)
(*                                                                         *)
(* Operators only: CChainTrace composes them with an EVM and a client,     *)
(* CChainServer with the handlers.  Hashes and metadata that is copied are *)
(* left out.  An amount that is nil is 0, as for a client that adds up.    *)
(***************************************************************************)
EXTENDS Enumeration, SequencesExt, TLC

CONSTANTS
    burnAddress,               \* gets the fees
    ftsoContractAddress,       \* calls of it are refunded
    inflationContractAddress,  \* what it sends has been minted
    zeroAddress,               \* of tokens: minted from it, burnt to it
    X2crate,                   \* of an atomic amount to one of the C-chain
    MaxInt64                   \* the largest int64

ASSUME AmountsAssumption == X2crate \in Nat \ {0} /\ MaxInt64 \in Nat

-----------------------------------------------------------------------------
(* Currencies, and operations.  related is the identifier of the related   *)
(* operation, or -1.                                                       *)
ToCurrency(symbol, decimals, contract) ==
    [symbol |-> symbol, decimals |-> decimals, contract |-> contract]
FlareCurrency == ToCurrency("FLR", 18, zeroAddress)

Op(index, type, acct, val, ok, related) ==
    [index |-> index, type |-> type, acct |-> acct, val |-> val, cur |-> FlareCurrency,
     ok |-> ok, related |-> related]

LastIndex(ops) == ops[Len(ops)].index

(* A client adds up the successful operations of each account. *)
Adds(op, acct, cur) == IF op.ok /\ op.acct = acct /\ op.cur = cur THEN op.val ELSE 0
Adding(ops, acct, cur) == [n \in DOMAIN ops |-> Adds(ops[n], acct, cur)]
Applied(ops, acct, cur) == TotalOf(Adding(ops, acct, cur))

-----------------------------------------------------------------------------
(* Traces: the calls of a transaction in the order they were made; parent  *)
(* is the position of the call they were made from, or 0.  What goes       *)
(* through them once is a function of how many of them are done.           *)

CallType == {"CALL", "CALLCODE", "DELEGATECALL", "STATICCALL"}
CreateType == {"CREATE", "CREATE2"}

(* Call.init: what is called by a reverted call is reverted with it. *)
Reverts(trace) ==
    LET revert[i \in DOMAIN trace] ==
            trace[i].error \/ (trace[i].parent # 0 /\ revert[trace[i].parent])
    IN  revert

Initialised(trace, revert) ==
    [i \in DOMAIN trace |->
        [type |-> trace[i].type, from |-> trace[i].from, to |-> trace[i].to,
         value |-> trace[i].value, revert |-> revert[i]]]

initOwnErrorOnly(trace) == Initialised(trace, [i \in DOMAIN trace |-> trace[i].error])
init(trace) == Initialised(trace, Reverts(trace))

(* shouldAdd: calls that carry no value are left out, other types are not. *)
shouldAdd(call) == call.value # 0 \/ call.type \notin CallType

fromInflation(call) == call.from = inflationContractAddress

(* What SELFDESTRUCT sends to the contract itself is lost: no operation.   *)
ToItself(call) == call.type = "SELFDESTRUCT" /\ call.from = call.to

callOps(call, index) ==
    LET value == IF fromInflation(call) THEN 0 ELSE -call.value
        from == Op(index, call.type, call.from, value, ~call.revert, -1)
        to == Op(index + 1, call.type, call.to, call.value, ~call.revert, index)
    IN  IF ~shouldAdd(call) THEN <<>> ELSE IF ToItself(call) THEN <<from>> ELSE <<from, to>>

(* destroyedAccounts: what accounts hold that destroyed themselves earlier *)
(* in the trace.  The three updates of it, in the order of the code.       *)
Notes(destroyed, acct, amount, call) ==
    IF acct \in DOMAIN destroyed /\ ~call.revert
    THEN [destroyed EXCEPT ![acct] = @ + amount]
    ELSE destroyed

Paid(destroyed, call) ==
    IF fromInflation(call) THEN destroyed ELSE Notes(destroyed, call.from, -call.value, call)

Marked(destroyed, call) ==
    IF call.type = "SELFDESTRUCT"
    THEN [acct \in DOMAIN destroyed \cup {call.from} |->
             IF acct = call.from THEN 0 ELSE destroyed[acct]]
    ELSE destroyed

Received(destroyed, call) ==
    LET kept == IF call.type \in CreateType THEN DOMAIN destroyed \ {call.to} ELSE DOMAIN destroyed
    IN  IF ToItself(call) THEN destroyed
        ELSE Notes([acct \in kept |-> destroyed[acct]], call.to, call.value, call)

UpdateMarkedFirst(destroyed, call) == Received(Paid(Marked(destroyed, call), call), call)
Update(destroyed, call) == Received(Marked(Paid(destroyed, call), call), call)

destroyedAfter(calls) ==
    LET after[n \in 0 .. Len(calls)] ==
            IF n = 0 THEN [acct \in {} |-> 0] ELSE Update(after[n - 1], calls[n])
    IN  after

destroyedAccounts(calls) == destroyedAfter(calls)[Len(calls)]

(* What the destroyed accounts still hold is taken away at the end, in the *)
(* order of a map, which is any.  A negative amount ends the process.      *)
destructOps(destroyed, lastIndex) ==
    LET order == SetToSeq({acct \in DOMAIN destroyed : destroyed[acct] # 0})
    IN  [n \in DOMAIN order |->
            Op(lastIndex + n, "DESTRUCT", order[n], -destroyed[order[n]], TRUE, -1)]

Fatal(calls) ==
    LET destroyed == destroyedAccounts(calls)
    IN  \E acct \in DOMAIN destroyed : destroyed[acct] < 0

opsAfter(calls, startIndex) ==
    LET after[n \in 0 .. Len(calls)] ==
            IF n = 0 THEN <<>>
            ELSE LET done == after[n - 1] IN done \o callOps(calls[n], Len(done) + startIndex)
    IN  after

traceOps(calls, startIndex) ==
    LET ops == opsAfter(calls, startIndex)[Len(calls)]
    IN  IF ops = <<>> THEN <<>>
        ELSE ops \o destructOps(destroyedAccounts(calls), LastIndex(ops))

-----------------------------------------------------------------------------
(* The fee of a transaction, and its operations without those of tokens *)

txFee(tx, fee, ftsoTxFee) ==
    IF tx.to = ftsoContractAddress /\ tx.success /\ tx.lowGas THEN ftsoTxFee ELSE fee

feeOpsToZero(sender, fee) ==
    <<Op(0, "FEE", sender, -fee, TRUE, -1), Op(1, "FEE", zeroAddress, fee, TRUE, 0)>>

feeOps(sender, fee) ==
    <<Op(0, "FEE", sender, -fee, TRUE, -1), Op(1, "FEE", burnAddress, fee, TRUE, 0)>>

NativeOpsFromZero(tx, fee, calls) == feeOps(tx.from, fee) \o traceOps(calls, 0)
NativeOps(tx, fee, calls) == feeOps(tx.from, fee) \o traceOps(calls, 2)

-----------------------------------------------------------------------------
(* Token operations, one log of a transfer at a time *)

UnknownERC20Symbol == "ERC20_UNKNOWN"
UnknownERC721Symbol == "ERC721_UNKNOWN"
UnknownSymbol(erc20) == IF erc20 THEN UnknownERC20Symbol ELSE UnknownERC721Symbol

TokenOp(index, type, acct, val, cur, related) ==
    [Op(index, type, acct, val, TRUE, related) EXCEPT !.cur = cur]

(* erc20Ops and erc721Ops: the latter have no amount, and no currency. *)
NoCurrency == ToCurrency("", 0, zeroAddress)

erc20Ops(log, cur, opsLen) ==
    IF log.from = zeroAddress THEN <<TokenOp(opsLen, "ERC20_MINT", log.to, log.val, cur, -1)>>
    ELSE IF log.to = zeroAddress THEN <<TokenOp(opsLen, "ERC20_BURN", log.from, -log.val, cur, -1)>>
    ELSE <<TokenOp(opsLen, "ERC20_TRANSFER", log.from, -log.val, cur, -1),
           TokenOp(opsLen + 1, "ERC20_TRANSFER", log.to, log.val, cur, opsLen)>>

erc721Ops(log, opsLen) ==
    IF log.from = zeroAddress THEN <<TokenOp(opsLen, "ERC721_MINT", log.to, 0, NoCurrency, -1)>>
    ELSE IF log.to = zeroAddress THEN <<TokenOp(opsLen, "ERC721_BURN", log.from, 0, NoCurrency, -1)>>
    ELSE <<TokenOp(opsLen, "ERC721_SENDER", log.from, 0, NoCurrency, -1),
           TokenOp(opsLen + 1, "ERC721_RECEIVE", log.to, 0, NoCurrency, opsLen)>>

(* The logs that Transaction looks at: transfers of tokens, which in       *)
(* standard mode must be listed, with the topics of one of the standards.  *)
Selected(log, isAnalyticsMode, standardModeWhiteList) ==
    /\ log.transfer
    /\ isAnalyticsMode \/ log.token \in standardModeWhiteList
    /\ log.topics \in {3, 4}

IsErc20(log) == log.topics = 3

tokenOps(log, info, opsLen, includeUnknownTokens) ==
    LET cur == ToCurrency(info.symbol, info.decimals, log.token)
    IN  IF info.symbol = UnknownSymbol(IsErc20(log)) /\ ~includeUnknownTokens THEN <<>>
        ELSE IF IsErc20(log) THEN erc20Ops(log, cur, opsLen)
        ELSE erc721Ops(log, opsLen)

-----------------------------------------------------------------------------
(* Cross-chain transactions *)

AsInt64(n) == IF n > MaxInt64 THEN n - 2 * (MaxInt64 + 1) ELSE n
Total(seq) == TotalOf([n \in DOMAIN seq |-> seq[n].amount])
InFLR(seq) == Where(seq, LAMBDA x : x.flr)

(* createExportedOuts: what the other chain gets, in its own unit *)
createExportedOuts(outs) == [n \in DOMAIN outs |-> [acct |-> outs[n].acct, val |-> outs[n].amount, out |-> n]]

(* An import credits accounts; inputs of any asset count for the fee. *)
importOps(tx) ==
    LET outs == InFLR(tx.outs)
    IN  [ops |-> [n \in DOMAIN outs |->
                     Op(n - 1, "IMPORT", outs[n].acct, outs[n].amount * X2crate, TRUE, -1)],
         exported |-> <<>>,
         fee |-> TotalOf([n \in DOMAIN tx.ins |-> AsInt64(tx.ins[n].amount)]) - Total(outs)]

(* An export debits them.  What is exported to the P-chain is added, and   *)
(* taken from the fee, once for every input.                               *)
exportOps(tx) ==
    LET ins == InFLR(tx.ins)
        times == IF tx.toPChain THEN Len(ins) ELSE 0
        outs == FlattenSeq([n \in 1 .. times |-> createExportedOuts(tx.outs)])
    IN  [ops |-> [n \in DOMAIN ins |->
                     Op(n - 1, "EXPORT", ins[n].acct, -(ins[n].amount * X2crate), TRUE, -1)],
         exported |-> [n \in DOMAIN outs |-> outs[n] @@ [index |-> Len(ins) + n - 1]],
         fee |-> Total(ins) - times * Total(tx.outs)]

crossChainTransaction(tx) == IF tx.type = "IMPORT" THEN importOps(tx) ELSE exportOps(tx)

CrossChainTransactions(atomicTxs) ==
    [n \in DOMAIN atomicTxs |->
        LET tx == crossChainTransaction(atomicTxs[n])
        IN  [id |-> atomicTxs[n].id, ops |-> tx.ops, exported |-> tx.exported, fee |-> tx.fee]]

=============================================================================
