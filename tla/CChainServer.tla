----------------------------- MODULE CChainServer -----------------------------
(***************************************************************************)
(* The handlers of the C-chain that read: /block, /block/transaction,      *)
(* /account/balance, the coins and balance of atomic UTXOs, /network/      *)
(* status, /mempool and /call (server/service, with the cache of contracts *)
(* of server/client/contract.go and backend/cchainatomictx/account.go).    *)
(*                                                                         *)
(* A handler makes one RPC per step; between two of them the node accepts  *)
(* blocks, chains finish bootstrapping, and other chains export UTXOs.     *)
(* Handlers share the cache of symbols and decimals only.  Blocks are      *)
(* named by their height and hashes by what they are hashes of; block 0 is *)
(* the genesis block.                                                      *)
(***************************************************************************)
EXTENDS CChainOperations

CONSTANTS
    Handlers,              \* goroutines serving requests
    Session,               \* what may happen in a run of the system: see SessionType
    Chain,                 \* the blocks the C-chain accepts, in this order: txs and atomic, see CChainOperations
    BaseFee,               \* of the header of each block, None in those before Apricot phase 3
    Account,               \* accounts of the C-chain
    Token,                 \* addresses of contracts
    Info,                  \* symbol ("" for none) and decimals of each of them
    Exports,               \* UTXOs the P- and X-chain export, in this order
    isAnalyticsMode,
    TokenWhiteList,
    IndexUnknownTokens,
    CacheSize,             \* contractCacheSize
    getUTXOsPageSize,
    MaxFaults              \* bound: number of RPCs that fail

Height == 0 .. Len(Chain)
Source == {"P", "X"}
None == -1

(* A request names its block by index n, hash h, both, or neither; that of *)
(* a transaction by both, if it names one.  A request that names none may  *)
(* still have a block identifier (identified), which is empty.             *)
Request == {q \in
    [kind : {"block", "transaction", "balance", "coins", "atomic", "status",
             "pstatus", "mempool", "call"},
     n : Height \cup {None}, h : Height \cup {None}, identified : BOOLEAN,
     tx : Nat, acct : Account,
     curs : Seq([symbol : STRING, decimals : Nat, contract : Token \cup {zeroAddress}])] :
        q.kind = "transaction" => (q.n = None <=> q.h = None)}

(* A session: whether the server has no node, where the node's chains      *)
(* start and end, which have bootstrapped, and what each handler is asked. *)
NodeType == [height : Height, exports : [Source -> Nat]]
SessionType == [offline : BOOLEAN, start : NodeType, end : NodeType,
                boot : SUBSET {"C", "X", "P"}, requests : [Handlers -> SUBSET Request]]
GoesOn(s) ==
    /\ s.start.height <= s.end.height
    /\ \A src \in Source : /\ s.start.exports[src] <= s.end.exports[src]
                          /\ s.end.exports[src] <= Len(Exports[src])

(* What is told apart of the blocks: the logs of transactions are of       *)
(* tokens, transactions have identifiers and terms for the price of their  *)
(* gas, and cross-chain ones amounts.                                      *)
EventLog == [transfer : BOOLEAN, token : Token, topics : Nat, from : Account \cup {zeroAddress},
             to : Account \cup {zeroAddress}, val : Nat]
HasAmounts(s) == s \in Seq({x \in Range(s) : x.amount \in Nat /\ x.flr \in BOOLEAN})
HasPrice(tx) ==
    /\ tx.from \in Account
    /\ tx.gasUsed \in Nat /\ tx.feeCap \in Nat /\ tx.tip \in Nat /\ tx.ftsoTxFee \in Nat
WellFormed(block) ==
    /\ block.txs \in Seq({tx \in Range(block.txs) :
            tx.id \in Nat /\ tx.logs \in Seq(EventLog) /\ HasPrice(tx)})
    /\ block.atomic \in Seq({tx \in Range(block.atomic) :
            tx.type \in {"IMPORT", "EXPORT"} /\ HasAmounts(tx.ins) /\ HasAmounts(tx.outs)})

(* What the transactions of the chain did to balances in FLR *)
Txs == UNION {Range(Chain[n].txs) : n \in DOMAIN Chain}
NativeEffect(tx, acct) == IF acct \in DOMAIN tx.effect THEN tx.effect[acct] ELSE 0

ASSUME ConstantsAssumption ==
    /\ zeroAddress \notin Account \cup Token /\ burnAddress \in Account
    /\ Session \subseteq SessionType /\ \A s \in Session : GoesOn(s)
    /\ Chain \in Seq({block \in Range(Chain) : WellFormed(block)})
    /\ BaseFee \in [Height -> Nat \cup {None}]
    /\ Info \in [Token -> [symbol : STRING, decimals : Nat]]
    /\ Exports \in [Source -> Seq([id : Nat, amount : Nat])]
    /\ \A s, t \in Source : \A i \in DOMAIN Exports[s], j \in DOMAIN Exports[t] :
            Exports[s][i].id = Exports[t][j].id => s = t /\ i = j
    /\ isAnalyticsMode \in BOOLEAN /\ IndexUnknownTokens \in BOOLEAN
    /\ TokenWhiteList \subseteq Token
    /\ CacheSize \in Nat \ {0}
    /\ getUTXOsPageSize \in Nat \ {0, 1}
    /\ MaxFaults \in Nat

(* TransactionToMessage: the price of gas under a header, of which one     *)
(* without a base fee leaves the transaction's own; with it, the fee, and  *)
(* the operations that need no token.  Block n is the one the header is    *)
(* of, and nothing makes sure that it is the transaction's.                *)
GasPrice(tx, n) ==
    IF BaseFee[n] = None \/ tx.tip + BaseFee[n] > tx.feeCap THEN tx.feeCap
    ELSE tx.tip + BaseFee[n]
MinedOps(tx, n) ==
    NativeOps(tx, txFee(tx, tx.gasUsed * GasPrice(tx, n), tx.ftsoTxFee), init(tx.trace))

(* Transactions are told apart by their identifiers, and their traces are  *)
(* ones that traceOps reads right: CChainTrace says which, and that the    *)
(* operations it makes of those are numbered and, with the fee of the      *)
(* transaction's own block, replay to the effect.                          *)
FlareOp == [index : Nat, type : STRING, acct : Account, val : Int, cur : {FlareCurrency},
            ok : BOOLEAN, related : Int]
OfBlock(tx, n) == n \in DOMAIN Chain /\ tx \in Range(Chain[n].txs)

ASSUME ChainAssumption ==
    /\ \A tx, other \in Txs : tx.id = other.id => tx = other
    /\ \A tx \in Txs : \A ops \in {traceOps(init(tx.trace), 2)} :
        /\ ops \in Seq(FlareOp)
        /\ \A i \in DOMAIN ops : ops[i].index = i + 1
    /\ \A n \in DOMAIN Chain : \A tx \in Range(Chain[n].txs) : \A acct \in Account :
        Applied(MinedOps(tx, n), acct, FlareCurrency) = NativeEffect(tx, acct)

VARIABLES
    session,    \* the one of Session that this is
    accepted,   \* the node: height of the last accepted block
    boot,       \* chains that have finished bootstrapping
    exported,   \* number of UTXOs exported by each chain
    faults,     \* number of RPCs that failed so far
    misread,    \* contracts whose symbol or decimals could not be read once
    cache,      \* ContractClient.cache, the least recently used first
    pc,         \* where each handler is
    req,        \* the request it serves
    since,      \* the node when it arrived
    local,      \* the handler's variables
    resp        \* its response

nodeVars == <<accepted, boot, exported>>
vars == <<session, accepted, boot, exported, faults, misread, cache, pc, req, since, local, resp>>

NoLocal == [block |-> None, txs |-> <<>>, logs |-> <<>>, ops |-> <<>>, done |-> <<>>,
            symbol |-> "", curs |-> <<>>, amounts |-> <<>>, nonce |-> 0,
            flr |-> 0, src |-> "P", cursor |-> 0, coins |-> <<>>, cReady |-> FALSE]
NoResp == [status |-> "none", block |-> None, parent |-> None, txs |-> <<>>,
           amounts |-> <<>>, nonce |-> 0, coins |-> <<>>, stage |-> "none", ids |-> {}]

Goto(r, label) == pc' = [pc EXCEPT ![r] = label]
Set(r, l) == local' = [local EXCEPT ![r] = l]
Reply(r, response) == Goto(r, "done") /\ resp' = [resp EXCEPT ![r] = response]
Ok == [NoResp EXCEPT !.status = "ok"]
Fail(r, err) == Reply(r, [NoResp EXCEPT !.status = err])
Fault == faults < MaxFaults /\ faults' = faults + 1

(* A step of handler r at a label; Continue goes on to the next. *)
At(r, label) == pc[r] = label /\ UNCHANGED <<session, nodeVars, req, since>>
Quiet == UNCHANGED <<faults, misread, cache>>
Continue(r, label, l) == Goto(r, label) /\ Set(r, l) /\ UNCHANGED resp

-----------------------------------------------------------------------------
(* The node *)

InBlock(n) == {Chain[n].txs[i].id : i \in DOMAIN Chain[n].txs}
AcceptedTx(id) == \E n \in 1 .. accepted : id \in InBlock(n)
Pending == IF accepted < Len(Chain) THEN InBlock(accepted + 1) ELSE {}
TxOf(id) == CHOOSE t \in Txs : t.id = id
Ids(txs) == [i \in DOMAIN txs |-> txs[i].id]

Sum(S, F(_)) == FoldLeft(LAMBDA sum, x : sum + F(x), 0, SetToSeq(S))

(* Amounts and nonces at the end of block n, from what the transactions    *)
(* did to them.                                                            *)
TokenMove(log, token, acct) ==
    IF ~log.transfer \/ log.token # token \/ log.topics # 3 \/ log.from = log.to THEN 0
    ELSE IF log.to = acct THEN log.val
    ELSE IF log.from = acct THEN -log.val ELSE 0
TokenMoves(logs, token, acct) == TotalOf([n \in DOMAIN logs |-> TokenMove(logs[n], token, acct)])
TokenEffect(tx, token, acct) == TokenMoves(tx.logs, token, acct)

AtomicMoves(s, acct) ==
    TotalOf([n \in DOMAIN s |-> IF s[n].flr /\ s[n].acct = acct THEN s[n].amount ELSE 0])
AtomicEffect(tx, acct) ==
    X2crate * IF tx.type = "IMPORT" THEN AtomicMoves(tx.outs, acct) ELSE -AtomicMoves(tx.ins, acct)

BalanceOf(n, acct) ==
    Sum(1 .. n, LAMBDA m : FoldLeft(LAMBDA s, t : s + NativeEffect(t, acct), 0, Chain[m].txs)
                         + FoldLeft(LAMBDA s, t : s + AtomicEffect(t, acct), 0, Chain[m].atomic))
TokensOf(n, token, acct) ==
    Sum(1 .. n, LAMBDA m : FoldLeft(LAMBDA s, t : s + TokenEffect(t, token, acct), 0, Chain[m].txs))
NonceOf(n, acct) ==
    Sum(1 .. n, LAMBDA m : Len(Where(Chain[m].txs, LAMBDA t : t.from = acct)))

(* Shared memory: what was exported and not yet imported *)
Imported(n) ==
    UNION {{in.utxo : in \in UNION {Range(t.ins) : t \in {x \in Range(Chain[m].atomic) : x.type = "IMPORT"}}}
           : m \in 1 .. n}
Exported(counts) == UNION {{Exports[src][i].id : i \in 1 .. counts[src]} : src \in Source}
UTXOs(src) == {utxo \in Range(SubSeq(Exports[src], 1, exported[src])) :
                   utxo.id \notin Imported(accepted)}
ById(utxos) ==
    LET ids == Increasing({utxo.id : utxo \in utxos})
    IN  [k \in DOMAIN ids |-> CHOOSE utxo \in utxos : utxo.id = ids[k]]

(* GetAtomicUTXOs: a page in the order of the UTXOs' IDs.  It starts with  *)
(* the last one of the page before.                                        *)
Page(src, cursor) ==
    LET from == ById({utxo \in UTXOs(src) : utxo.id >= cursor})
    IN  SubSeq(from, 1, IF Len(from) < getUTXOsPageSize THEN Len(from) ELSE getUTXOsPageSize)

AcceptBlock ==
    /\ accepted < session.end.height
    /\ Imported(accepted + 1) \subseteq Exported(exported)
    /\ accepted' = accepted + 1
    /\ UNCHANGED <<session, boot, exported, faults, misread, cache, pc, req, since, local, resp>>

FinishBootstrap(chain) ==
    /\ chain \notin boot
    /\ boot' = boot \cup {chain}
    /\ UNCHANGED <<session, accepted, exported, faults, misread, cache, pc, req, since, local, resp>>

Export(src) ==
    /\ exported[src] < session.end.exports[src]
    /\ exported' = [exported EXCEPT ![src] = @ + 1]
    /\ UNCHANGED <<session, accepted, boot, faults, misread, cache, pc, req, since, local, resp>>

-----------------------------------------------------------------------------
(* Requests arrive.  Offline, every handler refuses; a block must be named *)
(* where one is asked for, and an identifier given with a balance request  *)
(* must not be empty.                                                      *)

Wanted(q) == IF q.h # None THEN q.h ELSE q.n
Unnamed(q) == q.kind \in {"block", "transaction"} /\ Wanted(q) = None
EmptyIdentifier(q) == q.kind = "balance" /\ q.identified /\ Wanted(q) = None

First ==
    [block |-> "block", transaction |-> "header", balance |-> "latest", coins |-> "pre",
     atomic |-> "pre", status |-> "peers", pstatus |-> "ppeers", mempool |-> "pool", call |-> "call"]

Receive(r, q) ==
    /\ pc[r] = "idle"
    /\ req' = [req EXCEPT ![r] = q]
    /\ since' = [since EXCEPT ![r] = [accepted |-> accepted, boot |-> boot, exported |-> exported]]
    /\ IF session.offline THEN Fail(r, "offline")
       ELSE IF Unnamed(q) \/ EmptyIdentifier(q) THEN Fail(r, "invalid input")
       ELSE Goto(r, First[q.kind]) /\ UNCHANGED resp
    /\ UNCHANGED <<session, nodeVars, faults, misread, cache, local>>

-----------------------------------------------------------------------------
(* /block and /block/transaction *)

isGenesisBlockRequest(q) == IF q.n # None THEN q.n = 0 ELSE q.h = 0

Genesis(r) ==
    /\ At(r, "block")
    /\ isGenesisBlockRequest(req[r])
    /\ Reply(r, [Ok EXCEPT !.block = 0, !.parent = 0])
    /\ Quiet /\ UNCHANGED local

(* BlockByHash, or BlockByNumber if there is no hash; then HeaderByHash of *)
(* the parent, unless that is the genesis block                            *)
FetchBlock(r) ==
    LET n == Wanted(req[r])
    IN  /\ At(r, "block")
        /\ ~isGenesisBlockRequest(req[r])
        /\ IF n > accepted THEN Fail(r, "not found") /\ UNCHANGED local
           ELSE Continue(r, IF n = 1 THEN "trace" ELSE "parent",
                    [NoLocal EXCEPT !.block = n, !.txs = IF n = 0 THEN <<>> ELSE Ids(Chain[n].txs)])
        /\ Quiet

FetchParent(r) ==
    /\ At(r, "parent")
    /\ IF local[r].block = 0 THEN Fail(r, "client") /\ UNCHANGED local
       ELSE Continue(r, "trace", local[r])
    /\ Quiet

(* BlockTransaction: the header by hash, the transaction by its own; that  *)
(* it is one of the block's is not checked.                                *)
FetchHeader(r) ==
    /\ At(r, "header")
    /\ IF req[r].h > accepted THEN Fail(r, "client") /\ UNCHANGED local
       ELSE Continue(r, "tx", [NoLocal EXCEPT !.block = req[r].h])
    /\ Quiet

FetchTransaction(r) ==
    /\ At(r, "tx")
    /\ IF AcceptedTx(req[r].tx)
       THEN Continue(r, "trace", [local[r] EXCEPT !.txs = <<req[r].tx>>])
       ELSE /\ IF req[r].tx \in Pending THEN Reply(r, Ok) ELSE Fail(r, "client")
            /\ UNCHANGED local
    /\ Quiet

(* What follows once the transactions in l have been mapped *)
Transactions(atomicTxs) ==
    Where(CrossChainTransactions(atomicTxs), LAMBDA t : t.ops # <<>>)

Answer(r, l) ==
    IF req[r].kind = "transaction" THEN [Ok EXCEPT !.block = l.block, !.txs = l.done]
    ELSE [Ok EXCEPT !.block = l.block, !.parent = l.block - 1,
                    !.txs = l.done \o Transactions(Chain[l.block].atomic)]

NextTx(r, l) ==
    /\ Set(r, l)
    /\ IF l.txs # <<>> THEN Goto(r, "receipt") /\ UNCHANGED resp ELSE Reply(r, Answer(r, l))

(* TraceBlockByHash or TraceTransaction *)
FetchTrace(r) == At(r, "trace") /\ NextTx(r, local[r]) /\ Quiet

(* TransactionReceipt, and the operations that need no token, with the fee *)
(* under the header that was asked for                                     *)
FetchReceipt(r) ==
    LET tx == TxOf(Head(local[r].txs))
    IN  /\ At(r, "receipt")
        /\ Continue(r, "log",
                [local[r] EXCEPT
                    !.ops = MinedOps(tx, local[r].block),
                    !.logs = Where(tx.logs, LAMBDA log :
                                       Selected(log, isAnalyticsMode, TokenWhiteList))])
        /\ Quiet

EndOfLogs(r) ==
    LET l == local[r]
    IN  /\ At(r, "log")
        /\ l.logs = <<>>
        /\ NextTx(r, [l EXCEPT !.done = Append(@, [id |-> Head(l.txs), ops |-> l.ops]),
                               !.txs = Tail(@), !.ops = <<>>])
        /\ Quiet

(* GetContractInfo: from the cache, or the symbol and then the decimals    *)
(* from the node, with defaults for those that cannot be read.             *)
Others(token) == Where(cache, LAMBDA e : e.token # token)
Entry(token, symbol, decimals) == [token |-> token, symbol |-> symbol, decimals |-> decimals]
Cached(token) == Where(cache, LAMBDA e : e.token = token)

PutUnbounded(e) == cache' = Append(Others(e.token), e)
Put(e) ==
    LET kept == Others(e.token)
    IN  cache' = Append(IF Len(kept) < CacheSize THEN kept ELSE Tail(kept), e)

MapLog(r, info) ==
    Continue(r, "log",
        [local[r] EXCEPT
            !.ops = @ \o tokenOps(Head(local[r].logs), info, Len(@), IndexUnknownTokens),
            !.logs = Tail(@), !.symbol = ""])

GetCached(r) ==
    /\ At(r, "log")
    /\ local[r].logs # <<>>
    /\ \E i \in DOMAIN cache :
        /\ cache[i].token = Head(local[r].logs).token
        /\ MapLog(r, cache[i])
        /\ Put(cache[i])
    /\ UNCHANGED <<faults, misread>>

Miss(r) ==
    /\ At(r, "log")
    /\ local[r].logs # <<>>
    /\ Cached(Head(local[r].logs).token) = <<>>
    /\ Continue(r, "symbol", local[r])
    /\ Quiet

(* Nothing is cached before both are there. *)
RememberEarly(token, symbol) == Put(Entry(token, symbol, 0))
Remember(token, symbol) == UNCHANGED cache

Symbol(r) ==
    LET log == Head(local[r].logs)
        found(symbol) == IF symbol = "" THEN UnknownSymbol(IsErc20(log)) ELSE symbol
        read(symbol) == /\ Continue(r, "decimals", [local[r] EXCEPT !.symbol = found(symbol)])
                        /\ Remember(log.token, found(symbol))
    IN  /\ At(r, "symbol")
        /\ \/ read(Info[log.token].symbol) /\ UNCHANGED <<faults, misread>>
           \/ read("") /\ Fault /\ misread' = misread \cup {log.token}

Decimals(r) ==
    LET token == Head(local[r].logs).token
        read(decimals) == /\ Put(Entry(token, local[r].symbol, decimals))
                          /\ MapLog(r, Entry(token, local[r].symbol, decimals))
    IN  /\ At(r, "decimals")
        /\ \/ read(Info[token].decimals) /\ UNCHANGED <<faults, misread>>
           \/ read(0) /\ Fault /\ misread' = misread \cup {token}

-----------------------------------------------------------------------------
(* /account/balance *)

(* blockHeaderFromInput: the index is preferred, and the block is the      *)
(* latest if there is no identifier; an empty one has been refused.        *)
headerFromInput(q) == IF q.n # None THEN q.n ELSE IF q.h # None THEN q.h ELSE accepted

FetchBalanceHeader(r) ==
    LET n == headerFromInput(req[r])
    IN  /\ At(r, "latest")
        /\ IF n > accepted THEN Fail(r, "internal") /\ UNCHANGED local
           ELSE Continue(r, "nonce", [NoLocal EXCEPT !.block = n, !.curs = req[r].curs])
        /\ Quiet

(* NonceAt, BalanceAt and CallContract, at the block of the header *)
AtLatest(r) == accepted
AtHeader(r) == local[r].block

NonceAt(r) ==
    /\ At(r, "nonce")
    /\ Continue(r, "balance", [local[r] EXCEPT !.nonce = NonceOf(AtHeader(r), req[r].acct)])
    /\ Quiet

BalanceAt(r) ==
    LET flr == BalanceOf(AtHeader(r), req[r].acct)
        flrOnly == IF local[r].curs = <<>> THEN <<FlareCurrency>> ELSE local[r].curs
    IN  /\ At(r, "balance")
        /\ Continue(r, "token", [local[r] EXCEPT !.curs = flrOnly, !.flr = flr])
        /\ Quiet

CallContract(r) ==
    LET l == local[r]
        amount(value) == [cur |-> Head(l.curs), value |-> value]
        found(value) == Continue(r, "token", [l EXCEPT !.curs = Tail(@),
                                                       !.amounts = Append(@, amount(value))])
    IN  /\ At(r, "token")
        /\ l.curs # <<>>
        /\ IF Head(l.curs) = FlareCurrency THEN found(l.flr)
           ELSE IF Head(l.curs).contract = zeroAddress
           THEN Fail(r, "invalid params") /\ UNCHANGED local
           ELSE found(TokensOf(AtHeader(r), Head(l.curs).contract, req[r].acct))
        /\ Quiet

EndOfCurrencies(r) ==
    /\ At(r, "token")
    /\ local[r].curs = <<>>
    /\ Reply(r, [Ok EXCEPT !.block = local[r].block, !.amounts = local[r].amounts,
                           !.nonce = local[r].nonce])
    /\ Quiet /\ UNCHANGED local

-----------------------------------------------------------------------------
(* /account/coins, and /account/balance of a Bech32 address: the UTXOs in  *)
(* shared memory, page by page, between two looks at the latest header     *)

PreHeader(r) ==
    /\ At(r, "pre")
    /\ Continue(r, "utxos", [NoLocal EXCEPT !.block = accepted])
    /\ Quiet

FetchPage(r) ==
    LET l == local[r]
        page == Page(l.src, l.cursor)
        got == [l EXCEPT !.coins = @ \o page]
    IN  /\ At(r, "utxos")
        /\ IF Len(page) = getUTXOsPageSize
           THEN Continue(r, "utxos", [got EXCEPT !.cursor = Last(page).id])
           ELSE IF l.src = "P"
           THEN Continue(r, "utxos", [got EXCEPT !.src = "X", !.cursor = 0])
           ELSE Continue(r, "post", got)
        /\ Quiet

(* SortUnique: of the coins only *)
SortUnique(coins) == ById(Range(coins))

SameHeaderUnchecked(r) == TRUE
SameHeader(r) == accepted = local[r].block

NewBlockRefetched(r) == Continue(r, "utxos", [NoLocal EXCEPT !.block = local[r].block])
NewBlockReceived(r) == Fail(r, "internal") /\ UNCHANGED local

PostHeader(r) ==
    /\ At(r, "post")
    /\ IF SameHeader(r)
       THEN /\ Reply(r, [Ok EXCEPT !.block = accepted,
                             !.coins = IF req[r].kind = "coins" THEN SortUnique(local[r].coins)
                                       ELSE local[r].coins])
            /\ UNCHANGED local
       ELSE NewBlockReceived(r)
    /\ Quiet

-----------------------------------------------------------------------------
(* /network/status, of the C-chain and of the P-chain (whose height is     *)
(* that of its last export), /mempool and /call                            *)

Peers(r) == At(r, "peers") /\ Continue(r, "cboot", NoLocal) /\ Quiet
PPeers(r) == At(r, "ppeers") /\ Continue(r, "pboot", NoLocal) /\ Quiet

IsCBootstrapped(r) ==
    /\ At(r, "cboot")
    /\ Continue(r, "xboot", [local[r] EXCEPT !.cReady = "C" \in boot])
    /\ Quiet

NotReady == [Ok EXCEPT !.block = 0, !.stage = "BOOTSTRAP"]

IsXBootstrapped(r) ==
    /\ At(r, "xboot")
    /\ IF local[r].cReady /\ "X" \in boot THEN Continue(r, "current", local[r])
       ELSE Reply(r, NotReady) /\ UNCHANGED local
    /\ Quiet

FetchCurrent(r) ==
    /\ At(r, "current")
    /\ Continue(r, "first", [local[r] EXCEPT !.block = accepted])
    /\ Quiet

FetchFirst(r) ==
    /\ At(r, "first")
    /\ Reply(r, [Ok EXCEPT !.block = local[r].block, !.stage = "SYNCED"])
    /\ Quiet /\ UNCHANGED local

IsPBootstrapped(r) ==
    /\ At(r, "pboot")
    /\ IF "P" \in boot THEN Continue(r, "pcurrent", local[r])
       ELSE Reply(r, NotReady) /\ UNCHANGED local
    /\ Quiet

ParseCurrentBlock(r) ==
    /\ At(r, "pcurrent")
    /\ Reply(r, [Ok EXCEPT !.block = exported["P"], !.stage = "SYNCED"])
    /\ Quiet /\ UNCHANGED local

Mempool(r) ==
    /\ At(r, "pool")
    /\ Reply(r, [Ok EXCEPT !.ids = Pending])
    /\ Quiet /\ UNCHANGED local

(* The receipt of an accepted transaction; tx is 0 for a request without   *)
(* one, and h is 0 for another method.                                     *)
callGetTransactionReceipt(r) ==
    /\ At(r, "call")
    /\ IF req[r].h = 0 THEN Fail(r, "invalid method")
       ELSE IF req[r].tx = 0 THEN Fail(r, "invalid params")
       ELSE IF AcceptedTx(req[r].tx) THEN Reply(r, [Ok EXCEPT !.ids = {req[r].tx}])
       ELSE Fail(r, "client")
    /\ Quiet /\ UNCHANGED local

-----------------------------------------------------------------------------
(* Any other RPC fails. *)
RPC == {"block", "parent", "trace", "receipt", "header", "tx", "latest", "nonce", "balance",
        "token", "pre", "utxos", "post", "peers", "cboot", "xboot", "current", "first",
        "ppeers", "pboot", "pcurrent", "pool", "call"}

RPCError(r) ==
    /\ pc[r] \in RPC
    /\ pc[r] = "block" => ~isGenesisBlockRequest(req[r])
    /\ pc[r] = "token" => local[r].curs # <<>> /\ Head(local[r].curs).contract # zeroAddress
    /\ pc[r] = "call" => req[r].h # 0 /\ req[r].tx # 0
    /\ Fault
    /\ Fail(r, "rpc")
    /\ UNCHANGED <<session, nodeVars, misread, cache, req, since, local>>

(* The response is sent; the handler's variables are gone. *)
NoReq == [kind |-> "mempool", n |-> None, h |-> None, identified |-> FALSE, tx |-> 0, acct |-> zeroAddress, curs |-> <<>>]
NoSince == [accepted |-> 0, boot |-> {}, exported |-> [src \in Source |-> 0]]

Finish(r) ==
    /\ pc[r] = "done"
    /\ Goto(r, "idle")
    /\ since' = [since EXCEPT ![r] = NoSince]
    /\ req' = [req EXCEPT ![r] = NoReq]
    /\ local' = [local EXCEPT ![r] = NoLocal]
    /\ resp' = [resp EXCEPT ![r] = NoResp]
    /\ UNCHANGED <<session, nodeVars, faults, misread, cache>>

-----------------------------------------------------------------------------
Init ==
    /\ session \in Session
    /\ accepted = session.start.height
    /\ boot = session.boot
    /\ exported = session.start.exports
    /\ faults = 0
    /\ misread = {}
    /\ cache = <<>>
    /\ pc = [r \in Handlers |-> "idle"]
    /\ req = [r \in Handlers |-> NoReq]
    /\ since = [r \in Handlers |-> NoSince]
    /\ local = [r \in Handlers |-> NoLocal]
    /\ resp = [r \in Handlers |-> NoResp]

Block(r) ==
    \/ Genesis(r) \/ FetchBlock(r) \/ FetchParent(r)
    \/ FetchHeader(r) \/ FetchTransaction(r)
    \/ FetchTrace(r) \/ FetchReceipt(r) \/ EndOfLogs(r)
    \/ GetCached(r) \/ Miss(r) \/ Symbol(r) \/ Decimals(r)

AccountBalance(r) ==
    FetchBalanceHeader(r) \/ NonceAt(r) \/ BalanceAt(r) \/ CallContract(r) \/ EndOfCurrencies(r)

getAccountCoins(r) == PreHeader(r) \/ FetchPage(r) \/ PostHeader(r)

NetworkStatus(r) ==
    \/ Peers(r) \/ IsCBootstrapped(r) \/ IsXBootstrapped(r) \/ FetchCurrent(r) \/ FetchFirst(r)
    \/ PPeers(r) \/ IsPBootstrapped(r) \/ ParseCurrentBlock(r)

Serve(r) ==
    \/ Block(r) \/ AccountBalance(r) \/ getAccountCoins(r) \/ NetworkStatus(r)
    \/ Mempool(r) \/ callGetTransactionReceipt(r) \/ Finish(r)

Next ==
    \/ \E r \in Handlers : \E q \in session.requests[r] : Receive(r, q)
    \/ \E r \in Handlers : Serve(r)
    \/ \E r \in Handlers : RPCError(r)
    \/ AcceptBlock
    \/ \E chain \in {"C", "X", "P"} : FinishBootstrap(chain)
    \/ \E src \in Source : Export(src)

Spec == Init /\ [][Next]_vars

(* Go runs every goroutine and the node answers every RPC. *)
FairSpec == Spec /\ \A r \in Handlers : WF_vars(Serve(r))

-----------------------------------------------------------------------------
(* Type invariant.  The cache holds each contract once and no more of them *)
(* than it has room for.                                                   *)
Label == RPC \cup {"idle", "log", "symbol", "decimals", "done"}

TypeOK ==
    /\ session \in Session
    /\ accepted \in 0 .. session.end.height
    /\ boot \subseteq {"C", "X", "P"}
    /\ \A src \in Source : exported[src] \in 0 .. session.end.exports[src]
    /\ faults \in 0 .. MaxFaults
    /\ misread \subseteq Token
    /\ Len(cache) <= CacheSize
    /\ \A i, j \in DOMAIN cache : cache[i].token = cache[j].token => i = j
    /\ pc \in [Handlers -> Label]
    /\ \A r \in Handlers :
        /\ req[r] \in session.requests[r] \cup {NoReq}
        /\ local[r].block \in Height \cup {None}
        /\ pc[r] = "done" <=> resp[r].status # "none"

(* What the transactions of an answer did to an account: in the operations *)
(* and on the chain.                                                       *)
Answered(r, kinds) == req[r].kind \in kinds /\ resp[r].status = "ok"
Named(token) == ToCurrency(IF Info[token].symbol = "" THEN UnknownERC20Symbol ELSE Info[token].symbol,
                           Info[token].decimals, token)
Shown(token) ==
    /\ isAnalyticsMode \/ token \in TokenWhiteList
    /\ Named(token).symbol # UnknownERC20Symbol \/ IndexUnknownTokens

(* A contract without a symbol that makes logs of both standards is named  *)
(* for the one that was looked up first.                                   *)
Logged(token, topics) ==
    \E tx \in Txs : \E i \in DOMAIN tx.logs :
        tx.logs[i].transfer /\ tx.logs[i].token = token /\ tx.logs[i].topics = topics
Ambiguous == {token \in Token : Info[token].symbol = "" /\ Logged(token, 3) /\ Logged(token, 4)}

(* The FLR of a transaction asked for with block n: all of it, if it is    *)
(* one of the block's.  Of another block's, it is what it would have paid  *)
(* for gas in block n that is charged: of those who pay and the burn       *)
(* address only the sum is right, and all others are.                      *)
FlareRight(tx, ops, n) ==
    /\ \A acct \in Account : OfBlock(tx, n) \/ acct \notin {tx.from, burnAddress} =>
        Applied(ops, acct, FlareCurrency) = NativeEffect(tx, acct)
    /\ Applied(ops, tx.from, FlareCurrency) + Applied(ops, burnAddress, FlareCurrency)
        = NativeEffect(tx, tx.from) + NativeEffect(tx, burnAddress)

TransactionRight(tx, ops, n) ==
    /\ FlareRight(tx, ops, n)
    /\ \A token \in Token \ (misread \cup Ambiguous) :
        \A acct \in Account : Applied(ops, acct, Named(token)) =
            IF Shown(token) THEN TokenEffect(tx, token, acct) ELSE 0
    /\ \A i \in DOMAIN ops :
        /\ ops[i].index = i - 1
        /\ ops[i].cur.contract \in misread \cup Ambiguous \cup {zeroAddress}
           \/ ops[i].cur = Named(ops[i].cur.contract)

(* The fee of a cross-chain transaction is what goes in and does not come  *)
(* out, for those whose outputs are looked at once.                        *)
LookedAtOnce(tx) ==
    \/ tx.type = "IMPORT" /\ \A i \in DOMAIN tx.ins : tx.ins[i].amount <= MaxInt64
    \/ tx.type = "EXPORT" /\ tx.toPChain /\ Len(tx.ins) = 1

CrossChainRight(tx, answer) ==
    /\ \A acct \in Account : Applied(answer.ops, acct, FlareCurrency) = AtomicEffect(tx, acct)
    /\ LookedAtOnce(tx) /\ InFLR(tx.ins) = tx.ins /\ InFLR(tx.outs) = tx.outs =>
        answer.fee = Total(tx.ins) - Total(tx.outs)

Moving(atomicTxs) == Where(atomicTxs, LAMBDA t : crossChainTransaction(t).ops # <<>>)

AnswerMatches(q, answer) ==
    LET b == answer.block
        txs == answer.txs
        plain == IF q.kind = "transaction" THEN IF txs = <<>> THEN <<>> ELSE <<TxOf(q.tx)>>
                 ELSE IF b = 0 THEN <<>> ELSE Chain[b].txs
        cross == IF q.kind = "transaction" \/ b = 0 THEN <<>> ELSE Moving(Chain[b].atomic)
    IN  /\ q.kind = "block" => b \in {q.n, q.h}
        /\ Len(txs) = Len(plain) + Len(cross)
        /\ \A i \in DOMAIN plain :
                txs[i].id = plain[i].id /\ TransactionRight(plain[i], txs[i].ops, b)
        /\ \A i \in DOMAIN cross :
                txs[Len(plain) + i].id = cross[i].id /\ CrossChainRight(cross[i], txs[Len(plain) + i])

(* Replaying an answer gives what its transactions did to the balances of  *)
(* every account, in FLR and in every token that is shown, under the       *)
(* token's own symbol and decimals: whatever was cached or evicted by      *)
(* other handlers, and although a contract's look-up failed (which spoils  *)
(* the operations of that contract only, as do logs of both standards from *)
(* a contract without a symbol).  A block is answered with all of its      *)
(* transactions, and the cross-chain ones that move FLR, in order.  A      *)
(* transaction may be asked for with a block that is not its own: the fee  *)
(* of that answer, and no more, is taken from the wrong header.            *)
OperationsMatchChain ==
    \A r \in Handlers : Answered(r, {"block", "transaction"}) => AnswerMatches(req[r], resp[r])

(* All amounts of a balance, and its nonce, are those of the block it      *)
(* names, whatever is accepted while they are read.  A latest block is at  *)
(* least as new as that of the request's arrival; a status is synced only  *)
(* if the chains are, and not synced only if they were not at arrival.     *)
Fresh(r) == resp[r].block \in since[r].accepted .. accepted

AnswersFitTheirBlock ==
    \A r \in Handlers :
        /\ Answered(r, {"balance"}) =>
            /\ Wanted(req[r]) = None => Fresh(r)
            /\ resp[r].nonce = NonceOf(resp[r].block, req[r].acct)
            /\ \A i \in DOMAIN resp[r].amounts :
                LET amount == resp[r].amounts[i]
                IN  amount.value = IF amount.cur = FlareCurrency
                                   THEN BalanceOf(resp[r].block, req[r].acct)
                                   ELSE TokensOf(resp[r].block, amount.cur.contract, req[r].acct)
        /\ Answered(r, {"status"}) =>
            IF resp[r].stage = "SYNCED" THEN {"C", "X"} \subseteq boot /\ Fresh(r)
            ELSE ~({"C", "X"} \subseteq since[r].boot)
        /\ Answered(r, {"pstatus"}) =>
            IF resp[r].stage = "SYNCED"
            THEN "P" \in boot /\ resp[r].block \in since[r].exported["P"] .. exported["P"]
            ELSE "P" \notin since[r].boot

(* The coins of a Bech32 address at a block: none that was imported up to  *)
(* it, and all others that had been exported when the request arrived,     *)
(* although pages are read while blocks are accepted.  Coins are listed    *)
(* once; a balance counts again the UTXO that a page repeats from the one  *)
(* before, and no other.                                                   *)
CoinsOfTheirBlock ==
    \A r \in Handlers : Answered(r, {"coins", "atomic"}) =>
        LET ids == {coin.id : coin \in Range(resp[r].coins)}
            gone == Imported(resp[r].block)
        IN  /\ ids \cap gone = {}
            /\ Exported(since[r].exported) \ gone \subseteq ids
            /\ ids \subseteq Exported(exported)
            /\ \A i, j \in DOMAIN resp[r].coins :
                i < j /\ resp[r].coins[i].id = resp[r].coins[j].id =>
                    req[r].kind = "atomic" /\ j = i + 1

(* Every request is answered, however many pages and logs there are. *)
EveryRequestAnswered == \A r \in Handlers : pc[r] # "idle" ~> pc[r] = "done"

=============================================================================
