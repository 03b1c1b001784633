---------------------------- MODULE PChainAccount ----------------------------
(***************************************************************************)
(* The P-chain backend's /account/balance and /account/coins               *)
(* (server/service/backend/pchain/account.go), for one account.            *)
(*                                                                         *)
(* A handler is the goroutine serving one request.  Every step of a        *)
(* handler is one RPC to the node or the indexer together with the local   *)
(* computation up to the next RPC; between two steps the P-chain may       *)
(* accept blocks, the C- and X-chain may export to shared memory, the      *)
(* indexer may fall behind or catch up, and time passes.                   *)
(*                                                                         *)
(* UTXO identifiers are allocated in increasing order.  The node lists     *)
(* UTXOs newest first, a page at a time.                                   *)
(***************************************************************************)
EXTENDS Integers, FiniteSets, Functions

CONSTANTS
    Handlers,     \* goroutines serving requests
    MaxId,        \* bound: number of outputs ever created
    Out,          \* what each output is: see OutputType
    Asset,        \* asset IDs
    Currency,     \* currencies a request may name
    AssetOf,      \* the asset GetAssetDescription reports for a currency
    DecimalsOK,   \* currencies whose decimals match their asset's description
    Staker,       \* identifiers of stakers of the queried node
    StakerInfo,   \* what each staker is: see StakerType
    Mine,         \* stakers whose reward owner is the account
    FeePct,       \* delegation fee of the queried validator, in 1/10^6
    Reqs,         \* requests clients send: a subset of Request
    PageSize,     \* getUTXOsPageSize
    MaxUint,      \* largest value of Go's uint64
    MaxHeight,    \* bound: height of the last block the chain accepts
    MaxTime,      \* bound: last instant of the wall clock
    MaxFaults,    \* bound: number of RPCs that fail
    Genesis,      \* the ledger at height 0
    FirstId       \* first identifier the genesis does not use

UTXO == 1 .. MaxId

OutputType == [kind : {"transfer", "lockout", "opaque"}, asset : Asset,
               amt : Nat, addrs : Nat, lock : Nat, inner : Nat]

StakerType == [role : {"validator", "delegator"}, reward : Nat]

(* GetCurrentValidators asks for one node ID: the primary network has at   *)
(* most one validator of that name.                                        *)
StakersOfNode ==
    {S \in SUBSET Staker :
        \A v, w \in S : StakerInfo[v].role = "validator" /\ StakerInfo[w].role = "validator" => v = w}

Snapshot == [utxos : SUBSET UTXO, stake : SUBSET UTXO, stakers : StakersOfNode]

(* Sub-account of the request; "node" stands for a NodeID-... address and  *)
(* "badnode" for one that does not parse.                                  *)
SubAccount == {"none", "unlocked", "locked_stakeable", "locked_not_stakeable",
               "staked", "shared_memory", "node", "badnode", "unknown"}

Request == [endpoint : {"balance", "coins"}, acct : {"none", "malformed", "ok"},
            atBlock : BOOLEAN, sub : SubAccount, cur : SUBSET Currency]

ASSUME ConstantsAssumption ==
    /\ MaxId \in Nat
    /\ Out \in [UTXO -> OutputType]
    /\ \A u \in UTXO : Out[u].kind = "transfer" => Out[u].inner = 0
    /\ AssetOf \in [Currency -> Asset]
    /\ DecimalsOK \subseteq Currency
    /\ IsFiniteSet(Staker)
    /\ StakerInfo \in [Staker -> StakerType]
    /\ Mine \subseteq Staker
    /\ Reqs \subseteq Request
    /\ PageSize \in Nat \ {0, 1}
    /\ MaxUint \in Nat
    /\ MaxHeight \in Nat
    /\ MaxTime \in Nat
    /\ MaxFaults \in Nat
    /\ Genesis \in Snapshot
    /\ FirstId \in 1 .. MaxId + 1
    /\ \A u \in Genesis.utxos \cup Genesis.stake : u < FirstId

ASSUME FeeAssumption == FeePct \in Nat /\ FeePct <= 1000000

VARIABLES
    height,   \* the node: height of the last accepted P-chain block
    ledger,   \* the node: ledger[h] is the state after block h
    shared,   \* the node: UTXOs exported to the P-chain, by source chain
    nextId,   \* the node: identifier of the next output created
    indexed,  \* the indexer: height of the last block it serves
    now,      \* the wall clock
    faults,   \* number of RPCs that failed so far
    pc,       \* where each handler is
    req,      \* the request it serves
    assets,   \* assetIDs
    pre,      \* preHeight, then the height of the answer
    src,      \* source chain being read
    cursor,   \* startUTXOID
    got,      \* utxoBytes: how often each UTXO was received
    staked,   \* stakedUTXOBytes
    bal,      \* the balance computed, which a balance response carries
    coins,    \* the coins computed, which a coins response carries
    resp      \* the response: an error code, or the height of its block

nodeVars == <<height, ledger, shared, nextId, indexed, now>>
vars == <<height, ledger, shared, nextId, indexed, now, faults,
          pc, req, assets, pre, src, cursor, got, staked, bal, coins, resp>>

-----------------------------------------------------------------------------
(* Pure parts of account.go *)

NoUTXOs == [u \in UTXO |-> 0]
Received(bag) == {u \in UTXO : bag[u] > 0}

(* Skipped are other assets, repeated UTXOs, and outputs of more than one  *)
(* address.                                                                *)
EligibleWithMultisig(u, assetIDs) == assetIDs # {} => Out[u].asset \in assetIDs
Eligible(u, assetIDs) ==
    /\ assetIDs # {} => Out[u].asset \in assetIDs
    /\ Out[u].addrs <= 1

parseWithDuplicates(bag, assetIDs) ==
    [u \in UTXO |-> IF Eligible(u, assetIDs) THEN bag[u] ELSE 0]
parseAndFilterUTXOs(bag, assetIDs) ==
    [u \in UTXO |-> IF bag[u] > 0 /\ Eligible(u, assetIDs) THEN 1 ELSE 0]

(* An output without addresses ends the request in an error, unless the    *)
(* asset filter drops it first.                                            *)
Unparsable(bag, assetIDs) ==
    \E u \in Received(bag) :
        Out[u].kind = "opaque" /\ (assetIDs # {} => Out[u].asset \in assetIDs)

SumOf(bag, S) == SumFunctionOnSet([u \in UTXO |-> bag[u] * Out[u].amt], S)

(* Which of the balances an output counts towards at time t *)
BalanceClass(u, t) ==
    CASE Out[u].kind = "transfer" ->
            IF Out[u].lock <= t THEN "unlocked" ELSE "locked_not_stakeable"
      [] Out[u].kind = "lockout" ->
            IF Out[u].inner > t THEN "locked_not_stakeable"
            ELSE IF Out[u].lock <= t THEN "unlocked" ELSE "locked_stakeable"
      [] OTHER -> "none"

ClassSum(bag, class, t) == SumOf(bag, {u \in UTXO : BalanceClass(u, t) = class})

(* All sums are checked additions: one that exceeds uint64 is an error,    *)
(* whatever the order of the summands.                                     *)
getBalancesWithoutMultisig(bag, t) ==
    LET u == ClassSum(bag, "unlocked", t)
        s == ClassSum(bag, "locked_stakeable", t)
        n == ClassSum(bag, "locked_not_stakeable", t)
    IN  [ok |-> u + s + n <= MaxUint, unlocked |-> u, locked_stakeable |-> s,
         locked_not_stakeable |-> n, total |-> u + s + n]

(* staked += out.Amt on uint64 *)
calculateStakedAmount(outs) ==
    SumOf([u \in UTXO |-> 1], {u \in outs : Out[u].addrs <= 1}) % (MaxUint + 1)

(* fetchBalance followed by the switch of AccountBalance *)
BalanceValue(bag, outs, sub, t) ==
    LET b == getBalancesWithoutMultisig(bag, t)
        s == calculateStakedAmount(outs)
    IN  CASE sub = "unlocked" -> b.unlocked
          [] sub = "locked_stakeable" -> b.locked_stakeable
          [] sub = "locked_not_stakeable" -> b.locked_not_stakeable
          [] sub = "staked" -> s
          [] OTHER -> (b.total + s) % (MaxUint + 1)

(* getPendingRewardsBalance's sums: reward of the validator if addr owns   *)
(* it, the fees it takes from its delegators, and addr's own delegations.  *)
SumOver(f(_), S) == SumFunctionOnSet([x \in Staker |-> f(x)], S)

potentialReward(v) == StakerInfo[v].reward
delegationFee(d) == (StakerInfo[d].reward * FeePct) \div 1000000

delegateRewardRounded(d) == (StakerInfo[d].reward * (1000000 - FeePct)) \div 1000000
delegateReward(d) == StakerInfo[d].reward - delegationFee(d)

PendingRewards(stakers, mine) ==
    LET vals == {v \in stakers : StakerInfo[v].role = "validator"}
        dels == {d \in stakers : StakerInfo[d].role = "delegator"}
    IN  IF vals = {} THEN 0
        ELSE SumOver(potentialReward, vals \cap mine)
             + (IF vals \cap mine = {} THEN 0 ELSE SumOver(delegationFee, dels))
             + SumOver(delegateReward, dels \cap mine)

(* common.SortUnique: coins by identifier, each once *)
SortUnique(bag) == [u \in UTXO |-> IF bag[u] > 0 THEN 1 ELSE 0]

-----------------------------------------------------------------------------
(* The node's UTXO listing.  P-chain UTXOs ("Any") continue after the      *)
(* cursor, or from the start of the list if the cursor is gone; shared     *)
(* memory may repeat the cursor.                                           *)

Source(chain) == IF chain = "Any" THEN ledger[height].utxos ELSE shared[chain]

After(S, cur, repeat) ==
    IF cur \in S THEN {u \in S : u < cur \/ (repeat /\ u = cur)} ELSE S

(* The first PageSize elements of S, newest first *)
IsPage(page, S) ==
    /\ page \subseteq S
    /\ \A u \in page, v \in S \ page : u > v
    /\ \/ page = S /\ Cardinality(page) < PageSize
       \/ Cardinality(page) = PageSize

-----------------------------------------------------------------------------
(* Handlers *)

NoResp == [status |-> "none", code |-> "none", height |-> 0]
NoRequest == [endpoint |-> "balance", acct |-> "none", atBlock |-> FALSE,
              sub |-> "none", cur |-> {}]
ErrorResp(code) == [status |-> "err", code |-> code, height |-> 0]

Goto(r, label) == pc' = [pc EXCEPT ![r] = label]

Reply(r, response) ==
    /\ Goto(r, "done")
    /\ resp' = [resp EXCEPT ![r] = response]

Fail(r, code) == Reply(r, ErrorResp(code))

Fault == faults < MaxFaults /\ faults' = faults + 1

(* Before the first RPC: the checks on the request itself.  A request is   *)
(* served with fresh local variables.                                      *)
EarlyError(q) ==
    IF \/ q.acct = "none"
       \/ q.endpoint = "coins" /\ q.acct = "malformed"
    THEN "InvalidInput"
    ELSE IF q.endpoint = "balance" /\ q.atBlock THEN "NotSupported" ELSE "none"

Receive(r, q) ==
    /\ pc[r] = "idle"
    /\ req' = [req EXCEPT ![r] = q]
    /\ assets' = [assets EXCEPT ![r] = {}]
    /\ pre' = [pre EXCEPT ![r] = 0]
    /\ src' = [src EXCEPT ![r] = "none"]
    /\ cursor' = [cursor EXCEPT ![r] = 0]
    /\ got' = [got EXCEPT ![r] = NoUTXOs]
    /\ staked' = [staked EXCEPT ![r] = {}]
    /\ bal' = [bal EXCEPT ![r] = 0]
    /\ coins' = [coins EXCEPT ![r] = NoUTXOs]
    /\ IF EarlyError(q) # "none"
       THEN Fail(r, EarlyError(q))
       ELSE Goto(r, "assets") /\ UNCHANGED resp
    /\ UNCHANGED <<nodeVars, faults>>

(* After buildCurrencyAssetIDs: the checks on sub-account and address, and *)
(* the branch to getPendingRewardsBalance.                                 *)
Dispatch(r) ==
    IF req[r].endpoint = "balance" /\
        (req[r].acct = "malformed" \/ req[r].sub = "badnode")
    THEN Fail(r, "InvalidInput")
    ELSE /\ IF req[r].endpoint = "balance" /\ req[r].sub = "node"
            THEN Goto(r, "validators") ELSE Goto(r, "pre")
         /\ UNCHANGED resp

Requested(q) == {AssetOf[c] : c \in q.cur}

(* buildCurrencyAssetIDs.  AccountBalance returns its error; AccountCoins  *)
(* tests err instead of wrappedErr, and goes on with the nil set.          *)
FetchAssets(r) ==
    /\ pc[r] = "assets"
    /\ \E error \in {"none", "InternalError", "InvalidInput"} :
        /\ error = "InternalError" => req[r].cur # {}
        /\ error = "InvalidInput" => ~(req[r].cur \subseteq DecimalsOK)
        /\ error = "none" => req[r].cur \subseteq DecimalsOK
        /\ IF error = "InternalError" THEN Fault ELSE UNCHANGED faults
        /\ assets' = [assets EXCEPT ![r] =
                        IF error = "none" THEN Requested(req[r]) ELSE {}]
        /\ IF error # "none" /\ req[r].endpoint = "balance"
           THEN Fail(r, error)
           ELSE Dispatch(r)
    /\ UNCHANGED <<nodeVars, req, pre, src, cursor, got, staked, bal, coins>>

fetchSharedMemory(q) == q.sub = "shared_memory"
fetchStaked(q) == q.endpoint = "balance" /\ ~fetchSharedMemory(q)

(* fetchUTXOsAndStakedOutputs: preHeight *)
GetPreHeightOfNextBlock(r) ==
    /\ pc[r] = "pre"
    /\ pre' = [pre EXCEPT ![r] = height + 1]
    /\ src' = [src EXCEPT ![r] = IF fetchSharedMemory(req[r]) THEN "C" ELSE "Any"]
    /\ Goto(r, "page")
    /\ UNCHANGED <<nodeVars, faults, req, assets, cursor, got, staked, bal, coins, resp>>

GetPreHeight(r) ==
    /\ pc[r] = "pre"
    /\ pre' = [pre EXCEPT ![r] = height]
    /\ src' = [src EXCEPT ![r] = IF fetchSharedMemory(req[r]) THEN "C" ELSE "Any"]
    /\ Goto(r, "page")
    /\ UNCHANGED <<nodeVars, faults, req, assets, cursor, got, staked, bal, coins, resp>>

(* sourceChains: P-chain UTXOs, or those exported by the C- and X-chain *)
NextSourceRepeats(chain) == IF chain = "C" THEN "X" ELSE chain
NextSource(chain) == IF chain = "C" THEN "X" ELSE "none"

AfterUTXOs(r) == IF fetchStaked(req[r]) THEN "stake" ELSE "post"

(* getAccountUTXOs: one page.  A page that is not full is the last one of  *)
(* its source chain; the next source chain starts with a fresh cursor.     *)
LastPage(r) ==
    /\ cursor' = [cursor EXCEPT ![r] = 0]
    /\ src' = [src EXCEPT ![r] = NextSource(src[r])]
    /\ Goto(r, IF NextSource(src[r]) = "none" THEN AfterUTXOs(r) ELSE "page")

FullPageFromFirst(r, page) ==
    /\ \E first \in page : /\ \A u \in page : first >= u
                          /\ cursor' = [cursor EXCEPT ![r] = first]
    /\ UNCHANGED <<src, pc>>

FullPage(r, page) ==
    /\ \E last \in page : /\ \A u \in page : last <= u
                         /\ cursor' = [cursor EXCEPT ![r] = last]
    /\ UNCHANGED <<src, pc>>

IsLastOffByOne(page) == Cardinality(page) <= PageSize
IsLast(page) == Cardinality(page) < PageSize

TakePage(r, page, S) ==
    /\ IsPage(page, S)
    /\ got' = [got EXCEPT ![r] =
            [u \in UTXO |-> IF u \in page THEN got[r][u] + 1 ELSE got[r][u]]]
    /\ IF IsLast(page) THEN LastPage(r) ELSE FullPage(r, page)

GetPage(r) ==
    /\ pc[r] = "page"
    /\ \E repeat \in {FALSE, src[r] # "Any"} :
        LET S == After(Source(src[r]), cursor[r], repeat)
        IN  \E page \in SUBSET S : TakePage(r, page, S)
    /\ UNCHANGED <<nodeVars, faults, req, assets, pre, staked, bal, coins, resp>>

GetStake(r) ==
    /\ pc[r] = "stake"
    /\ staked' = [staked EXCEPT ![r] = ledger[height].stake]
    /\ Goto(r, "post")
    /\ UNCHANGED <<nodeVars, faults, req, assets, pre, src, cursor, got, bal, coins, resp>>

(* What fetchBalance, or AccountCoins, makes of the outputs it received:   *)
(* the error it stops with, and the values it goes on with.                *)
ComputeError(r) ==
    LET utxos == parseAndFilterUTXOs(got[r], assets[r])
    IN  IF \/ Unparsable(got[r], assets[r])
           \/ /\ req[r].endpoint = "balance"
              /\ \/ ~getBalancesWithoutMultisig(utxos, now).ok
                 \/ \E u \in staked[r] : Out[u].kind = "opaque"
        THEN "InternalError"
        ELSE IF req[r].endpoint = "balance" /\ req[r].sub = "unknown"
             THEN "InvalidInput" ELSE "none"

Compute(r) ==
    LET utxos == parseAndFilterUTXOs(got[r], assets[r])
    IN  IF req[r].endpoint = "balance"
        THEN /\ bal' = [bal EXCEPT ![r] = BalanceValue(utxos, staked[r], req[r].sub, now)]
             /\ UNCHANGED coins
        ELSE /\ coins' = [coins EXCEPT ![r] = SortUnique(utxos)]
             /\ UNCHANGED bal

(* postHeight, its comparison with preHeight, parsing and summing *)
HeightUnchecked(r) == FALSE
HeightCheckedBackwards(r) == height < pre[r]
HeightMoved(r) == height # pre[r]

GetPostHeight(r) ==
    /\ pc[r] = "post"
    /\ IF HeightMoved(r)
       THEN Fail(r, "InternalError") /\ UNCHANGED <<bal, coins>>
       ELSE IF ComputeError(r) # "none"
            THEN Fail(r, ComputeError(r)) /\ UNCHANGED <<bal, coins>>
            ELSE Compute(r) /\ Goto(r, "index") /\ UNCHANGED resp
    /\ UNCHANGED <<nodeVars, faults, req, assets, pre, src, cursor, got, staked>>

(* getPendingRewardsBalance: the validators first, the height afterwards *)
GetCurrentValidators(r) ==
    /\ pc[r] = "validators"
    /\ bal' = [bal EXCEPT ![r] = PendingRewards(ledger[height].stakers, Mine)]
    /\ Goto(r, "height")
    /\ UNCHANGED <<nodeVars, faults, req, assets, pre, src, cursor, got, staked, coins, resp>>

GetRewardsHeightFromIndexer(r) ==
    /\ pc[r] = "height"
    /\ pre' = [pre EXCEPT ![r] = indexed]
    /\ Goto(r, "index")
    /\ UNCHANGED <<nodeVars, faults, req, assets, src, cursor, got, staked, bal, coins, resp>>

GetRewardsHeight(r) ==
    /\ pc[r] = "height"
    /\ pre' = [pre EXCEPT ![r] = height]
    /\ Goto(r, "index")
    /\ UNCHANGED <<nodeVars, faults, req, assets, src, cursor, got, staked, bal, coins, resp>>

isRewards(q) == q.endpoint = "balance" /\ q.sub = "node"

(* The indexer holds the block of height h at index h - 1 *)
HasBlockOffByOne(h) == 0 < h /\ h < indexed
HasBlock(h) == 0 < h /\ h <= indexed

(* indexerParser.ParseNonGenesisBlock("none", height), and the response: there *)
(* is no block at height 0, and none the indexer has not reached.          *)
ParseNonGenesisBlock(r) ==
    /\ pc[r] = "index"
    /\ IF HasBlock(pre[r])
       THEN Reply(r, [status |-> "ok", code |-> "none", height |-> pre[r]])
       ELSE Fail(r, IF isRewards(req[r]) THEN "InternalError" ELSE "InvalidInput")
    /\ UNCHANGED <<nodeVars, faults, req, assets, pre, src, cursor, got, staked, bal, coins>>

(* The error a failing RPC is reported as, by the place it fails at *)
RPCErrorCode(r) ==
    IF \/ pc[r] \in {"page", "validators", "height"}
       \/ pc[r] = "index" /\ isRewards(req[r])
    THEN "InternalError" ELSE "InvalidInput"

RPCError(r) ==
    /\ pc[r] \in {"pre", "page", "stake", "post", "validators", "height", "index"}
    /\ Fault
    /\ Fail(r, RPCErrorCode(r))
    /\ UNCHANGED <<nodeVars, req, assets, pre, src, cursor, got, staked, bal, coins>>

(* The response is sent; the handler ends *)
Finish(r) ==
    /\ pc[r] = "done"
    /\ Goto(r, "idle")
    /\ resp' = [resp EXCEPT ![r] = NoResp]
    /\ UNCHANGED <<nodeVars, faults, req, assets, pre, src, cursor, got, staked, bal, coins>>

Step(r) ==
    \/ FetchAssets(r)
    \/ GetPreHeight(r)
    \/ GetPage(r)
    \/ GetStake(r)
    \/ GetPostHeight(r)
    \/ GetCurrentValidators(r)
    \/ GetRewardsHeight(r)
    \/ ParseNonGenesisBlock(r)
    \/ Finish(r)

-----------------------------------------------------------------------------
(* The environment *)

handlerVars == <<faults, pc, req, assets, pre, src, cursor, got, staked, bal, coins, resp>>

(* The P-chain accepts a block: it spends UTXOs, imports from shared       *)
(* memory, ends stakings (the staked outputs become UTXOs again) and       *)
(* creates outputs, some of them staked.                                   *)
Block(n, spent, unstaked, imported, stakers, toStake) ==
    /\ nextId' = nextId + n
    /\ shared' = [c \in {"C", "X"} |-> shared[c] \ imported]
    /\ ledger' = [h \in 0 .. height + 1 |->
            IF h <= height THEN ledger[h]
            ELSE [utxos |-> (ledger[height].utxos \ spent) \cup unstaked
                            \cup ((nextId .. nextId + n - 1) \ toStake),
                  stake |-> (ledger[height].stake \ unstaked) \cup toStake,
                  stakers |-> stakers]]

AcceptBlock ==
    /\ height < MaxHeight
    /\ height' = height + 1
    /\ \E n \in 0 .. MaxId + 1 - nextId,
          spent \in SUBSET ledger[height].utxos,
          unstaked \in SUBSET ledger[height].stake,
          imported \in SUBSET (shared["C"] \cup shared["X"]),
          stakers \in StakersOfNode :
        \E toStake \in SUBSET (nextId .. nextId + n - 1) :
            Block(n, spent, unstaked, imported, stakers, toStake)
    /\ UNCHANGED <<indexed, now, handlerVars>>

(* The C- or X-chain accepts a block that exports to the P-chain: shared   *)
(* memory changes, the P-chain's height does not.                          *)
AcceptExport(c) ==
    /\ nextId <= MaxId
    /\ nextId' = nextId + 1
    /\ shared' = [shared EXCEPT ![c] = @ \cup {nextId}]
    /\ UNCHANGED <<height, ledger, indexed, now, handlerVars>>

IndexBlock ==
    /\ indexed < height
    /\ indexed' = indexed + 1
    /\ UNCHANGED <<height, ledger, shared, nextId, now, handlerVars>>

Tick ==
    /\ now < MaxTime
    /\ now' = now + 1
    /\ UNCHANGED <<height, ledger, shared, nextId, indexed, handlerVars>>

-----------------------------------------------------------------------------
Init ==
    /\ height = 0
    /\ ledger = [h \in {0} |-> Genesis]
    /\ shared = [c \in {"C", "X"} |-> {}]
    /\ nextId = FirstId
    /\ indexed = 0
    /\ now = 0
    /\ faults = 0
    /\ pc = [r \in Handlers |-> "idle"]
    /\ req = [r \in Handlers |-> NoRequest]
    /\ assets = [r \in Handlers |-> {}]
    /\ pre = [r \in Handlers |-> 0]
    /\ src = [r \in Handlers |-> "none"]
    /\ cursor = [r \in Handlers |-> 0]
    /\ got = [r \in Handlers |-> NoUTXOs]
    /\ staked = [r \in Handlers |-> {}]
    /\ bal = [r \in Handlers |-> 0]
    /\ coins = [r \in Handlers |-> NoUTXOs]
    /\ resp = [r \in Handlers |-> NoResp]

Next ==
    \/ \E r \in Handlers : \E q \in Reqs : Receive(r, q)
    \/ \E r \in Handlers : Step(r)
    \/ \E r \in Handlers : RPCError(r)
    \/ AcceptBlock
    \/ \E c \in {"C", "X"} : AcceptExport(c)
    \/ IndexBlock
    \/ Tick

Spec == Init /\ [][Next]_vars

(* Go runs every goroutine, the node answers every RPC (with a result or   *)
(* an error) and the indexer keeps reading accepted blocks.                *)
FairSpec ==
    /\ Spec
    /\ \A r \in Handlers : WF_vars(Step(r))
    /\ WF_vars(IndexBlock)

(* In addition, clients repeat their requests. *)
RetrySpec ==
    /\ FairSpec
    /\ \A r \in Handlers : WF_vars(\E q \in Reqs : Receive(r, q))

-----------------------------------------------------------------------------
(* Type invariant: handlers are at one of their RPCs and hold what its     *)
(* place in the code calls for, and no handler knows a height the chain    *)
(* has not reached.                                                        *)
ResponseType == [status : {"none", "ok", "err"},
                 code : {"none", "InternalError", "InvalidInput", "NotSupported"},
                 height : Nat]
Label == {"idle", "assets", "pre", "page", "stake", "post", "validators",
          "height", "index", "done"}

TypeOK ==
    /\ height \in Nat
    /\ ledger \in [0 .. height -> Snapshot]
    /\ shared \in [{"C", "X"} -> SUBSET UTXO]
    /\ nextId \in 1 .. MaxId + 1
    /\ indexed \in 0 .. height
    /\ now \in Nat
    /\ faults \in Nat
    /\ pc \in [Handlers -> Label]
    /\ req \in [Handlers -> Request]
    /\ assets \in [Handlers -> SUBSET Asset]
    /\ pre \in [Handlers -> 0 .. height]
    /\ src \in [Handlers -> {"none", "Any", "C", "X"}]
    /\ \A r \in Handlers : pc[r] = "page" => src[r] # "none"
    /\ cursor \in [Handlers -> UTXO \cup {0}]
    /\ got \in [Handlers -> [UTXO -> Nat]]
    /\ staked \in [Handlers -> SUBSET UTXO]
    /\ bal \in [Handlers -> Nat]
    /\ coins \in [Handlers -> [UTXO -> {0, 1}]]
    /\ resp \in [Handlers -> ResponseType]

(* Requests answered from the P-chain's own state, not from shared memory  *)
(* or from the list of current validators                                  *)
isSnapshot(q) == ~fetchSharedMemory(q) /\ ~isRewards(q)

Answered(r) == pc[r] = "index" \/ (pc[r] = "done" /\ resp[r].status = "ok")
Succeeded(r) == pc[r] = "done" /\ resp[r].status = "ok"

(* Snapshot consistency: the outputs a handler goes on with after the two  *)
(* height checks of fetchUTXOsAndStakedOutputs are exactly the UTXOs and   *)
(* staked outputs of the ledger at the height it reports, although it read *)
(* them in pages and with a separate GetStake call while blocks were being *)
(* accepted.                                                               *)
SnapshotOf(r) ==
    /\ Received(got[r]) = ledger[pre[r]].utxos
    /\ staked[r] = IF fetchStaked(req[r]) THEN ledger[pre[r]].stake ELSE {}

SnapshotConsistency ==
    \A r \in Handlers : Answered(r) /\ isSnapshot(req[r]) => SnapshotOf(r)

(* Why it holds: while the height is still the one read before the first   *)
(* page, the pages read so far are the newest part of the UTXO list, down  *)
(* to the cursor; when the height has moved, nothing is claimed, and       *)
(* GetPostHeight will refuse to answer.                                    *)
ReadSoFar(r) ==
    IF cursor[r] = 0 THEN Received(got[r]) = {}
    ELSE /\ cursor[r] \in ledger[height].utxos
         /\ Received(got[r]) = {u \in ledger[height].utxos : u >= cursor[r]}

StakeRead(r) == staked[r] = IF fetchStaked(req[r]) THEN ledger[height].stake ELSE {}

Reading(r) ==
    /\ pc[r] \in {"assets", "pre"} =>
            Received(got[r]) = {} /\ cursor[r] = 0 /\ staked[r] = {}
    /\ pc[r] \in {"validators", "height"} => isRewards(req[r])
    /\ pc[r] \in {"page", "stake"} => staked[r] = {}
    /\ pc[r] = "stake" => fetchStaked(req[r])
    /\ pc[r] = "page" /\ isSnapshot(req[r]) => src[r] = "Any"
    /\ isSnapshot(req[r]) /\ pre[r] = height =>
        /\ pc[r] = "page" => ReadSoFar(r)
        /\ pc[r] \in {"stake", "post"} => Received(got[r]) = ledger[height].utxos
        /\ pc[r] = "post" => StakeRead(r)

ReadingInv == \A r \in Handlers : Reading(r)

(* The inductive invariant behind SnapshotConsistency *)
IInv == TypeOK /\ ReadingInv /\ SnapshotConsistency

(* The balances a block defines, in exact arithmetic: outputs of a single  *)
(* owner, of the assets the request asks for, by what their locktimes      *)
(* allow at t.                                                             *)
Exact(S) == SumFunctionOnSet([u \in UTXO |-> Out[u].amt], S)

Asked(u, q) == q.cur = {} \/ Out[u].asset \in Requested(q)

ExactBalance(s, q, t) ==
    LET owned == {u \in s.utxos : Out[u].addrs <= 1 /\ Asked(u, q)}
        bound == {u \in s.stake : Out[u].addrs <= 1 /\ Asked(u, q)}
        spendable == {u \in owned : Out[u].lock <= t /\ Out[u].inner <= t}
        stakeable == {u \in owned : Out[u].kind = "lockout"
                            /\ Out[u].inner <= t /\ t < Out[u].lock}
    IN  CASE q.sub = "unlocked" -> Exact(spendable)
          [] q.sub = "locked_stakeable" -> Exact(stakeable)
          [] q.sub = "locked_not_stakeable" -> Exact(owned \ (spendable \cup stakeable))
          [] q.sub = "staked" -> Exact(bound)
          [] OTHER -> Exact(owned) + Exact(bound)

(* calculateStakedAmount is not given the requested assets: it also adds   *)
(* the staked outputs of other assets to the balances that count stake.    *)
CountsStake(q) == q.sub \notin {"unlocked", "locked_stakeable", "locked_not_stakeable"}
ForeignStake(s, q) == {u \in s.stake : Out[u].addrs <= 1 /\ ~Asked(u, q)}
StakeMixed(s, q) == CountsStake(q) /\ ForeignStake(s, q) # {}

(* A balance response names a block and carries the balance of that block, *)
(* evaluated at a time no later than the response, whenever that balance   *)
(* fits a uint64: duplicates, multisig outputs, blocks accepted meanwhile  *)
(* and UTXOs of other assets do not change it.  The code gives less than   *)
(* that in one case, left out here by name: the staked and the total       *)
(* balance of an account that staked an asset the request does not name.   *)
BalanceOfItsBlock ==
    \A r \in Handlers :
        Succeeded(r) /\ req[r].endpoint = "balance" /\ isSnapshot(req[r]) =>
            LET s == ledger[resp[r].height]
            IN  StakeMixed(s, req[r])
                \/ \E t \in 0 .. now :
                      LET exact == ExactBalance(s, req[r], t)
                      IN  exact <= MaxUint => bal[r] = exact

(* A coins response lists, once each, exactly the single-owner UTXOs of    *)
(* its block that pass the asset filter in force.                          *)
CoinsOfItsBlock ==
    \A r \in Handlers :
        Succeeded(r) /\ req[r].endpoint = "coins" /\ isSnapshot(req[r]) =>
            coins[r] = [u \in UTXO |->
                IF /\ u \in ledger[resp[r].height].utxos
                   /\ Out[u].addrs <= 1
                   /\ assets[r] = {} \/ Out[u].asset \in assets[r]
                THEN 1 ELSE 0]

(* Shared memory is not guarded by the height check, but the duplicates    *)
(* its pages may contain never inflate a balance: it is the sum of some    *)
(* set of distinct exported outputs.                                       *)
SharedBalanceCountsOnce ==
    \A r \in Handlers :
        Succeeded(r) /\ req[r].endpoint = "balance" /\ req[r].sub = "shared_memory"
        /\ req[r].cur = {} =>
            LET exact == Exact({u \in Received(got[r]) : Out[u].addrs <= 1})
            IN  bal[r] = exact

(* The detailed handlers implement atomic looks at the ledger. *)
NoAnswer == [height |-> -1]
phaseOf(r) ==
    IF pc[r] = "idle" THEN "idle"
    ELSE IF Answered(r) /\ isSnapshot(req[r]) THEN "answered"
    ELSE IF pc[r] = "done" THEN "closed" ELSE "open"
answerOf(r) ==
    IF Answered(r) /\ isSnapshot(req[r])
    THEN [height |-> pre[r], utxos |-> Received(got[r]), stake |-> staked[r]]
    ELSE NoAnswer
absPhase == [r \in Handlers |-> phaseOf(r)]
absAnswer == [r \in Handlers |-> answerOf(r)]

Abs == INSTANCE AtomicLedgerRead WITH phase <- absPhase, answer <- absAnswer

(* Refinement: every response to an account request is one an atomic look  *)
(* at the chain would give, taken while the request was open.              *)
ReadsAreAtomic == Abs!ASpec

(* Pending rewards are conserved: rounding the delegation fee down loses   *)
(* nothing, what the validator's owner and each delegator are told adds up *)
(* to the potential rewards of the validator and its delegators.           *)
RewardsConserved ==
    LET s == ledger[height].stakers
    IN  (\E v \in s : StakerInfo[v].role = "validator") =>
            SumOver(LAMBDA x : PendingRewards(s, {x}), s) = SumOver(potentialReward, s)

(* Pending rewards are read before the height they are reported with, so   *)
(* they are those of a block the client can already see.                   *)
RewardsNotFromTheFuture ==
    \A r \in Handlers : Succeeded(r) /\ isRewards(req[r]) =>
        \E h \in 0 .. resp[r].height :
            bal[r] = PendingRewards(ledger[h].stakers, Mine)

(* Every request is answered, with a result or an error: no handler pages  *)
(* through UTXOs for ever.                                                 *)
EveryRequestAnswered ==
    \A r \in Handlers : pc[r] = "assets" ~> pc[r] = "done"

(* A client that keeps asking is served: once the chain stops moving and   *)
(* the indexer has caught up, the "new block added" error does not come    *)
(* back (provided there is a block besides the genesis).                   *)
RetryServed ==
    \A r \in Handlers : <>[](height > 0) => []<>Succeeded(r)

-----------------------------------------------------------------------------
(* What the comments and error texts of the code lead a client to expect,  *)
(* and the code does not give.                                             *)

(* Coins "containt only assetIDs".  (AccountCoins drops the error of       *)
(* buildCurrencyAssetIDs and with it the filter.)                          *)
OnlyRequestedAssets ==
    \A r \in Handlers :
        Succeeded(r) /\ req[r].endpoint = "coins" /\ req[r].cur # {} =>
            \A u \in UTXO : coins[r][u] > 0 => Out[u].asset \in Requested(req[r])

=============================================================================
