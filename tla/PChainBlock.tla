------------------------------ MODULE PChainBlock ------------------------------
(***************************************************************************)
(* /block and /block/transaction of the P-chain backend                    *)
(* (server/service/backend/pchain/block.go, genesis_handler.go and the     *)
(* block lookups of indexer/parser.go).                                    *)
(*                                                                         *)
(* A block's operations need the transactions its inputs refer to.         *)
(* fetchBlkDependencies starts one goroutine per dependency in an          *)
(* errgroup; each sends what it fetched to a buffered channel, which is    *)
(* drained after all of them have ended.  Handlers share the lazily built  *)
(* genesis allocation transaction, without synchronisation.                *)
(*                                                                         *)
(* Blocks are named by their height, and the hash of a block is the same   *)
(* name; transaction contents are left out, except for which transactions  *)
(* they refer to.  A handler is the goroutine of a connection, which       *)
(* serves one request after the other.                                     *)
(***************************************************************************)
EXTENDS Integers, Sequences, FiniteSets

CONSTANTS
    Handlers,     \* goroutines serving requests
    Requests,     \* Requests[r]: the requests that r gets
    TxID,         \* transaction IDs, among them Empty
    Empty,        \* ids.Empty, the "transaction" of the genesis allocation
    NoTx,         \* the transaction of a /block request: none
    GenesisTxs,   \* transactions of the genesis block
    Chain,        \* the blocks the chain accepts, in this order: see BlockType
    RewardedIn,   \* the block that commits a staking transaction's reward, or 0
    GenesisTime,  \* genesisTimestamp
    WeakMemory,   \* whether stores may be seen out of order (arm64)
    MaxFaults     \* bound: number of RPCs of one request that fail

(* txs: its transactions; deps: depsTxIDs, the concatenation of their      *)
(* GetTxDependenciesIDs; rewards: staking transactions it rewards; time:   *)
(* its own timestamp, or 0 before Banff; proposer: that of its ProposerVM  *)
(* header, or 0.                                                           *)
Time == {0} \cup {t \in Nat : t >= GenesisTime}
BlockType == [txs : SUBSET TxID, deps : Seq(TxID), rewards : SUBSET TxID,
              time : Time, proposer : Time]
Height == 1 .. Len(Chain)

ASSUME ConstantsAssumption ==
    /\ Empty \in TxID /\ NoTx \notin TxID /\ GenesisTxs \subseteq TxID
    /\ Chain \in Seq(BlockType)
    /\ RewardedIn \in [TxID -> Nat]
    /\ RewardedIn[Empty] = 0   \* the allocation stakes nothing
    /\ \A n \in Height : \A t \in Chain[n].rewards :
            \/ RewardedIn[t] = n + 1   \* committed by the option block that follows
            \/ RewardedIn[t] = 0       \* or aborted
    /\ \A r \in Handlers : \A q \in Requests[r] :
            q.by \in {"index", "hash"} /\ q.n \in Nat /\ q.tx \in TxID \cup {NoTx}
    /\ GenesisTime \in Nat \ {0}
    /\ WeakMemory \in BOOLEAN
    /\ MaxFaults \in Nat

VARIABLES
    accepted,      \* the node: height of the last accepted block
    indexed,       \* the indexer: height of the last block it serves
    faults,        \* number of RPCs of each request that failed so far
    transferable,  \* whether the genesis allocates transfer outputs only
    allocationTx,  \* gHandler.allocationTx: the goroutine that built it, or Nil
    spare,         \* the element after gHandler.genesisBlk.Txs, as allocationTx
    pc,            \* where each handler is
    req,           \* the request it serves
    since,         \* what was known of its block when it arrived
    time,          \* Timestamp of the parsed block
    gpc,           \* where the goroutines of its errgroup are
    msg,           \* the messages they sent to dependencyTxChan
    ctxErr,        \* the errgroup's first error, which cancels its context
    blkDeps,       \* what was drained from the channel, once it is closed
    resp           \* the response

sharedVars == <<transferable, allocationTx, spare>>
nodeVars == <<accepted, indexed>>
vars == <<accepted, indexed, faults, transferable, allocationTx, spare,
          pc, req, since, time, gpc, msg, ctxErr, blkDeps, resp>>

Nil == <<>>
Slot == UNION {DOMAIN Chain[n].deps : n \in Height}
Goroutine == {<<r, i>> : r \in Handlers, i \in Slot \cup {0}}
NoMsg == [tx |-> Nil, alloc |-> Nil, rewarded |-> FALSE]
NoReq == [by |-> "index", n |-> 0, tx |-> NoTx]
NoResp == [status |-> "none", code |-> "none", time |-> 0, whole |-> FALSE, alloc |-> Nil]

deps(r) == Chain[req[r].n].deps
group(r) == DOMAIN gpc[r]
Active == {"start", "alloc", "build", "tx", "rewards", "send"}

Goto(r, label) == pc' = [pc EXCEPT ![r] = label]
GoTo(r, i, label) == gpc' = [gpc EXCEPT ![r][i] = label]

Reply(r, response) ==
    /\ Goto(r, "done")
    /\ resp' = [resp EXCEPT ![r] = response]

(* An error.  Its request has read the allocation that alloc built, or     *)
(* none.                                                                   *)
FailWith(r, code, alloc) ==
    Reply(r, [NoResp EXCEPT !.status = "err", !.code = code, !.alloc = alloc])
Fail(r, code) == FailWith(r, code, Nil)

Fault(r) == faults[r] < MaxFaults /\ faults' = [faults EXCEPT ![r] = @ + 1]

-----------------------------------------------------------------------------
(* The genesis allocation *)

(* Whether handler r sees the fields of the transaction that a goroutine   *)
(* built and published through a plain pointer.  It does if it built it    *)
(* itself, or one of its own dependency goroutines, whose end it waits     *)
(* for.  What another handler built it need not see where stores of        *)
(* another core may be seen out of order.                                  *)
OfOther(r, alloc) == alloc # Nil /\ alloc[1] # r
VisibleToBuilder(r, alloc) == IF WeakMemory /\ alloc # <<r, 0>> THEN BOOLEAN ELSE {TRUE}
Visible(r, alloc) == IF WeakMemory /\ OfOther(r, alloc) THEN BOOLEAN ELSE {TRUE}

(* isGenesisBlockRequest, and the dispatch of Block and BlockTransaction *)
isGenesisBlockRequest(q) == q.n = 0

Found(q) == q.n <= IF q.by = "index" THEN indexed ELSE accepted
Known(q) ==
    IF ~Found(q) THEN "unknown" ELSE IF q.n < accepted THEN "followed" ELSE "found"

Receive(r, q) ==
    /\ pc[r] = "idle"
    /\ req' = [req EXCEPT ![r] = q]
    /\ since' = [since EXCEPT ![r] = Known(q)]
    /\ Goto(r, IF isGenesisBlockRequest(q) THEN "alloc" ELSE "block")
    /\ UNCHANGED <<nodeVars, sharedVars, faults, time, gpc, msg, ctxErr, blkDeps, resp>>

(* getFullGenesisTxs: buildGenesisAllocationTx's test of the cache ... *)
LoadAllocation(r) ==
    /\ pc[r] = "alloc"
    /\ Goto(r, IF allocationTx = Nil THEN "build" ELSE "append")
    /\ UNCHANGED <<nodeVars, sharedVars, faults, req, since, time, gpc, msg, ctxErr, blkDeps, resp>>

(* ... the transaction, stored in the cache, or an error if the genesis    *)
(* allocates anything but transfer outputs ...                             *)
BuildAllocation(r) ==
    /\ pc[r] = "build"
    /\ IF transferable
       THEN allocationTx' = <<r, 0>> /\ Goto(r, "append") /\ UNCHANGED resp
       ELSE Fail(r, "ClientError") /\ UNCHANGED allocationTx
    /\ UNCHANGED <<nodeVars, transferable, spare, faults, req, since, time, gpc, msg, ctxErr, blkDeps>>

(* ... and the append, which writes behind the shared slice. *)
AppendAllocation(r) ==
    /\ pc[r] = "append"
    /\ spare' = allocationTx
    /\ Goto(r, "genesis")
    /\ UNCHANGED <<nodeVars, transferable, allocationTx, faults, req, since, time, gpc, msg, ctxErr, blkDeps, resp>>

(* The answer to /block is the block; that to /block/transaction the one   *)
(* of its transactions that has the requested hash.                        *)
Transactions(n) == IF n = 0 THEN GenesisTxs \cup {Empty} ELSE Chain[n].txs

Answer(r, blkTime, whole, alloc) ==
    IF req[r].tx \in {NoTx} \cup Transactions(req[r].n)
    THEN Reply(r, [NoResp EXCEPT !.status = "ok", !.whole = whole, !.alloc = alloc,
                                 !.time = IF req[r].tx = NoTx THEN blkTime ELSE 0])
    ELSE FailWith(r, "TransactionNotFound", alloc)

(* An RPC of ParseNonGenesisBlock, or of NewTxParser, fails.  Block blames *)
(* the client for both, except for the parser of a block that is not the   *)
(* genesis; BlockTransaction blames it for the block only.                 *)
RPCErrorCode(r) ==
    IF pc[r] = "block" \/ (pc[r] = "genesis" /\ req[r].tx = NoTx)
    THEN "ClientError" ELSE "InternalError"

(* ParseRosettaTxs of the genesis transactions.  An allocation whose       *)
(* fields are not visible lacks operations, is an error, or ends the       *)
(* handler in a panic, from which net/http recovers without an answer.     *)
GenesisBlock(r) ==
    /\ pc[r] = "genesis"
    /\ \E whole \in Visible(r, spare) :
        \/ Answer(r, GenesisTime, whole, spare)
        \/ ~whole /\ \E code \in {RPCErrorCode(r), "Panic"} : FailWith(r, code, spare)
    /\ UNCHANGED <<nodeVars, sharedVars, faults, req, since, time, gpc, msg, ctxErr, blkDeps>>

-----------------------------------------------------------------------------
(* Other blocks *)

(* retrieveTime: a block's own time, that of its ProposerVM header, or the *)
(* time of the genesis                                                     *)
retrieveTimeNoFallback(b, proposerTime) == IF b.time # 0 THEN b.time ELSE proposerTime

retrieveTime(b, proposerTime) ==
    IF b.time # 0 THEN b.time
    ELSE IF proposerTime # 0 THEN proposerTime ELSE GenesisTime

(* ParseNonGenesisBlock: by height from the indexer, whose containers have *)
(* ProposerVM headers, or by hash from the node, whose blocks have none.   *)
(* Then the goroutines of fetchBlkDependencies are started.                *)
ProposerTime(q) == IF q.by = "index" THEN Chain[q.n].proposer ELSE 0

ParseNonGenesisBlock(r) ==
    /\ pc[r] = "block"
    /\ IF Found(req[r])
       THEN /\ time' = [time EXCEPT ![r] =
                            retrieveTime(Chain[req[r].n], ProposerTime(req[r]))]
            /\ gpc' = [gpc EXCEPT ![r] = [i \in DOMAIN deps(r) |-> "start"]]
            /\ msg' = [msg EXCEPT ![r] = [i \in DOMAIN deps(r) |-> NoMsg]]
            /\ Goto(r, "wait")
            /\ UNCHANGED resp
       ELSE Fail(r, "ClientError") /\ UNCHANGED <<time, gpc, msg>>
    /\ UNCHANGED <<nodeVars, sharedVars, faults, req, since, ctxErr, blkDeps>>

(* A goroutine of the group.  handlerVars are the handler's own variables. *)
handlerVars == <<pc, req, since, time, blkDeps, resp>>

(* errgroup: the first error is kept and cancels the others' context *)
ErrorOnce(r, err) ==
    IF ctxErr[r] = "none" THEN ctxErr' = [ctxErr EXCEPT ![r] = err] ELSE UNCHANGED ctxErr

(* fetchDependencyTx: the genesis allocation, from the cache ... *)
StartDependency(r, i) ==
    /\ gpc[r][i] = "start"
    /\ GoTo(r, i, IF deps(r)[i] # Empty THEN "tx"
                  ELSE IF allocationTx = Nil THEN "build" ELSE "alloc")
    /\ UNCHANGED <<nodeVars, sharedVars, faults, handlerVars, msg, ctxErr>>

BuildDependency(r, i) ==
    /\ gpc[r][i] = "build"
    /\ IF transferable
       THEN allocationTx' = <<r, i>> /\ GoTo(r, i, "alloc") /\ UNCHANGED ctxErr
       ELSE GoTo(r, i, "err") /\ ErrorOnce(r, "utxo") /\ UNCHANGED allocationTx
    /\ UNCHANGED <<nodeVars, transferable, spare, faults, handlerVars, msg>>

FetchAllocation(r, i) ==
    /\ gpc[r][i] = "alloc"
    /\ msg' = [msg EXCEPT ![r][i] = [tx |-> Empty, alloc |-> allocationTx, rewarded |-> FALSE]]
    /\ GoTo(r, i, "send")
    /\ UNCHANGED <<nodeVars, sharedVars, faults, handlerVars, ctxErr>>

(* ... or a transaction, and then its reward UTXOs, from the node *)
GetTx(r, i) ==
    /\ gpc[r][i] = "tx"
    /\ GoTo(r, i, "rewards")
    /\ UNCHANGED <<nodeVars, sharedVars, faults, handlerVars, msg, ctxErr>>

RewardIssued(t) == RewardedIn[t] \in 1 .. accepted

NoRewardUTXOs(r, i) ==
    /\ gpc[r][i] = "rewards"
    /\ msg' = [msg EXCEPT ![r][i] = [tx |-> deps(r)[i], alloc |-> Nil, rewarded |-> FALSE]]
    /\ GoTo(r, i, "send")
    /\ UNCHANGED <<nodeVars, sharedVars, faults, handlerVars, ctxErr>>

GetRewardUTXOs(r, i) ==
    /\ gpc[r][i] = "rewards"
    /\ msg' = [msg EXCEPT ![r][i] =
            [tx |-> deps(r)[i], alloc |-> Nil, rewarded |-> RewardIssued(deps(r)[i])]]
    /\ GoTo(r, i, "send")
    /\ UNCHANGED <<nodeVars, sharedVars, faults, handlerVars, ctxErr>>

(* An RPC fails, or is given up because the context was cancelled *)
RPCFails(r, i) ==
    /\ gpc[r][i] \in {"tx", "rewards"}
    /\ \/ Fault(r) /\ ErrorOnce(r, "rpc")
       \/ ctxErr[r] # "none" /\ ErrorOnce(r, "canceled") /\ UNCHANGED faults
    /\ GoTo(r, i, "err")
    /\ UNCHANGED <<nodeVars, sharedVars, handlerVars, msg>>

(* out <- dependency: blocks while the channel is full *)
CapacityOfDistinct(r) == Cardinality({deps(r)[i] : i \in group(r)})
CapacityOne(r) == 1
Capacity(r) == Len(deps(r))
Sent(r) == {i \in group(r) : gpc[r][i] = "ok"}

Send(r, i) ==
    /\ gpc[r][i] = "send"
    /\ Cardinality(Sent(r)) < Capacity(r)
    /\ GoTo(r, i, "ok")
    /\ UNCHANGED <<nodeVars, sharedVars, faults, handlerVars, msg, ctxErr>>

(* eg.Wait() returns when all goroutines have returned; then the channel   *)
(* is closed and drained into a map.  Messages for the same transaction    *)
(* overwrite each other in the order they were sent, which is any.         *)
WaitForFirstError(r) == ctxErr[r] # "none" \/ \A i \in group(r) : gpc[r][i] \in {"ok", "err"}
WaitReturns(r) == \A i \in group(r) : gpc[r][i] \in {"ok", "err"}

NoError(r) == TRUE
WaitSucceeds(r) == ctxErr[r] = "none"

Drained(r) ==
    {d \in [{deps(r)[i] : i \in Sent(r)} -> {msg[r][i] : i \in Sent(r)}] :
        \A t \in DOMAIN d : d[t].tx = t}

fetchBlkDependencies(r) ==
    /\ pc[r] = "wait"
    /\ WaitReturns(r)
    /\ IF WaitSucceeds(r)
       THEN /\ \E d \in Drained(r) : blkDeps' = [blkDeps EXCEPT ![r] = d]
            /\ Goto(r, "parse")
            /\ UNCHANGED resp
       ELSE Fail(r, "InternalError") /\ UNCHANGED blkDeps
    /\ UNCHANGED <<nodeVars, sharedVars, faults, req, since, time, gpc, msg, ctxErr>>

(* ParseRosettaTxs: an input whose transaction is missing is an error.     *)
(* One whose transaction shows no fields may be an error too, a panic, or  *)
(* an input without its account.                                           *)
AllocationOf(d) == IF Empty \in DOMAIN d THEN d[Empty].alloc ELSE Nil

ParseRosettaTxs(r) ==
    LET alloc == AllocationOf(blkDeps[r])
    IN  /\ pc[r] = "parse"
        /\ \E whole \in Visible(r, alloc) :
            LET complete == \A i \in DOMAIN deps(r) : deps(r)[i] \in DOMAIN blkDeps[r]
            IN  \/ complete /\ Answer(r, time[r], whole, alloc)
                \/ ~complete /\ FailWith(r, "InternalError", alloc)
                \/ ~whole /\ \E code \in {"InternalError", "Panic"} : FailWith(r, code, alloc)
        /\ UNCHANGED <<nodeVars, sharedVars, faults, req, since, time, gpc, msg, ctxErr, blkDeps>>

(* ParseNonGenesisBlock or a parser's RPC fails. *)
RPCError(r) ==
    /\ pc[r] \in {"block", "parse", "genesis"}
    /\ Fault(r)
    /\ Fail(r, RPCErrorCode(r))
    /\ UNCHANGED <<nodeVars, sharedVars, req, since, time, gpc, msg, ctxErr, blkDeps>>

(* The response is sent; the handler's variables are gone. *)
Finish(r) ==
    /\ pc[r] = "done"
    /\ Goto(r, "idle")
    /\ req' = [req EXCEPT ![r] = NoReq]
    /\ since' = [since EXCEPT ![r] = "unknown"]
    /\ time' = [time EXCEPT ![r] = 0]
    /\ gpc' = [gpc EXCEPT ![r] = Nil]
    /\ msg' = [msg EXCEPT ![r] = Nil]
    /\ ctxErr' = [ctxErr EXCEPT ![r] = "none"]
    /\ blkDeps' = [blkDeps EXCEPT ![r] = Nil]
    /\ resp' = [resp EXCEPT ![r] = NoResp]
    /\ faults' = [faults EXCEPT ![r] = 0]
    /\ UNCHANGED <<nodeVars, sharedVars>>

-----------------------------------------------------------------------------
(* The environment *)

AcceptBlock ==
    /\ accepted < Len(Chain)
    /\ accepted' = accepted + 1
    /\ UNCHANGED <<indexed, sharedVars, faults, handlerVars, gpc, msg, ctxErr>>

IndexBlock ==
    /\ indexed < accepted
    /\ indexed' = indexed + 1
    /\ UNCHANGED <<accepted, sharedVars, faults, handlerVars, gpc, msg, ctxErr>>

-----------------------------------------------------------------------------
Init ==
    /\ accepted = 0
    /\ indexed = 0
    /\ faults = [r \in Handlers |-> 0]
    /\ transferable \in BOOLEAN
    /\ allocationTx = Nil
    /\ spare = Nil
    /\ pc = [r \in Handlers |-> "idle"]
    /\ req = [r \in Handlers |-> NoReq]
    /\ since = [r \in Handlers |-> "unknown"]
    /\ time = [r \in Handlers |-> 0]
    /\ gpc = [r \in Handlers |-> Nil]
    /\ msg = [r \in Handlers |-> Nil]
    /\ ctxErr = [r \in Handlers |-> "none"]
    /\ blkDeps = [r \in Handlers |-> Nil]
    /\ resp = [r \in Handlers |-> NoResp]

fetchDependencyTx(r, i) ==
    \/ StartDependency(r, i)
    \/ BuildDependency(r, i)
    \/ FetchAllocation(r, i)
    \/ GetTx(r, i)
    \/ GetRewardUTXOs(r, i)
    \/ RPCFails(r, i)
    \/ Send(r, i)

Step(r) ==
    \/ LoadAllocation(r)
    \/ BuildAllocation(r)
    \/ AppendAllocation(r)
    \/ GenesisBlock(r)
    \/ ParseNonGenesisBlock(r)
    \/ fetchBlkDependencies(r)
    \/ ParseRosettaTxs(r)
    \/ Finish(r)

Next ==
    \/ \E r \in Handlers : \E q \in Requests[r] : Receive(r, q)
    \/ \E r \in Handlers : Step(r)
    \/ \E r \in Handlers : \E i \in group(r) : fetchDependencyTx(r, i)
    \/ \E r \in Handlers : RPCError(r)
    \/ AcceptBlock
    \/ IndexBlock

Spec == Init /\ [][Next]_vars

(* Go runs every goroutine and the node answers every RPC. *)
FairSpec ==
    /\ Spec
    /\ \A r \in Handlers : WF_vars(Step(r))
    /\ \A r \in Handlers : \A i \in Slot : WF_vars(i \in group(r) /\ fetchDependencyTx(r, i))

-----------------------------------------------------------------------------
(* Type invariant.  A block always has a time a client accepts: none       *)
(* before the genesis.                                                     *)
Label == {"idle", "alloc", "build", "append", "genesis", "block", "wait", "parse", "done"}
Message == [tx : TxID, alloc : Goroutine \cup {Nil}, rewarded : BOOLEAN]

TypeOK ==
    /\ accepted \in 0 .. Len(Chain)
    /\ indexed \in 0 .. accepted
    /\ faults \in [Handlers -> Nat]
    /\ transferable \in BOOLEAN
    /\ allocationTx \in Goroutine \cup {Nil}
    /\ spare \in Goroutine \cup {Nil}
    /\ pc \in [Handlers -> Label]
    /\ \A r \in Handlers : req[r] \in Requests[r] \cup {NoReq}
    /\ since \in [Handlers -> {"unknown", "found", "followed"}]
    /\ ctxErr \in [Handlers -> {"none", "rpc", "utxo", "canceled"}]
    /\ \A r \in Handlers :
        /\ pc[r] \in {"block", "wait", "parse"} => req[r].n > 0
        /\ pc[r] \in {"wait", "parse"} =>
            /\ req[r].n <= Len(Chain)
            /\ time[r] >= GenesisTime
            /\ DOMAIN gpc[r] = DOMAIN deps(r)
            /\ DOMAIN msg[r] = DOMAIN deps(r)
        /\ \A i \in group(r) : gpc[r][i] \in Active \cup {"ok", "err"}
        /\ \A i \in DOMAIN msg[r] : msg[r][i] \in Message \cup {NoMsg}
        /\ resp[r].status = "ok" /\ req[r].tx = NoTx => resp[r].time >= GenesisTime

(* All or nothing: the operations of a block are parsed with every         *)
(* transaction its inputs refer to, each under its own ID, although they   *)
(* were fetched concurrently and any of the fetches may have failed.       *)
DependenciesComplete ==
    \A r \in Handlers : pc[r] = "parse" =>
        /\ DOMAIN blkDeps[r] = {deps(r)[i] : i \in DOMAIN deps(r)}
        /\ \A t \in DOMAIN blkDeps[r] :
            /\ blkDeps[r][t].tx = t
            /\ blkDeps[r][t].rewarded => RewardIssued(t)

(* The channel is large enough: no goroutine ever blocks on it, so that    *)
(* waiting for all of them before draining it cannot deadlock.             *)
SendNeverBlocks ==
    \A r \in Handlers : \A i \in group(r) :
        gpc[r][i] = "send" => Cardinality(Sent(r)) < Capacity(r)

(* No goroutine outlives the wait: none sends on a closed channel, none is *)
(* left behind by a request that failed.                                   *)
NoOrphans ==
    \A r \in Handlers : pc[r] # "wait" =>
        \A i \in group(r) : gpc[r][i] \notin Active

(* What a request may fail for: an RPC of its own failed, the block was    *)
(* not there when it arrived, or it needs the genesis allocation, and that *)
(* has outputs of another kind, or was built by another handler and        *)
(* published without synchronisation, on a machine that reorders stores.   *)
NeedsAllocation(q) ==
    q.n = 0 \/ (q.n \in Height /\ \E i \in DOMAIN Chain[q.n].deps : Chain[q.n].deps[i] = Empty)
Unseen(r) == WeakMemory /\ OfOther(r, resp[r].alloc)

Reason(r) ==
    \/ faults[r] > 0
    \/ since[r] = "unknown"
    \/ NeedsAllocation(req[r]) /\ (~transferable \/ Unseen(r))

(* No request fails without a reason of its own, whatever other handlers   *)
(* do: an RPC that fails for one of them, a group that is cancelled, or    *)
(* two that build the allocation and append it to the shared slice at the  *)
(* same time do not make another request fail or lack operations, and a    *)
(* transaction that is in the block is found.  The one exception is named: *)
(* the fields of an allocation that another handler built may be unseen.   *)
NoSpuriousError ==
    \A r \in Handlers :
        /\ resp[r].status = "ok" => resp[r].whole \/ Unseen(r)
        /\ resp[r].status = "err" =>
            IF resp[r].code = "TransactionNotFound"
            THEN req[r].tx \notin Transactions(req[r].n)
            ELSE Reason(r)

(* Rewards are read from the node's current state, not from the block's:   *)
(* once the block after a block is accepted, an answer is final.           *)
FinalOnceFollowed ==
    \A r \in Handlers :
        pc[r] = "parse" /\ since[r] = "followed" =>
            \A t \in Chain[req[r].n].rewards \cap DOMAIN blkDeps[r] :
                blkDeps[r][t].rewarded <=> RewardedIn[t] # 0

(* Every request is answered. *)
EveryRequestAnswered ==
    \A r \in Handlers : pc[r] \in {"alloc", "block"} ~> pc[r] = "done"
=============================================================================
