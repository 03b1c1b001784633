------------------------- MODULE PChainAccountProofs -------------------------
(***************************************************************************)
(* Proofs about PChainAccount, for any number of handlers, any page size   *)
(* and chains of any length.                                               *)
(***************************************************************************)
EXTENDS PChainAccount, InductionLemmas

-----------------------------------------------------------------------------
(* Amounts.  Finite sums of amounts are numbers.                           *)
LEMMA UTXOsAreFinite == IsFiniteSet(UTXO) /\ \A S \in SUBSET UTXO : IsFiniteSet(S)
  <1>1. IsFiniteSet(UTXO)
    BY ConstantsAssumption, FS_Interval DEF UTXO
  <1>2. QED
    BY <1>1, FS_Subset

LEMMA OutputTypes ==
  ASSUME NEW u \in UTXO
  PROVE  /\ Out[u].kind \in {"transfer", "lockout", "opaque"}
         /\ Out[u].amt \in Nat /\ Out[u].addrs \in Nat /\ Out[u].lock \in Nat /\ Out[u].inner \in Nat
         /\ Out[u].kind = "transfer" => Out[u].inner = 0
  <1>1. Out[u] \in OutputType
    BY ConstantsAssumption
  <1>2. QED
    BY <1>1, ConstantsAssumption DEF OutputType

LEMMA SumOfIsNat ==
  ASSUME NEW bag \in [UTXO -> Nat], NEW S \in SUBSET UTXO
  PROVE  SumOf(bag, S) \in Nat
  <1> DEFINE f == [u \in UTXO |-> bag[u] * Out[u].amt]
  <1>1. \A u \in S : f[u] \in Nat
    BY OutputTypes
  <1>2. IsFiniteSet(S)
    BY UTXOsAreFinite
  <1> HIDE DEF f
  <1>3. SumFunctionOnSet(f, S) \in Nat
    BY <1>1, <1>2, SumIsNat
  <1>4. QED
    BY <1>3 DEF SumOf, f

LEMMA ClassSumIsNat ==
  ASSUME NEW bag \in [UTXO -> Nat], NEW class, NEW t
  PROVE  ClassSum(bag, class, t) \in Nat
  BY SumOfIsNat DEF ClassSum

LEMMA StakedIsNat ==
  ASSUME NEW outs \in SUBSET UTXO
  PROVE  calculateStakedAmount(outs) \in Nat
  <1> DEFINE one == [u \in UTXO |-> 1]
             S == {u \in outs : Out[u].addrs <= 1}
  <1>1. SumOf(one, S) \in Nat
    BY SumOfIsNat
  <1> HIDE DEF one, S
  <1>2. SumOf(one, S) % (MaxUint + 1) \in Nat
    BY <1>1, ConstantsAssumption
  <1>3. QED
    BY <1>2 DEF calculateStakedAmount, one, S

LEMMA BalanceIsNat ==
  ASSUME NEW bag \in [UTXO -> Nat], NEW outs \in SUBSET UTXO, NEW sub, NEW t
  PROVE  BalanceValue(bag, outs, sub, t) \in Nat
  <1>1. /\ ClassSum(bag, "unlocked", t) \in Nat
        /\ ClassSum(bag, "locked_stakeable", t) \in Nat
        /\ ClassSum(bag, "locked_not_stakeable", t) \in Nat
        /\ calculateStakedAmount(outs) \in Nat
    BY ClassSumIsNat, StakedIsNat
  <1>2. \A x \in Nat : x % (MaxUint + 1) \in Nat
    BY ConstantsAssumption
  <1>3. QED
    BY <1>1, <1>2 DEF BalanceValue, getBalancesWithoutMultisig

LEMMA ProductIsNat == ASSUME NEW m \in Nat, NEW k \in Nat PROVE m * k \in Nat
  OBVIOUS

LEMMA RewardTypes ==
  ASSUME NEW d \in Staker
  PROVE  /\ StakerInfo[d].role \in {"validator", "delegator"}
         /\ potentialReward(d) \in Nat /\ delegationFee(d) \in Nat /\ delegateReward(d) \in Nat
  <1> DEFINE w == StakerInfo[d].reward
  <1>1. StakerInfo[d] \in StakerType
    BY ConstantsAssumption
  <1>2. w \in Nat /\ StakerInfo[d].role \in {"validator", "delegator"}
    BY <1>1 DEF StakerType
  <1> HIDE DEF w
  <1>3. w * FeePct \in Nat /\ w * FeePct <= w * 1000000
    <2>2. FeePct \in Nat /\ 1000000 - FeePct \in Nat
      BY FeeAssumption, SMT
    <2>3. w * FeePct \in Nat /\ w * (1000000 - FeePct) \in Nat
      BY <1>2, <2>2, ProductIsNat, SMT
    <2>4. w * 1000000 = w * FeePct + w * (1000000 - FeePct)
      BY <1>2, <2>2, SMT
    <2>5. QED
      BY <2>3, <2>4, SMT
  <1> DEFINE y == w * FeePct
  <1> HIDE DEF y
  <1>4. (y \div 1000000) \in Nat /\ (y \div 1000000) <= w
    BY <1>2, <1>3, SMT DEF y
  <1>5. QED
    BY <1>2, <1>4, SMT DEF potentialReward, delegationFee, delegateReward, w, y

LEMMA SumOverIsNat ==
  ASSUME NEW S \in SUBSET Staker
  PROVE  /\ SumOver(potentialReward, S) \in Nat
         /\ SumOver(delegationFee, S) \in Nat
         /\ SumOver(delegateReward, S) \in Nat
  <1> DEFINE a == [x \in Staker |-> potentialReward(x)]
             b == [x \in Staker |-> delegationFee(x)]
             c == [x \in Staker |-> delegateReward(x)]
  <1>1. IsFiniteSet(S) /\ \A x \in S : a[x] \in Nat /\ b[x] \in Nat /\ c[x] \in Nat
    BY ConstantsAssumption, FS_Subset, RewardTypes
  <1> HIDE DEF a, b, c
  <1>2. SumFunctionOnSet(a, S) \in Nat /\ SumFunctionOnSet(b, S) \in Nat /\ SumFunctionOnSet(c, S) \in Nat
    BY <1>1, SumIsNat
  <1>3. QED
    BY <1>2 DEF SumOver, a, b, c

LEMMA RewardsAreNat ==
  ASSUME NEW S \in SUBSET Staker, NEW mine
  PROVE  PendingRewards(S, mine) \in Nat
  <1> DEFINE vals == {v \in S : StakerInfo[v].role = "validator"}
             dels == {d \in S : StakerInfo[d].role = "delegator"}
  <1>1. vals \cap mine \in SUBSET Staker /\ dels \in SUBSET Staker /\ dels \cap mine \in SUBSET Staker
    OBVIOUS
  <1> HIDE DEF vals, dels
  <1>2. /\ SumOver(potentialReward, vals \cap mine) \in Nat
        /\ SumOver(delegationFee, dels) \in Nat
        /\ SumOver(delegateReward, dels \cap mine) \in Nat
    BY <1>1, SumOverIsNat
  <1>3. QED
    BY <1>2 DEF PendingRewards, vals, dels

-----------------------------------------------------------------------------
(* Types *)

(* The type invariant holds initially. *)
LEMMA InitTypeOK == Init => TypeOK
  BY ConstantsAssumption
  DEF Init, TypeOK, Snapshot, NoRequest, Request, SubAccount, NoUTXOs, UTXO, NoResp,
      ResponseType, Label

(* A reply leaves pc and resp well typed. *)
LEMMA ReplyType ==
  ASSUME TypeOK, NEW r \in Handlers, NEW x \in ResponseType, Reply(r, x)
  PROVE  /\ pc' \in [Handlers -> Label]
         /\ resp' \in [Handlers -> ResponseType]
         /\ \A h \in Handlers : pc'[h] = "page" => pc[h] = "page" /\ h # r
  BY DEF TypeOK, Reply, Goto, Label

Codes == {"InternalError", "InvalidInput", "NotSupported"}

(* An error leaves pc and resp well typed. *)
LEMMA FailType ==
  ASSUME TypeOK, NEW r \in Handlers, NEW code \in Codes, Fail(r, code)
  PROVE  /\ pc' \in [Handlers -> Label]
         /\ resp' \in [Handlers -> ResponseType]
         /\ \A h \in Handlers : pc'[h] = "page" => pc[h] = "page" /\ h # r
  <1>1. ErrorResp(code) \in ResponseType
    BY DEF ErrorResp, ResponseType, Codes
  <1>2. QED
    BY <1>1, ReplyType DEF Fail

(* The currencies of a request name assets. *)
LEMMA AssetsOfRequest ==
  ASSUME NEW q \in Request
  PROVE  Requested(q) \subseteq Asset
  <1>1. q.cur \subseteq Currency /\ AssetOf \in [Currency -> Asset]
    BY ConstantsAssumption DEF Request
  <1>2. \A c \in q.cur : AssetOf[c] \in Asset
    BY <1>1
  <1>3. QED
    BY <1>2 DEF Requested

(* Each step preserves the type invariant. *)
LEMMA NextTypeOK == TypeOK /\ [Next]_vars => TypeOK'
  <1> SUFFICES ASSUME TypeOK, [Next]_vars PROVE TypeOK'
    OBVIOUS
  <1> USE ConstantsAssumption DEF TypeOK
  <1>1. ASSUME NEW r \in Handlers, NEW q \in Reqs, Receive(r, q) PROVE TypeOK'
    <2>1. NoUTXOs \in [UTXO -> Nat] /\ NoUTXOs \in [UTXO -> {0, 1}]
      BY DEF NoUTXOs
    <2>2. /\ pc' \in [Handlers -> Label]
          /\ resp' \in [Handlers -> ResponseType]
          /\ \A h \in Handlers : pc'[h] = "page" => pc[h] = "page" /\ h # r
      <3>1. CASE EarlyError(q) # "none"
        <4>1. EarlyError(q) \in Codes
          BY <3>1 DEF EarlyError, Codes
        <4>2. QED
          BY <1>1, <3>1, <4>1, FailType DEF Receive
      <3>2. CASE EarlyError(q) = "none"
        BY <1>1, <3>2 DEF Receive, Goto, Label
      <3>3. QED
        BY <3>1, <3>2
    <2>3. /\ req' \in [Handlers -> Request]
          /\ assets' \in [Handlers -> SUBSET Asset]
          /\ pre' \in [Handlers -> 0 .. height]
          /\ cursor' \in [Handlers -> UTXO \cup {0}]
          /\ staked' \in [Handlers -> SUBSET UTXO]
      BY <1>1 DEF Receive
    <2>4. /\ src' \in [Handlers -> {"none", "Any", "C", "X"}]
          /\ \A h \in Handlers : pc'[h] = "page" => src'[h] # "none"
      BY <1>1, <2>2 DEF Receive
    <2>5. /\ got' \in [Handlers -> [UTXO -> Nat]]
          /\ coins' \in [Handlers -> [UTXO -> {0, 1}]]
      BY <1>1, <2>1 DEF Receive
    <2>6. QED
      BY <1>1, <2>2, <2>3, <2>4, <2>5 DEF Receive, nodeVars
  <1>2. ASSUME NEW r \in Handlers, FetchAssets(r) PROVE TypeOK'
    <2>0. req[r] \in Request
      OBVIOUS
    <2>1. Requested(req[r]) \subseteq Asset
      BY <2>0, AssetsOfRequest
    <2>2. /\ assets' \in [Handlers -> SUBSET Asset]
          /\ faults' \in Nat
      BY <1>2, <2>1 DEF FetchAssets, Fault
    <2>3. \/ Fail(r, "InternalError") \/ Fail(r, "InvalidInput") \/ Dispatch(r)
      BY <1>2 DEF FetchAssets
    <2>4. /\ pc' \in [Handlers -> Label]
          /\ resp' \in [Handlers -> ResponseType]
          /\ \A h \in Handlers : pc'[h] = "page" => pc[h] = "page"
      <3>1. CASE Fail(r, "InternalError") \/ Fail(r, "InvalidInput")
        BY <3>1, FailType DEF Codes
      <3>2. CASE Dispatch(r)
        <4>1. \/ Fail(r, "InvalidInput")
              \/ (Goto(r, "validators") \/ Goto(r, "pre")) /\ UNCHANGED resp
          BY <3>2 DEF Dispatch
        <4>2. QED
          BY <4>1, FailType DEF Codes, Goto, Label
      <3>3. QED
        BY <2>3, <3>1, <3>2
    <2>5. QED
      BY <1>2, <2>2, <2>4 DEF FetchAssets, nodeVars
  <1>3. ASSUME NEW r \in Handlers, GetPreHeight(r) PROVE TypeOK'
    BY <1>3 DEF GetPreHeight, Goto, Label, nodeVars
  <1>4. ASSUME NEW r \in Handlers, GetPage(r) PROVE TypeOK'
    <2>0. PICK repeat \in {FALSE, src[r] # "Any"} :
            \E page \in SUBSET After(Source(src[r]), cursor[r], repeat) :
                TakePage(r, page, After(Source(src[r]), cursor[r], repeat))
      BY <1>4 DEF GetPage
    <2>1. PICK page \in SUBSET After(Source(src[r]), cursor[r], repeat) :
                TakePage(r, page, After(Source(src[r]), cursor[r], repeat))
      BY <2>0
    <2>2. page \subseteq UTXO
      BY <1>4 DEF After, Source, Snapshot, GetPage
    <2>3. got' \in [Handlers -> [UTXO -> Nat]]
      BY <2>1 DEF TakePage
    <2>4. /\ cursor' \in [Handlers -> UTXO \cup {0}]
          /\ src' \in [Handlers -> {"none", "Any", "C", "X"}]
          /\ pc' \in [Handlers -> Label]
          /\ \A h \in Handlers : pc'[h] = "page" => src'[h] # "none"
      <3>1. CASE LastPage(r)
        <4>1. NextSource(src[r]) \in {"none", "X"} /\ AfterUTXOs(r) \in {"stake", "post"}
          BY DEF NextSource, AfterUTXOs
        <4>2. QED
          BY <3>1, <4>1 DEF LastPage, Goto, Label
      <3>2. CASE FullPage(r, page)
        <4>1. PICK last \in page : cursor' = [cursor EXCEPT ![r] = last]
          BY <3>2 DEF FullPage
        <4>2. QED
          BY <3>2, <4>1, <2>2 DEF FullPage
      <3>3. QED
        BY <3>1, <3>2, <2>1 DEF TakePage
    <2>5. QED
      BY <1>4, <2>3, <2>4 DEF GetPage, nodeVars
  <1>5. ASSUME NEW r \in Handlers, GetStake(r) PROVE TypeOK'
    BY <1>5 DEF GetStake, Goto, Label, nodeVars, Snapshot
  <1>6. ASSUME NEW r \in Handlers, GetPostHeight(r) PROVE TypeOK'
    <2>1. ComputeError(r) # "none" => ComputeError(r) \in Codes
      BY DEF ComputeError, Codes
    <2>2. coins' \in [Handlers -> [UTXO -> {0, 1}]]
      <3>1. \A bag : SortUnique(bag) \in [UTXO -> {0, 1}]
        BY DEF SortUnique
      <3>2. \/ UNCHANGED coins
            \/ coins' = [coins EXCEPT ![r] =
                            SortUnique(parseAndFilterUTXOs(got[r], assets[r]))]
        BY <1>6 DEF GetPostHeight, Compute
      <3>3. SortUnique(parseAndFilterUTXOs(got[r], assets[r])) \in [UTXO -> {0, 1}]
        BY <3>1
      <3>4. QED
        BY <3>2, <3>3
    <2>3. /\ pc' \in [Handlers -> Label]
          /\ resp' \in [Handlers -> ResponseType]
          /\ \A h \in Handlers : pc'[h] = "page" => pc[h] = "page"
      <3>1. \/ Fail(r, "InternalError")
            \/ ComputeError(r) # "none" /\ Fail(r, ComputeError(r))
            \/ Goto(r, "index") /\ UNCHANGED resp
        BY <1>6 DEF GetPostHeight
      <3>2. CASE Fail(r, "InternalError")
        BY <3>2, FailType DEF Codes
      <3>3. CASE ComputeError(r) # "none" /\ Fail(r, ComputeError(r))
        BY <3>3, <2>1, FailType
      <3>4. CASE Goto(r, "index") /\ UNCHANGED resp
        BY <3>4 DEF Goto, Label
      <3>5. QED
        BY <3>1, <3>2, <3>3, <3>4
    <2>4. bal' \in [Handlers -> Nat]
      <3> DEFINE v == BalanceValue(parseAndFilterUTXOs(got[r], assets[r]), staked[r], req[r].sub, now)
      <3>1. UNCHANGED bal \/ bal' = [bal EXCEPT ![r] = v]
        BY <1>6 DEF GetPostHeight, Compute
      <3>2. parseAndFilterUTXOs(got[r], assets[r]) \in [UTXO -> Nat] /\ staked[r] \in SUBSET UTXO
        BY DEF parseAndFilterUTXOs
      <3>3. v \in Nat
        BY <3>2, BalanceIsNat
      <3> HIDE DEF v
      <3>4. QED
        BY <3>1, <3>3
    <2>5. QED
      BY <1>6, <2>2, <2>3, <2>4 DEF GetPostHeight, nodeVars
  <1>7. ASSUME NEW r \in Handlers, GetCurrentValidators(r) PROVE TypeOK'
    <2>1. ledger[height].stakers \in SUBSET Staker
      BY DEF Snapshot, StakersOfNode
    <2>2. PendingRewards(ledger[height].stakers, Mine) \in Nat
      BY <2>1, RewardsAreNat
    <2>3. QED
      BY <1>7, <2>2 DEF GetCurrentValidators, Goto, Label, nodeVars
  <1>8. ASSUME NEW r \in Handlers, GetRewardsHeight(r) PROVE TypeOK'
    BY <1>8 DEF GetRewardsHeight, Goto, Label, nodeVars
  <1>9. ASSUME NEW r \in Handlers, ParseNonGenesisBlock(r) PROVE TypeOK'
    <2>1. [status |-> "ok", code |-> "none", height |-> pre[r]] \in ResponseType
      BY DEF ResponseType
    <2>2. \/ Reply(r, [status |-> "ok", code |-> "none", height |-> pre[r]])
          \/ Fail(r, "InternalError")
          \/ Fail(r, "InvalidInput")
      BY <1>9 DEF ParseNonGenesisBlock
    <2>3. /\ pc' \in [Handlers -> Label]
          /\ resp' \in [Handlers -> ResponseType]
          /\ \A h \in Handlers : pc'[h] = "page" => pc[h] = "page"
      BY <2>1, <2>2, ReplyType, FailType DEF Codes
    <2>4. QED
      BY <1>9, <2>3 DEF ParseNonGenesisBlock, nodeVars
  <1>10. ASSUME NEW r \in Handlers, Finish(r) PROVE TypeOK'
    BY <1>10 DEF Finish, Goto, NoResp, ResponseType, Label, nodeVars
  <1>11. ASSUME NEW r \in Handlers, RPCError(r) PROVE TypeOK'
    <2>1. RPCErrorCode(r) \in Codes
      BY DEF RPCErrorCode, Codes
    <2>2. QED
      BY <1>11, <2>1, FailType DEF RPCError, Fault, nodeVars
  <1>12. CASE AcceptBlock
    <2>0. PICK n \in 0 .. MaxId + 1 - nextId,
               spent \in SUBSET ledger[height].utxos,
               unstaked \in SUBSET ledger[height].stake,
               imported \in SUBSET (shared["C"] \cup shared["X"]),
               stakers \in StakersOfNode :
            \E toStake \in SUBSET (nextId .. nextId + n - 1) :
                Block(n, spent, unstaked, imported, stakers, toStake)
      BY <1>12 DEF AcceptBlock
    <2>1. PICK toStake \in SUBSET (nextId .. nextId + n - 1) :
                Block(n, spent, unstaked, imported, stakers, toStake)
      BY <2>0
    <2>2. (nextId .. nextId + n - 1) \subseteq UTXO /\ nextId' \in 1 .. MaxId + 1
      BY <2>1 DEF Block, UTXO
    <2>3. ledger[height] \in Snapshot
      OBVIOUS
    <2>4. ledger' \in [0 .. height + 1 -> Snapshot]
      <3> DEFINE fresh == nextId .. nextId + n - 1
                 new == [utxos |-> (ledger[height].utxos \ spent) \cup unstaked
                                   \cup (fresh \ toStake),
                         stake |-> (ledger[height].stake \ unstaked) \cup toStake,
                         stakers |-> stakers]
      <3>1. new \in Snapshot
        BY <2>2, <2>3 DEF Snapshot
      <3>2. ledger' = [h \in 0 .. height + 1 |-> IF h <= height THEN ledger[h] ELSE new]
        BY <2>1 DEF Block
      <3> HIDE DEF new
      <3>3. \A h \in 0 .. height + 1 : h <= height => h \in 0 .. height
        OBVIOUS
      <3>4. QED
        BY <3>1, <3>2, <3>3
    <2>5. shared' \in [{"C", "X"} -> SUBSET UTXO]
      BY <2>1 DEF Block
    <2>6. /\ height' = height + 1
          /\ UNCHANGED <<indexed, now, handlerVars>>
      BY <1>12 DEF AcceptBlock
    <2>7. indexed' \in 0 .. height' /\ pre' \in [Handlers -> 0 .. height']
      BY <2>6 DEF handlerVars
    <2>8. QED
      BY <2>2, <2>4, <2>5, <2>6, <2>7 DEF handlerVars
  <1>13. ASSUME NEW c \in {"C", "X"}, AcceptExport(c) PROVE TypeOK'
    BY <1>13 DEF AcceptExport, handlerVars, UTXO
  <1>14. CASE IndexBlock
    BY <1>14 DEF IndexBlock, handlerVars
  <1>15. CASE Tick
    BY <1>15 DEF Tick, handlerVars
  <1>16. CASE UNCHANGED vars
    BY <1>16 DEF vars
  <1>17. QED
    BY <1>1, <1>2, <1>3, <1>4, <1>5, <1>6, <1>7, <1>8, <1>9, <1>10, <1>11, <1>12,
       <1>13, <1>14, <1>15, <1>16 DEF Next, Step

(* The handlers keep to their types whatever the chain does between their  *)
(* RPCs.                                                                   *)
THEOREM TypeCorrect == Spec => []TypeOK
  BY InitTypeOK, NextTypeOK, PTL DEF Spec
-----------------------------------------------------------------------------
(* What a handler has read stays what it was as long as neither the        *)
(* handler nor the P-chain moves.                                          *)
Still(r) ==
    /\ pc'[r] = pc[r] /\ req'[r] = req[r] /\ pre'[r] = pre[r] /\ src'[r] = src[r]
    /\ cursor'[r] = cursor[r] /\ got'[r] = got[r] /\ staked'[r] = staked[r]
    /\ resp'[r] = resp[r]

Consistent(r) ==
    /\ Reading(r)
    /\ Answered(r) /\ isSnapshot(req[r]) => SnapshotOf(r)

(* A handler that does not move, on a chain that does not move, stays      *)
(* consistent.                                                             *)
LEMMA StillConsistent ==
  ASSUME NEW r \in Handlers, Consistent(r), Still(r), UNCHANGED <<height, ledger>>
  PROVE  Consistent(r)'
  BY DEF Still, Consistent, Reading, Answered, SnapshotOf, ReadSoFar, StakeRead,
         isSnapshot, isRewards, fetchSharedMemory, fetchStaked, Received

(* A step of one handler leaves the others where they are. *)
LEMMA OthersStill ==
  ASSUME TypeOK, NEW r \in Handlers, NEW h \in Handlers, h # r,
         \/ \E q \in Reqs : Receive(r, q)
         \/ Step(r)
         \/ RPCError(r)
  PROVE  Still(h) /\ UNCHANGED <<height, ledger>>
  <1> USE DEF Still, TypeOK, nodeVars, Reply, Fail, Goto
  <1>1. CASE \E q \in Reqs : Receive(r, q)
    BY <1>1 DEF Receive
  <1>2. CASE FetchAssets(r)
    BY <1>2 DEF FetchAssets, Dispatch
  <1>3. CASE GetPreHeight(r)
    BY <1>3 DEF GetPreHeight
  <1>4. CASE GetPage(r)
    BY <1>4 DEF GetPage, TakePage, LastPage, FullPage
  <1>5. CASE GetStake(r)
    BY <1>5 DEF GetStake
  <1>6. CASE GetPostHeight(r)
    BY <1>6 DEF GetPostHeight
  <1>7. CASE GetCurrentValidators(r) \/ GetRewardsHeight(r)
    BY <1>7 DEF GetCurrentValidators, GetRewardsHeight
  <1>8. CASE ParseNonGenesisBlock(r) \/ Finish(r)
    BY <1>8 DEF ParseNonGenesisBlock, Finish
  <1>9. CASE RPCError(r)
    BY <1>9 DEF RPCError
  <1>10. QED
    BY <1>1, <1>2, <1>3, <1>4, <1>5, <1>6, <1>7, <1>8, <1>9 DEF Step

(* A handler that has replied with an error claims nothing. *)
LEMMA FailConsistent ==
  ASSUME TypeOK, NEW r \in Handlers, NEW code, Fail(r, code)
  PROVE  Consistent(r)'
  <1>1. pc'[r] = "done" /\ resp'[r].status = "err"
    BY DEF Fail, Reply, Goto, ErrorResp, TypeOK
  <1>2. QED
    BY <1>1 DEF Consistent, Reading, Answered

(* Pages are finite, so their cardinalities are numbers. *)
LEMMA PageIsFinite ==
  ASSUME NEW page \in SUBSET UTXO
  PROVE  Cardinality(page) \in Nat /\ PageSize \in Nat
  <1>1. MaxId \in Nat /\ PageSize \in Nat
    BY ConstantsAssumption
  <1>2. IsFiniteSet(UTXO)
    BY <1>1, FS_Interval DEF UTXO
  <1>3. IsFiniteSet(page)
    BY <1>2, FS_Subset
  <1>4. QED
    BY <1>1, <1>3, FS_CardinalityType

(* A page of the listing S, cut at its least element, is the part of S     *)
(* from that element on.                                                   *)
LEMMA PageIsUpperPart ==
  ASSUME NEW S \in SUBSET Int, NEW page \in SUBSET S, NEW last \in page,
         \A u \in page : last <= u,
         \A u \in page, v \in S \ page : u > v
  PROVE  \A u \in S : u >= last <=> u \in page
  <1> TAKE u \in S
  <1>1. CASE u \in page
    BY <1>1
  <1>2. CASE u \notin page
    <2>1. last > u
      BY <1>2
    <2>2. last \in Int /\ u \in Int
      OBVIOUS
    <2>3. QED
      BY <1>2, <2>1, <2>2
  <1>3. QED
    BY <1>1, <1>2

(* While the height is unchanged a page extends what was read down to the  *)
(* new cursor, and the last page completes the list.                       *)
LEMMA PageReads ==
  ASSUME TypeOK, NEW r \in Handlers, pc[r] = "page", src[r] = "Any",
         pre[r] = height, ReadSoFar(r), GetPage(r)
  PROVE  IF pc'[r] = "page" THEN ReadSoFar(r)'
         ELSE Received(got[r])' = ledger[height].utxos
  <1> DEFINE U == ledger[height].utxos
             S == After(U, cursor[r], FALSE)
  <1>1. PICK page \in SUBSET S : TakePage(r, page, S)
    BY DEF GetPage, Source
  <1>2. UNCHANGED <<height, ledger>> /\ U \subseteq UTXO
    BY DEF GetPage, nodeVars, TypeOK, Snapshot
  <1>3. Received(got[r]') = Received(got[r]) \cup page
    <2>1. got'[r] = [u \in UTXO |-> IF u \in page THEN got[r][u] + 1 ELSE got[r][u]]
      BY <1>1 DEF TakePage, TypeOK
    <2>2. page \subseteq UTXO /\ got[r] \in [UTXO -> Nat]
      BY <1>2 DEF After, TypeOK
    <2>3. QED
      BY <2>1, <2>2 DEF Received
  <1>4. Received(got[r]) \cup S = U
    BY <1>2 DEF ReadSoFar, After, UTXO
  <1>5. CASE IsLast(page)
    <2>1. page = S
      <3>1. IsPage(page, S)
        BY <1>1 DEF TakePage
      <3>2. page \subseteq UTXO
        BY <1>2 DEF After
      <3> HIDE DEF S
      <3>3. Cardinality(page) # PageSize
        BY <1>5, <3>2, PageIsFinite DEF IsLast
      <3>4. QED
        BY <3>1, <3>3 DEF IsPage
    <2>2. pc'[r] # "page"
      BY <1>1, <1>5 DEF TakePage, LastPage, NextSource, AfterUTXOs, Goto, TypeOK
    <2>3. QED
      BY <1>2, <1>3, <1>4, <2>1, <2>2
  <1>6. CASE ~IsLast(page)
    <2>1. PICK last \in page : /\ \A u \in page : last <= u
                              /\ cursor' = [cursor EXCEPT ![r] = last]
      BY <1>1, <1>6 DEF TakePage, FullPage
    <2>2. pc' = pc /\ cursor'[r] = last
      BY <1>1, <1>6, <2>1 DEF TakePage, FullPage, TypeOK
    <2>3. \A u \in page, v \in S \ page : u > v
      BY <1>1 DEF TakePage, IsPage
    <2>4. Received(got[r]) \cup page = {u \in U : u >= last}
      <3>1. U \subseteq Int /\ page \subseteq Int /\ cursor[r] \in Int
        BY <1>2 DEF UTXO, After, TypeOK
      <3>2. CASE cursor[r] = 0
        <4>1. S = U /\ Received(got[r]) = {}
          BY <1>2, <3>2 DEF ReadSoFar, After, UTXO
        <4> HIDE DEF S, U
        <4>2. page \subseteq U
          BY <4>1
        <4>3. U \subseteq Int /\ \A u \in page, v \in U \ page : u > v
          BY <2>3, <3>1, <4>1
        <4>4. \A u \in U : u >= last <=> u \in page
          BY <2>1, <4>2, <4>3, PageIsUpperPart
        <4>5. QED
          BY <4>1, <4>2, <4>4
      <3>3. CASE cursor[r] # 0
        <4>1. S = {u \in U : u < cursor[r]} /\ Received(got[r]) = {u \in U : u >= cursor[r]}
          BY <3>3 DEF ReadSoFar, After
        <4> HIDE DEF S, U
        <4>2. page \subseteq U
          BY <4>1
        <4>3. S \subseteq Int /\ page \subseteq S
          BY <3>1, <4>1
        <4>4. \A u \in S : u >= last <=> u \in page
          BY <2>1, <2>3, <4>3, PageIsUpperPart
        <4>5. last \in Int /\ last < cursor[r]
          BY <4>1, <4>3
        <4>6. \A u \in U \ S : u >= cursor[r] /\ u >= last
          BY <3>1, <4>1, <4>5
        <4>7. \A u \in S : u < cursor[r] /\ u \in Int
          BY <4>1, <4>3
        <4>8. \A u \in S : ~(u >= cursor[r])
          BY <3>1, <4>7
        <4>9. QED
          BY <4>1, <4>2, <4>4, <4>6, <4>8
      <3>4. QED
        BY <3>2, <3>3
    <2>5. last \in U /\ last # 0
      BY <1>2 DEF After, UTXO
    <2>6. QED
      BY <1>2, <1>3, <2>2, <2>4, <2>5 DEF ReadSoFar
  <1>7. QED
    BY <1>5, <1>6

(* Every step of a handler keeps its claims about what it has read. *)
LEMMA StepConsistent ==
  ASSUME TypeOK, NEW r \in Handlers, Consistent(r),
         \/ \E q \in Reqs : Receive(r, q)
         \/ Step(r)
         \/ RPCError(r)
  PROVE  Consistent(r)'
  <1>1. ASSUME NEW q \in Reqs, Receive(r, q) PROVE Consistent(r)'
    <2>1. CASE EarlyError(q) # "none"
      BY <1>1, <2>1, FailConsistent DEF Receive
    <2>2. CASE EarlyError(q) = "none"
      <3>1. /\ pc'[r] = "assets" /\ got'[r] = NoUTXOs
            /\ cursor'[r] = 0 /\ staked'[r] = {}
        BY <1>1, <2>2 DEF Receive, Goto, TypeOK
      <3>2. QED
        BY <3>1 DEF Consistent, Reading, Answered, Received, NoUTXOs
    <2>3. QED
      BY <2>1, <2>2
  <1>2. CASE FetchAssets(r)
    <2>1. (\E code : Fail(r, code)) \/ (~(\E code : Fail(r, code)) /\ Dispatch(r))
      BY <1>2 DEF FetchAssets
    <2>2. CASE \E code : Fail(r, code)
      BY <2>2, FailConsistent
    <2>3. CASE ~(\E code : Fail(r, code)) /\ Dispatch(r)
      <3>1. IF isRewards(req[r]) THEN pc'[r] = "validators" ELSE pc'[r] = "pre"
        BY <2>3 DEF Dispatch, Goto, TypeOK, isRewards
      <3>2. /\ pc[r] = "assets"
            /\ UNCHANGED <<height, ledger, req, pre, src, cursor, got, staked>>
        BY <1>2 DEF FetchAssets, nodeVars
      <3>3. QED
        BY <3>1, <3>2 DEF Consistent, Reading, Answered, isRewards, Received
    <2>4. QED
      BY <2>1, <2>2, <2>3
  <1>3. CASE GetPreHeight(r)
    <2>1. /\ pc[r] = "pre" /\ pc'[r] = "page"
          /\ src'[r] = IF fetchSharedMemory(req[r]) THEN "C" ELSE "Any"
          /\ UNCHANGED <<height, ledger, req, cursor, got, staked>>
      BY <1>3 DEF GetPreHeight, Goto, nodeVars, TypeOK
    <2>2. QED
      BY <2>1 DEF Consistent, Reading, Answered, ReadSoFar, isSnapshot, Received,
                  fetchSharedMemory
  <1>4. CASE GetPage(r)
    <2>1. /\ pc[r] = "page" /\ pc'[r] \in {"page", "stake", "post"}
          /\ pc'[r] = "stake" => fetchStaked(req[r])
          /\ pc'[r] = "post" => ~fetchStaked(req[r])
          /\ src[r] = "Any" /\ pc'[r] = "page" => src'[r] = "Any"
          /\ UNCHANGED <<height, ledger, req, pre, staked>>
      <3>1. PICK repeat, page, S : TakePage(r, page, S)
        BY <1>4 DEF GetPage
      <3>2. CASE LastPage(r)
        BY <1>4, <3>2 DEF GetPage, LastPage, NextSource, AfterUTXOs, Goto, TypeOK, nodeVars
      <3>3. CASE FullPage(r, page)
        BY <1>4, <3>3 DEF GetPage, FullPage, nodeVars
      <3>4. QED
        BY <3>1, <3>2, <3>3 DEF TakePage
    <2>2. isSnapshot(req[r]) /\ pre[r] = height =>
            IF pc'[r] = "page" THEN ReadSoFar(r)'
            ELSE Received(got[r])' = ledger[height].utxos
      BY <1>4, <2>1, PageReads DEF Consistent, Reading
    <2>3. QED
      BY <2>1, <2>2 DEF Consistent, Reading, Answered, StakeRead, isSnapshot, isRewards,
                        fetchSharedMemory, fetchStaked
  <1>5. CASE GetStake(r)
    <2>1. /\ pc[r] = "stake" /\ pc'[r] = "post" /\ staked'[r] = ledger[height].stake
          /\ UNCHANGED <<height, ledger, req, pre, src, cursor, got>>
      BY <1>5 DEF GetStake, Goto, nodeVars, TypeOK
    <2>2. QED
      BY <2>1 DEF Consistent, Reading, Answered, StakeRead, isSnapshot, isRewards,
                  fetchSharedMemory, fetchStaked, Received
  <1>6. CASE GetPostHeight(r)
    <2>1. CASE \E code : Fail(r, code)
      BY <2>1, FailConsistent
    <2>2. CASE height = pre[r] /\ Goto(r, "index")
      <3>1. /\ pc[r] = "post" /\ pc'[r] = "index"
            /\ UNCHANGED <<height, ledger, req, pre, got, staked>>
        BY <1>6, <2>2 DEF GetPostHeight, HeightMoved, Goto, nodeVars, TypeOK
      <3>2. QED
        BY <2>2, <3>1 DEF Consistent, Reading, Answered, SnapshotOf, StakeRead,
              isSnapshot, isRewards, fetchSharedMemory, fetchStaked, Received
    <2>3. QED
      BY <1>6, <2>1, <2>2 DEF GetPostHeight, HeightMoved
  <1>7. CASE GetCurrentValidators(r) \/ GetRewardsHeight(r)
    <2>1. /\ isRewards(req[r]) /\ UNCHANGED req
          /\ pc'[r] \in {"height", "index"}
      BY <1>7 DEF GetCurrentValidators, GetRewardsHeight, Goto, TypeOK, Consistent, Reading
    <2>2. QED
      BY <2>1 DEF Consistent, Reading, Answered, isSnapshot, isRewards, fetchSharedMemory
  <1>8. CASE ParseNonGenesisBlock(r)
    <2>1. CASE \E code : Fail(r, code)
      BY <2>1, FailConsistent
    <2>2. CASE Reply(r, [status |-> "ok", code |-> "none", height |-> pre[r]])
      <3>1. /\ pc[r] = "index" /\ pc'[r] = "done"
            /\ UNCHANGED <<height, ledger, req, pre, got, staked>>
        BY <1>8, <2>2 DEF ParseNonGenesisBlock, Reply, Goto, nodeVars, TypeOK
      <3>2. QED
        BY <3>1 DEF Consistent, Reading, Answered, SnapshotOf,
              isSnapshot, isRewards, fetchSharedMemory, fetchStaked, Received
    <2>3. QED
      BY <1>8, <2>1, <2>2 DEF ParseNonGenesisBlock
  <1>9. CASE Finish(r)
    <2>1. pc'[r] = "idle"
      BY <1>9 DEF Finish, Goto, TypeOK
    <2>2. QED
      BY <2>1 DEF Consistent, Reading, Answered
  <1>10. CASE RPCError(r)
    BY <1>10, FailConsistent DEF RPCError
  <1>11. QED
    BY <1>1, <1>2, <1>3, <1>4, <1>5, <1>6, <1>7, <1>8, <1>9, <1>10 DEF Step

(* A new block voids the claims of requests in progress and leaves those   *)
(* of answered ones, which are about an older block, as they were.         *)
LEMMA BlockConsistent ==
  ASSUME TypeOK, NEW r \in Handlers, Consistent(r), AcceptBlock
  PROVE  Consistent(r)'
  <1>1. /\ height' = height + 1
        /\ UNCHANGED <<pc, req, pre, src, cursor, got, staked, resp>>
    BY DEF AcceptBlock, handlerVars
  <1>2. \A h \in 0 .. height : ledger'[h] = ledger[h]
    <2>1. PICK n, spent, unstaked, imported, stakers, toStake :
                Block(n, spent, unstaked, imported, stakers, toStake)
      BY DEF AcceptBlock
    <2>2. QED
      BY <2>1 DEF Block, TypeOK
  <1>3. pre[r] \in 0 .. height /\ pre'[r] # height' /\ ledger'[pre[r]] = ledger[pre[r]]
    BY <1>1, <1>2 DEF TypeOK
  <1>4. QED
    BY <1>1, <1>3 DEF Consistent, Reading, Answered, SnapshotOf, isSnapshot, isRewards,
          fetchSharedMemory, fetchStaked, Received

(* Every step, of any handler or of the environment, keeps every handler   *)
(* consistent.                                                             *)
LEMMA NextConsistent ==
  ASSUME TypeOK, [Next]_vars, \A r \in Handlers : Consistent(r)
  PROVE  \A r \in Handlers : Consistent(r)'
  <1> SUFFICES ASSUME NEW h \in Handlers PROVE Consistent(h)'
    OBVIOUS
  <1>1. ASSUME NEW r \in Handlers,
               \/ \E q \in Reqs : Receive(r, q)
               \/ Step(r)
               \/ RPCError(r)
        PROVE Consistent(h)'
    <2>1. CASE h = r
      BY <1>1, <2>1, StepConsistent
    <2>2. CASE h # r
      BY <1>1, <2>2, OthersStill, StillConsistent
    <2>3. QED
      BY <2>1, <2>2
  <1>2. CASE AcceptBlock
    BY <1>2, BlockConsistent
  <1>3. CASE (\E c \in {"C", "X"} : AcceptExport(c)) \/ IndexBlock \/ Tick \/ UNCHANGED vars
    <2>1. Still(h) /\ UNCHANGED <<height, ledger>>
      BY <1>3 DEF Still, AcceptExport, IndexBlock, Tick, vars, handlerVars
    <2>2. QED
      BY <2>1, StillConsistent
  <1>4. QED
    BY <1>1, <1>2, <1>3 DEF Next

(* IInv is an inductive invariant of the specification. *)
LEMMA InitIInv == Init => IInv
  <1>1. Init => \A r \in Handlers : Consistent(r)
    BY DEF Init, Consistent, Reading, Answered
  <1>2. QED
    BY <1>1, InitTypeOK DEF IInv, ReadingInv, SnapshotConsistency, Consistent

(* The inductive invariant is preserved by every step. *)
LEMMA NextIInv == IInv /\ [Next]_vars => IInv'
  <1>1. IInv => TypeOK /\ \A r \in Handlers : Consistent(r)
    BY DEF IInv, ReadingInv, SnapshotConsistency, Consistent
  <1>2. TypeOK' /\ (\A r \in Handlers : Consistent(r)') => IInv'
    BY DEF IInv, ReadingInv, SnapshotConsistency, Consistent
  <1>3. QED
    BY <1>1, <1>2, NextTypeOK, NextConsistent

(* While the height is the one read first, the pages read so far are the   *)
(* newest part of the UTXO list down to the cursor, whatever was imported, *)
(* exported or repeated between them.                                      *)
THEOREM ReadingCorrect == Spec => []ReadingInv
  <1>1. IInv => ReadingInv
    BY DEF IInv
  <1>2. QED
    BY <1>1, InitIInv, NextIInv, PTL DEF Spec

(* A successful account response rests on exactly the UTXOs and staked     *)
(* outputs of the block it names, whatever blocks were accepted between    *)
(* its RPCs.                                                               *)
THEOREM SnapshotCorrect == Spec => []SnapshotConsistency
  <1>1. IInv => SnapshotConsistency
    BY DEF IInv
  <1>2. QED
    BY <1>1, InitIInv, NextIInv, PTL DEF Spec

-----------------------------------------------------------------------------
(* Coins.  What an answered handler holds besides the outputs it read: the *)
(* coins computed from them, and the height its response names.            *)
CoinsComputed(r) ==
    /\ Succeeded(r) => resp[r].height = pre[r]
    /\ Answered(r) /\ req[r].endpoint = "coins" =>
            coins[r] = SortUnique(parseAndFilterUTXOs(got[r], assets[r]))

AllComputed == \A r \in Handlers : CoinsComputed(r)

(* A handler that does not move keeps what it computed. *)
LEMMA StillComputed ==
  ASSUME NEW r \in Handlers, CoinsComputed(r), Still(r),
         coins'[r] = coins[r], assets'[r] = assets[r]
  PROVE  CoinsComputed(r)'
  BY DEF Still, CoinsComputed, Succeeded, Answered, SortUnique, parseAndFilterUTXOs

(* A step of one handler leaves the coins and filters of the others alone. *)
LEMMA OthersKeepCoins ==
  ASSUME TypeOK, NEW r \in Handlers, NEW h \in Handlers, h # r,
         \/ \E q \in Reqs : Receive(r, q)
         \/ Step(r)
         \/ RPCError(r)
  PROVE  coins'[h] = coins[h] /\ assets'[h] = assets[h]
  <1> USE DEF TypeOK
  <1>1. CASE \E q \in Reqs : Receive(r, q)
    BY <1>1 DEF Receive
  <1>2. CASE FetchAssets(r)
    BY <1>2 DEF FetchAssets
  <1>3. CASE GetPreHeight(r) \/ GetPage(r) \/ GetStake(r)
    BY <1>3 DEF GetPreHeight, GetPage, GetStake
  <1>4. CASE GetPostHeight(r)
    BY <1>4 DEF GetPostHeight, Compute
  <1>5. CASE GetCurrentValidators(r) \/ GetRewardsHeight(r)
    BY <1>5 DEF GetCurrentValidators, GetRewardsHeight
  <1>6. CASE ParseNonGenesisBlock(r) \/ Finish(r) \/ RPCError(r)
    BY <1>6 DEF ParseNonGenesisBlock, Finish, RPCError
  <1>7. QED
    BY <1>1, <1>2, <1>3, <1>4, <1>5, <1>6 DEF Step

(* A handler's own step: coins are computed at the second height, from the *)
(* outputs and the filter in force, and nothing touches them afterwards.   *)
LEMMA StepComputed ==
  ASSUME TypeOK, NEW r \in Handlers, Reading(r), CoinsComputed(r),
         \/ \E q \in Reqs : Receive(r, q)
         \/ Step(r)
         \/ RPCError(r)
  PROVE  CoinsComputed(r)'
  <1>1. ASSUME ~Answered(r)' PROVE CoinsComputed(r)'
    BY <1>1 DEF CoinsComputed, Succeeded, Answered
  <1>2. ASSUME NEW code, Fail(r, code) PROVE ~Answered(r)'
    BY <1>2 DEF Fail, Reply, Goto, ErrorResp, Answered, TypeOK
  <1>3. CASE \E q \in Reqs : Receive(r, q)
    <2>1. (\E code : Fail(r, code)) \/ pc'[r] = "assets"
      BY <1>3 DEF Receive, Goto, TypeOK
    <2>2. ~Answered(r)'
      BY <2>1, <1>2 DEF Answered
    <2>3. QED
      BY <2>2, <1>1
  <1>4. CASE FetchAssets(r)
    <2>1. (\E code : Fail(r, code)) \/ pc'[r] \in {"validators", "pre"}
      BY <1>4 DEF FetchAssets, Dispatch, Goto, TypeOK
    <2>2. ~Answered(r)'
      BY <2>1, <1>2 DEF Answered
    <2>3. QED
      BY <2>2, <1>1
  <1>5. CASE GetPreHeight(r) \/ GetStake(r) \/ GetCurrentValidators(r) \/ Finish(r)
    <2>1. pc'[r] \in {"page", "post", "height", "idle"}
      BY <1>5 DEF GetPreHeight, GetStake, GetCurrentValidators, Finish, Goto, TypeOK
    <2>2. ~Answered(r)'
      BY <2>1 DEF Answered
    <2>3. QED
      BY <2>2, <1>1
  <1>6. CASE GetPage(r)
    <2>1. PICK page, S : TakePage(r, page, S)
      BY <1>6 DEF GetPage
    <2>2. CASE LastPage(r)
      <3>1. pc'[r] \in {"page", "stake", "post"}
        BY <2>2 DEF LastPage, AfterUTXOs, Goto, TypeOK
      <3>2. QED
        BY <3>1, <1>1 DEF Answered
    <2>3. CASE FullPage(r, page)
      <3>1. pc'[r] = "page"
        BY <1>6, <2>3 DEF GetPage, FullPage
      <3>2. QED
        BY <3>1, <1>1 DEF Answered
    <2>4. QED
      BY <2>1, <2>2, <2>3 DEF TakePage
  <1>7. CASE GetPostHeight(r)
    <2>1. (\E code : Fail(r, code)) \/ (Compute(r) /\ Goto(r, "index"))
      BY <1>7 DEF GetPostHeight
    <2>2. CASE \E code : Fail(r, code)
      BY <2>2, <1>2, <1>1
    <2>3. CASE Compute(r) /\ Goto(r, "index")
      <3>1. pc'[r] = "index" /\ UNCHANGED <<req, got, assets>>
        BY <1>7, <2>3 DEF GetPostHeight, Goto, TypeOK
      <3>2. req[r].endpoint = "coins" =>
                coins'[r] = SortUnique(parseAndFilterUTXOs(got[r], assets[r]))
        BY <2>3 DEF Compute, TypeOK
      <3>3. SortUnique(parseAndFilterUTXOs(got[r], assets[r]))'
                = SortUnique(parseAndFilterUTXOs(got[r], assets[r]))
        BY <3>1 DEF SortUnique, parseAndFilterUTXOs
      <3>4. QED
        BY <3>1, <3>2, <3>3 DEF CoinsComputed, Succeeded, Answered
    <2>4. QED
      BY <2>1, <2>2, <2>3
  <1>8. CASE GetRewardsHeight(r)
    <2>1. pc[r] = "height" /\ pc'[r] = "index" /\ req' = req
      BY <1>8 DEF GetRewardsHeight, Goto, TypeOK
    <2>2. req'[r].endpoint # "coins"
      BY <2>1 DEF Reading, isRewards
    <2>3. QED
      BY <2>1, <2>2 DEF CoinsComputed, Succeeded
  <1>9. CASE ParseNonGenesisBlock(r)
    <2>1. \/ \E code : Fail(r, code)
          \/ Reply(r, [status |-> "ok", code |-> "none", height |-> pre[r]])
      BY <1>9 DEF ParseNonGenesisBlock
    <2>2. CASE \E code : Fail(r, code)
      BY <2>2, <1>2, <1>1
    <2>3. CASE Reply(r, [status |-> "ok", code |-> "none", height |-> pre[r]])
      <3>1. /\ Answered(r) /\ UNCHANGED <<req, got, assets, coins, pre>>
            /\ resp'[r].height = pre[r]
        BY <1>9, <2>3 DEF ParseNonGenesisBlock, Reply, Answered, TypeOK
      <3>2. SortUnique(parseAndFilterUTXOs(got[r], assets[r]))'
                = SortUnique(parseAndFilterUTXOs(got[r], assets[r]))
        BY <3>1 DEF SortUnique, parseAndFilterUTXOs
      <3>3. QED
        BY <3>1, <3>2 DEF CoinsComputed
    <2>4. QED
      BY <2>1, <2>2, <2>3
  <1>10. CASE RPCError(r)
    BY <1>10, <1>2, <1>1 DEF RPCError
  <1>11. QED
    BY <1>3, <1>4, <1>5, <1>6, <1>7, <1>8, <1>9, <1>10 DEF Step

(* Every step keeps what every handler computed. *)
LEMMA NextComputed == IInv /\ AllComputed /\ [Next]_vars => AllComputed'
  <1> SUFFICES ASSUME IInv, AllComputed, [Next]_vars, NEW h \in Handlers
               PROVE  CoinsComputed(h)'
    BY DEF AllComputed
  <1>1. TypeOK /\ Reading(h) /\ CoinsComputed(h)
    BY DEF IInv, ReadingInv, AllComputed
  <1>2. ASSUME NEW r \in Handlers,
               \/ \E q \in Reqs : Receive(r, q)
               \/ Step(r)
               \/ RPCError(r)
        PROVE CoinsComputed(h)'
    <2>1. CASE h = r
      BY <1>1, <1>2, <2>1, StepComputed
    <2>2. CASE h # r
      BY <1>1, <1>2, <2>2, OthersStill, OthersKeepCoins, StillComputed
    <2>3. QED
      BY <2>1, <2>2
  <1>3. CASE \/ AcceptBlock \/ IndexBlock \/ Tick \/ UNCHANGED vars
             \/ \E c \in {"C", "X"} : AcceptExport(c)
    <2>1. Still(h) /\ coins'[h] = coins[h] /\ assets'[h] = assets[h]
      BY <1>3 DEF Still, AcceptBlock, AcceptExport, IndexBlock, Tick, vars, handlerVars
    <2>2. QED
      BY <1>1, <2>1, StillComputed
  <1>4. QED
    BY <1>2, <1>3 DEF Next

(* A successful coins response lists, once each, exactly the single-owner  *)
(* UTXOs of the block it names that pass the asset filter in force.        *)
THEOREM CoinsCorrect == Spec => []CoinsOfItsBlock
  <1>1. Init => AllComputed
    BY DEF Init, AllComputed, CoinsComputed, Succeeded, Answered
  <1>2. IInv /\ AllComputed => CoinsOfItsBlock
    <2> SUFFICES ASSUME IInv, AllComputed, NEW r \in Handlers,
                        Succeeded(r), req[r].endpoint = "coins", isSnapshot(req[r])
                 PROVE  coins[r] = [u \in UTXO |->
                            IF /\ u \in ledger[resp[r].height].utxos
                               /\ Out[u].addrs <= 1
                               /\ assets[r] = {} \/ Out[u].asset \in assets[r]
                            THEN 1 ELSE 0]
      BY DEF CoinsOfItsBlock
    <2>1. Answered(r) /\ CoinsComputed(r)
      BY DEF AllComputed, Succeeded, Answered
    <2>2. Received(got[r]) = ledger[resp[r].height].utxos
      BY <2>1 DEF IInv, SnapshotConsistency, SnapshotOf, CoinsComputed
    <2>3. \A u \in UTXO : got[r][u] > 0 <=> u \in ledger[resp[r].height].utxos
      BY <2>2 DEF Received
    <2>4. coins[r] = SortUnique(parseAndFilterUTXOs(got[r], assets[r]))
      BY <2>1 DEF CoinsComputed
    <2>5. QED
      BY <2>3, <2>4 DEF SortUnique, parseAndFilterUTXOs, Eligible
  <1>3. QED
    BY <1>1, <1>2, InitIInv, NextIInv, NextComputed, PTL DEF Spec

-----------------------------------------------------------------------------
(* Refinement of AtomicLedgerRead.  A step of a handler changes the        *)
(* abstract state of that handler only.                                    *)
HandlerStep(r) ==
    \/ \E q \in Reqs : Receive(r, q)
    \/ Step(r)
    \/ RPCError(r)

Moves(r, phase, answer) ==
    /\ absPhase' = [absPhase EXCEPT ![r] = phase]
    /\ absAnswer' = [absAnswer EXCEPT ![r] = answer]
    /\ UNCHANGED <<height, ledger>>

(* A handler that does not move does not move abstractly either. *)
LEMMA StillAbstractly ==
  ASSUME NEW h \in Handlers, Still(h)
  PROVE  phaseOf(h)' = phaseOf(h) /\ answerOf(h)' = answerOf(h)
  BY DEF Still, phaseOf, answerOf, Answered, isSnapshot, isRewards, fetchSharedMemory,
         Received, NoAnswer

(* A step of a handler changes the abstract state of that handler only. *)
LEMMA OneMoves ==
  ASSUME TypeOK, NEW r \in Handlers, HandlerStep(r)
  PROVE  Moves(r, phaseOf(r)', answerOf(r)')
  <1>1. \A h \in Handlers : h # r =>
            phaseOf(h)' = phaseOf(h) /\ answerOf(h)' = answerOf(h)
    BY OthersStill, StillAbstractly DEF HandlerStep
  <1>2. UNCHANGED <<height, ledger>>
    BY DEF HandlerStep, Receive, Step, RPCError, FetchAssets, GetPreHeight, GetPage,
           GetStake, GetPostHeight, GetCurrentValidators, GetRewardsHeight,
           ParseNonGenesisBlock, Finish, nodeVars
  <1>3. absPhase' = [absPhase EXCEPT ![r] = phaseOf(r)']
    BY <1>1 DEF absPhase
  <1>4. absAnswer' = [absAnswer EXCEPT ![r] = answerOf(r)']
    BY <1>1 DEF absAnswer
  <1>5. QED
    BY <1>2, <1>3, <1>4 DEF Moves

(* The moves of a handler that AtomicLedgerRead allows, from its current   *)
(* phase and answer (p, a) to the next (p1, a1).                           *)
Allowed(r, p, a, p1, a1) ==
    \/ p1 = p /\ a1 = a
    \/ p = "idle" /\ p1 = "open" /\ a1 = a
    \/ /\ p = "open" /\ p1 = "answered"
       /\ \E withStake \in BOOLEAN : a1 = Abs!Look(withStake)
    \/ p \in {"idle", "open", "answered"} /\ p1 = "closed" /\ a1 = NoAnswer
    \/ p \in {"answered", "closed"} /\ p1 = "idle" /\ a1 = NoAnswer

(* A change allowed for one handler is a step of AtomicLedgerRead. *)
LEMMA AllowedIsAbstract ==
  ASSUME NEW r \in Handlers, NEW p1, NEW a1, Moves(r, p1, a1),
         Allowed(r, phaseOf(r), answerOf(r), p1, a1)
  PROVE  [Abs!ANext]_(Abs!absVars)
  <1>1. absPhase[r] = phaseOf(r) /\ absAnswer[r] = answerOf(r)
    BY DEF absPhase, absAnswer
  <1>2. CASE p1 = phaseOf(r) /\ a1 = answerOf(r)
    <2>1. absPhase' = absPhase /\ absAnswer' = absAnswer
      BY <1>1, <1>2 DEF Moves, absPhase, absAnswer
    <2>2. QED
      BY <2>1 DEF Moves, Abs!absVars
  <1>3. CASE phaseOf(r) = "idle" /\ p1 = "open" /\ a1 = answerOf(r)
    <2>1. absAnswer' = absAnswer
      BY <1>1, <1>3 DEF Moves, absAnswer
    <2>2. Abs!Open(r)
      BY <1>1, <1>3, <2>1 DEF Moves, Abs!Open
    <2>3. QED
      BY <2>2 DEF Abs!ANext
  <1>4. CASE /\ phaseOf(r) = "open" /\ p1 = "answered"
             /\ \E withStake \in BOOLEAN : a1 = Abs!Look(withStake)
    <2>1. \E withStake \in BOOLEAN : Abs!Read(r, withStake)
      BY <1>1, <1>4 DEF Moves, Abs!Read
    <2>2. QED
      BY <2>1 DEF Abs!ANext
  <1>5. CASE phaseOf(r) \in {"idle", "open", "answered"} /\ p1 = "closed" /\ a1 = NoAnswer
    <2>1. Abs!Close(r)
      BY <1>1, <1>5 DEF Moves, Abs!Close
    <2>2. QED
      BY <2>1 DEF Abs!ANext
  <1>6. CASE phaseOf(r) \in {"answered", "closed"} /\ p1 = "idle" /\ a1 = NoAnswer
    <2>1. Abs!Forget(r)
      BY <1>1, <1>6 DEF Moves, Abs!Forget
    <2>2. QED
      BY <2>1 DEF Abs!ANext
  <1>7. QED
    BY <1>2, <1>3, <1>4, <1>5, <1>6 DEF Allowed

(* Ending a request in an error closes it. *)
LEMMA FailIsAllowed ==
  ASSUME TypeOK, NEW r \in Handlers, NEW code, Fail(r, code), pc[r] # "done"
  PROVE  Allowed(r, phaseOf(r), answerOf(r), phaseOf(r)', answerOf(r)')
  <1>1. pc'[r] = "done" /\ resp'[r].status = "err"
    BY DEF Fail, Reply, Goto, ErrorResp, TypeOK
  <1>2. phaseOf(r)' = "closed" /\ answerOf(r)' = NoAnswer
    BY <1>1 DEF phaseOf, answerOf, Answered, NoAnswer
  <1>3. phaseOf(r) \in {"idle", "open", "answered"}
    BY DEF phaseOf
  <1>4. QED
    BY <1>2, <1>3 DEF Allowed

(* Every step of a handler is an allowed move; the successful GetPostHeight *)
(* is the instant at which the request looked at the ledger.               *)
LEMMA StepIsAllowed ==
  ASSUME TypeOK, NEW r \in Handlers, Consistent(r), HandlerStep(r)
  PROVE  Allowed(r, phaseOf(r), answerOf(r), phaseOf(r)', answerOf(r)')
  <1> DEFINE Goal == Allowed(r, phaseOf(r), answerOf(r), phaseOf(r)', answerOf(r)')
  <1>1. ASSUME NEW q \in Reqs, Receive(r, q) PROVE Goal
    <2>1. CASE EarlyError(q) # "none"
      BY <1>1, <2>1, FailIsAllowed DEF Receive
    <2>2. CASE EarlyError(q) = "none"
      <3>1. pc[r] = "idle" /\ pc'[r] = "assets"
        BY <1>1, <2>2 DEF Receive, Goto, TypeOK
      <3>2. QED
        BY <3>1 DEF Allowed, phaseOf, answerOf, Answered, NoAnswer
    <2>3. QED
      BY <2>1, <2>2
  <1>2. ASSUME pc[r] \in {"assets", "pre", "page", "stake", "validators", "height"},
               pc'[r] \in {"pre", "page", "stake", "post", "validators", "height"}
        PROVE  Goal
    BY <1>2 DEF Allowed, phaseOf, answerOf, Answered, NoAnswer
  <1>3. CASE FetchAssets(r)
    <2>1. CASE \E code : Fail(r, code)
      BY <1>3, <2>1, FailIsAllowed DEF FetchAssets
    <2>2. CASE ~(\E code : Fail(r, code))
      <3>1. pc[r] = "assets" /\ Dispatch(r)
        BY <1>3, <2>2 DEF FetchAssets
      <3>2. pc'[r] \in {"validators", "pre"}
        BY <2>2, <3>1 DEF Dispatch, Goto, TypeOK
      <3>3. QED
        BY <1>2, <3>1, <3>2
    <2>3. QED
      BY <2>1, <2>2
  <1>4. CASE GetPreHeight(r) \/ GetStake(r) \/ GetCurrentValidators(r)
    BY <1>2, <1>4 DEF GetPreHeight, GetStake, GetCurrentValidators, Goto, TypeOK
  <1>5. CASE GetPage(r)
    <2>1. PICK repeat, page, S : TakePage(r, page, S)
      BY <1>5 DEF GetPage
    <2>2. pc[r] = "page" /\ pc'[r] \in {"page", "stake", "post"}
      <3>1. CASE LastPage(r)
        BY <1>5, <3>1 DEF GetPage, LastPage, NextSource, AfterUTXOs, Goto, TypeOK
      <3>2. CASE FullPage(r, page)
        BY <1>5, <3>2 DEF GetPage, FullPage
      <3>3. QED
        BY <2>1, <3>1, <3>2 DEF TakePage
    <2>3. QED
      BY <1>2, <2>2
  <1>6. CASE GetPostHeight(r)
    <2>1. CASE \E code : Fail(r, code)
      BY <1>6, <2>1, FailIsAllowed DEF GetPostHeight
    <2>2. CASE height = pre[r] /\ Goto(r, "index")
      <3>1. /\ pc[r] = "post" /\ pc'[r] = "index"
            /\ UNCHANGED <<height, ledger, req, pre, got, staked>>
        BY <1>6, <2>2 DEF GetPostHeight, HeightMoved, Goto, nodeVars, TypeOK
      <3>2. CASE isSnapshot(req[r])
        <4>1. phaseOf(r) = "open" /\ phaseOf(r)' = "answered"
          BY <3>1, <3>2 DEF phaseOf, Answered, isSnapshot, isRewards, fetchSharedMemory
        <4>2. answerOf(r)' =
                [height |-> pre[r], utxos |-> Received(got[r]), stake |-> staked[r]]
          BY <3>1, <3>2 DEF answerOf, Answered, isSnapshot, isRewards,
                            fetchSharedMemory, Received
        <4>3. /\ Received(got[r]) = ledger[height].utxos
              /\ staked[r] = IF fetchStaked(req[r]) THEN ledger[height].stake ELSE {}
          BY <2>2, <3>1, <3>2 DEF Consistent, Reading, StakeRead
        <4>4. answerOf(r)' = Abs!Look(fetchStaked(req[r])) /\ fetchStaked(req[r]) \in BOOLEAN
          BY <2>2, <4>2, <4>3 DEF Abs!Look, fetchStaked
        <4>5. QED
          BY <4>1, <4>4 DEF Allowed
      <3>3. CASE ~isSnapshot(req[r])
        BY <3>1, <3>3 DEF Allowed, phaseOf, answerOf, Answered, isSnapshot, isRewards,
                          fetchSharedMemory, NoAnswer
      <3>4. QED
        BY <3>2, <3>3
    <2>3. QED
      BY <1>6, <2>1, <2>2 DEF GetPostHeight, HeightMoved
  <1>7. CASE GetRewardsHeight(r)
    <2>1. /\ pc[r] = "height" /\ pc'[r] = "index" /\ UNCHANGED req /\ isRewards(req[r])
      BY <1>7 DEF GetRewardsHeight, Goto, TypeOK, Consistent, Reading
    <2>2. QED
      BY <2>1 DEF Allowed, phaseOf, answerOf, Answered, isSnapshot, isRewards,
                  fetchSharedMemory, NoAnswer
  <1>8. CASE ParseNonGenesisBlock(r)
    <2>1. CASE \E code : Fail(r, code)
      BY <1>8, <2>1, FailIsAllowed DEF ParseNonGenesisBlock
    <2>2. CASE Reply(r, [status |-> "ok", code |-> "none", height |-> pre[r]])
      <3>1. /\ pc[r] = "index" /\ pc'[r] = "done" /\ resp'[r].status = "ok"
            /\ UNCHANGED <<req, pre, got, staked>>
        BY <1>8, <2>2 DEF ParseNonGenesisBlock, Reply, Goto, TypeOK
      <3>2. QED
        BY <3>1 DEF Allowed, phaseOf, answerOf, Answered, isSnapshot, isRewards,
                    fetchSharedMemory, Received, NoAnswer
    <2>3. QED
      BY <1>8, <2>1, <2>2 DEF ParseNonGenesisBlock
  <1>9. CASE Finish(r)
    <2>1. pc[r] = "done" /\ pc'[r] = "idle"
      BY <1>9 DEF Finish, Goto, TypeOK
    <2>2. QED
      BY <2>1 DEF Allowed, phaseOf, answerOf, Answered, NoAnswer
  <1>10. CASE RPCError(r)
    <2>1. pc[r] # "done" /\ Fail(r, RPCErrorCode(r))
      BY <1>10 DEF RPCError
    <2>2. QED
      BY <2>1, FailIsAllowed
  <1>11. QED
    BY <1>1, <1>3, <1>4, <1>5, <1>6, <1>7, <1>8, <1>9, <1>10 DEF HandlerStep, Step

(* Initial states map to initial states. *)
LEMMA InitRefines == Init => Abs!AInit
  BY DEF Init, Abs!AInit, absPhase, absAnswer, phaseOf, answerOf, Answered, NoAnswer

(* Every step maps to a step of AtomicLedgerRead or to a stutter. *)
LEMMA NextRefines == IInv /\ [Next]_vars => [Abs!ANext]_(Abs!absVars)
  <1> SUFFICES ASSUME IInv, [Next]_vars PROVE [Abs!ANext]_(Abs!absVars)
    OBVIOUS
  <1>1. TypeOK /\ \A r \in Handlers : Consistent(r)
    BY DEF IInv, ReadingInv, SnapshotConsistency, Consistent
  <1>2. ASSUME NEW r \in Handlers, HandlerStep(r) PROVE [Abs!ANext]_(Abs!absVars)
    BY <1>1, <1>2, OneMoves, StepIsAllowed, AllowedIsAbstract
  <1>3. ASSUME \A h \in Handlers : Still(h)
        PROVE  absPhase' = absPhase /\ absAnswer' = absAnswer
    BY <1>3, StillAbstractly DEF absPhase, absAnswer
  <1>4. CASE AcceptBlock
    <2>1. \A h \in Handlers : Still(h)
      BY <1>4 DEF AcceptBlock, handlerVars, Still
    <2>2. height' = height + 1 /\ \A h \in 0 .. height : ledger'[h] = ledger[h]
      <3>1. PICK n, spent, unstaked, imported, stakers, toStake :
                  Block(n, spent, unstaked, imported, stakers, toStake)
        BY <1>4 DEF AcceptBlock
      <3>2. QED
        BY <1>1, <1>4, <3>1 DEF AcceptBlock, Block, TypeOK
    <2>3. Abs!Accept
      BY <1>3, <2>1, <2>2 DEF Abs!Accept
    <2>4. QED
      BY <2>3 DEF Abs!ANext
  <1>5. CASE (\E c \in {"C", "X"} : AcceptExport(c)) \/ IndexBlock \/ Tick \/ UNCHANGED vars
    <2>1. (\A h \in Handlers : Still(h)) /\ UNCHANGED <<height, ledger>>
      BY <1>5 DEF Still, AcceptExport, IndexBlock, Tick, vars, handlerVars
    <2>2. QED
      BY <1>3, <2>1 DEF Abs!absVars
  <1>6. QED
    BY <1>2, <1>4, <1>5 DEF Next, HandlerStep

(* The paged, multi-RPC account endpoints implement atomic reads of the    *)
(* P-chain ledger.                                                         *)
THEOREM ReadsRefineAtomicReads == Spec => ReadsAreAtomic
  BY InitRefines, NextRefines, InitIInv, NextIInv, PTL
  DEF Spec, ReadsAreAtomic, Abs!ASpec

-----------------------------------------------------------------------------
(* Balances.  What a handler knows of the filter and the stake while it    *)
(* reads, and what its balance was computed from: the outputs it holds, at *)
(* an instant that has passed, or the validators of a block that is not    *)
(* later than the one it names.                                            *)
Working(r) == pc[r] \notin {"idle", "assets", "done"} \/ Succeeded(r)

ComputedFrom(bag, assetIDs, outs, sub, t, value) ==
    LET utxos == parseAndFilterUTXOs(bag, assetIDs)
    IN  /\ ~Unparsable(bag, assetIDs)
        /\ \A u \in outs : Out[u].kind # "opaque"
        /\ getBalancesWithoutMultisig(utxos, t).ok
        /\ sub # "unknown"
        /\ value = BalanceValue(utxos, outs, sub, t)

RewardsOf(h, value) == value = PendingRewards(ledger[h].stakers, Mine)

BalanceComputed(r) ==
    /\ Working(r) /\ req[r].endpoint = "balance" => assets[r] = Requested(req[r])
    /\ pc[r] \in {"pre", "page", "stake", "post"} => ~isRewards(req[r])
    /\ pc[r] = "post" \/ Answered(r) => (~fetchStaked(req[r]) /\ ~isRewards(req[r]) => staked[r] = {})
    /\ Answered(r) /\ req[r].endpoint = "balance" /\ ~isRewards(req[r]) =>
            \E t \in 0 .. now : ComputedFrom(got[r], assets[r], staked[r], req[r].sub, t, bal[r])
    /\ pc[r] = "height" => \E h \in 0 .. height : RewardsOf(h, bal[r])
    /\ Answered(r) /\ isRewards(req[r]) => \E h \in 0 .. pre[r] : RewardsOf(h, bal[r])

AllBalances == \A r \in Handlers : BalanceComputed(r)

(* A handler that does not move keeps what it computed, as long as the     *)
(* ledger only grows and time goes on.                                     *)
LEMMA StillBalanced ==
  ASSUME TypeOK, NEW r \in Handlers, BalanceComputed(r), Still(r),
         bal'[r] = bal[r], assets'[r] = assets[r],
         now' \in Nat, now <= now', height' \in Nat, height <= height',
         \A h \in 0 .. height : ledger'[h] = ledger[h]
  PROVE  BalanceComputed(r)'
  <1> USE DEF Still
  <1>1. /\ Working(r)' = Working(r) /\ Answered(r)' = Answered(r)
        /\ fetchStaked(req[r])' = fetchStaked(req[r]) /\ isRewards(req[r])' = isRewards(req[r])
        /\ Requested(req[r])' = Requested(req[r])
    BY DEF Working, Succeeded, Answered, fetchStaked, fetchSharedMemory, isRewards, Requested
  <1>2. pre[r] \in 0 .. height /\ height \in Nat /\ now \in Nat
    BY DEF TypeOK
  <1>3. \A h \in 0 .. height : RewardsOf(h, bal[r])' <=> RewardsOf(h, bal[r])
    BY DEF RewardsOf
  <1>4. \A t \in 0 .. now : t \in 0 .. now'
    BY <1>2
  <1>5. /\ \A h \in 0 .. height : h \in 0 .. height'
        /\ \A h \in 0 .. pre[r] : h \in 0 .. height
    BY <1>2
  <1>6. pc[r] = "height" => \E h \in 0 .. height' : RewardsOf(h, bal[r])'
    BY <1>3, <1>5 DEF BalanceComputed
  <1>7. Answered(r) /\ isRewards(req[r]) => \E h \in 0 .. pre[r] : RewardsOf(h, bal[r])'
    BY <1>3, <1>5 DEF BalanceComputed
  <1>8. Answered(r) /\ req[r].endpoint = "balance" /\ ~isRewards(req[r]) =>
            \E t \in 0 .. now' : ComputedFrom(got[r], assets[r], staked[r], req[r].sub, t, bal[r])
    BY <1>4 DEF BalanceComputed
  <1>9. QED
    BY <1>1, <1>6, <1>7, <1>8 DEF BalanceComputed

(* A step of one handler leaves the balances and filters of the others     *)
(* alone, and the node.                                                    *)
LEMMA OthersKeepBalances ==
  ASSUME TypeOK, NEW r \in Handlers, HandlerStep(r)
  PROVE  /\ \A h \in Handlers : h # r => bal'[h] = bal[h] /\ assets'[h] = assets[h]
         /\ UNCHANGED <<height, ledger, now>>
  <1> USE DEF TypeOK, nodeVars
  <1>1. CASE \E q \in Reqs : Receive(r, q)
    BY <1>1 DEF Receive
  <1>2. CASE FetchAssets(r)
    BY <1>2 DEF FetchAssets
  <1>3. CASE GetPreHeight(r) \/ GetPage(r) \/ GetStake(r)
    <2>1. UNCHANGED <<bal, assets, height, ledger, now>>
      BY <1>3 DEF GetPreHeight, GetPage, GetStake
    <2>2. QED
      BY <2>1
  <1>4. CASE GetPostHeight(r)
    <2>1. UNCHANGED <<assets, height, ledger, now>>
      BY <1>4 DEF GetPostHeight
    <2>2. UNCHANGED bal \/ \E v : bal' = [bal EXCEPT ![r] = v]
      BY <1>4 DEF GetPostHeight, Compute
    <2>3. QED
      BY <2>1, <2>2
  <1>5. CASE GetCurrentValidators(r) \/ GetRewardsHeight(r)
    BY <1>5 DEF GetCurrentValidators, GetRewardsHeight
  <1>6. CASE ParseNonGenesisBlock(r) \/ Finish(r) \/ RPCError(r)
    BY <1>6 DEF ParseNonGenesisBlock, Finish, RPCError
  <1>7. QED
    BY <1>1, <1>2, <1>3, <1>4, <1>5, <1>6 DEF Step, HandlerStep

(* A handler's own step: the filter is fixed when the request is           *)
(* dispatched, a balance is computed at the second height from what was    *)
(* read, and pending rewards before the height they are reported with.     *)
LEMMA StepBalanced ==
  ASSUME TypeOK, NEW r \in Handlers, Reading(r), BalanceComputed(r), HandlerStep(r)
  PROVE  BalanceComputed(r)'
  <1>0. pre[r] \in 0 .. height /\ height \in Nat /\ now \in Nat
    BY DEF TypeOK
  <1>1. ASSUME pc'[r] \in {"idle", "assets"} \/ (pc'[r] = "done" /\ resp'[r].status # "ok")
        PROVE  BalanceComputed(r)'
    BY <1>1 DEF BalanceComputed, Working, Succeeded, Answered
  <1>2. ASSUME NEW code, Fail(r, code) PROVE BalanceComputed(r)'
    <2>1. pc'[r] = "done" /\ resp'[r].status = "err"
      BY <1>2 DEF Fail, Reply, Goto, ErrorResp, TypeOK
    <2>2. QED
      BY <2>1, <1>1
  <1>3. CASE \E q \in Reqs : Receive(r, q)
    <2>1. (\E code : Fail(r, code)) \/ pc'[r] = "assets"
      BY <1>3 DEF Receive, Goto, TypeOK
    <2>2. QED
      BY <2>1, <1>1, <1>2
  <1>4. CASE FetchAssets(r)
    <2>1. CASE \E code : Fail(r, code)
      BY <2>1, <1>2
    <2>2. CASE ~(\E code : Fail(r, code))
      <3>1. /\ pc'[r] = IF isRewards(req[r]) THEN "validators" ELSE "pre"
            /\ req' = req
            /\ req[r].endpoint = "balance" => assets'[r] = Requested(req[r])
        BY <1>4, <2>2 DEF FetchAssets, Dispatch, Goto, isRewards, TypeOK
      <3>2. QED
        BY <3>1 DEF BalanceComputed, Working, Succeeded, Answered, isRewards, Requested
    <2>3. QED
      BY <2>1, <2>2
  <1>5. ASSUME pc[r] \in {"pre", "page", "stake"}, pc'[r] \in {"page", "stake", "post"},
               UNCHANGED <<req, assets, resp>>,
               pc'[r] = "post" /\ ~fetchStaked(req[r]) => staked'[r] = {}
        PROVE  BalanceComputed(r)'
    <2>1. /\ req[r].endpoint = "balance" => assets[r] = Requested(req[r])
          /\ ~isRewards(req[r])
      BY <1>5 DEF BalanceComputed, Working
    <2>2. Requested(req[r])' = Requested(req[r]) /\ isRewards(req[r])' = isRewards(req[r])
          /\ fetchStaked(req[r])' = fetchStaked(req[r])
      BY <1>5
    <2>3. QED
      BY <1>5, <2>1, <2>2 DEF BalanceComputed, Working, Succeeded, Answered
  <1>6. CASE GetPreHeight(r)
    <2>1. pc[r] = "pre" /\ pc'[r] = "page" /\ UNCHANGED <<req, assets, resp>>
      BY <1>6 DEF GetPreHeight, Goto, TypeOK
    <2>2. QED
      BY <1>5, <2>1
  <1>7. CASE GetPage(r)
    <2>1. pc[r] = "page" /\ UNCHANGED <<req, assets, staked, resp>>
      BY <1>7 DEF GetPage
    <2>2. PICK page, S : TakePage(r, page, S)
      BY <1>7 DEF GetPage
    <2>3. pc'[r] \in {"page", "stake", "post"}
      BY <2>1, <2>2 DEF TakePage, LastPage, FullPage, AfterUTXOs, Goto, TypeOK
    <2>4. staked'[r] = {}
      BY <2>1 DEF Reading
    <2>5. QED
      BY <1>5, <2>1, <2>3, <2>4
  <1>8. CASE GetStake(r)
    <2>1. /\ pc[r] = "stake" /\ pc'[r] = "post" /\ UNCHANGED <<req, assets, resp>>
          /\ fetchStaked(req[r])
      BY <1>8 DEF GetStake, Goto, TypeOK, Reading
    <2>2. QED
      BY <1>5, <2>1
  <1>9. CASE GetPostHeight(r)
    <2>1. CASE \E code : Fail(r, code)
      BY <2>1, <1>2
    <2>2. CASE ~(\E code : Fail(r, code))
      <3>1. /\ pc[r] = "post" /\ pc'[r] = "index" /\ ComputeError(r) = "none" /\ Compute(r)
            /\ UNCHANGED <<req, assets, got, staked, resp, now>>
        BY <1>9, <2>2 DEF GetPostHeight, Goto, nodeVars, TypeOK
      <3>2. /\ req[r].endpoint = "balance" => assets[r] = Requested(req[r])
            /\ ~isRewards(req[r])
            /\ ~fetchStaked(req[r]) => staked[r] = {}
        BY <3>1 DEF BalanceComputed, Working
      <3>3. req[r].endpoint = "balance" =>
                ComputedFrom(got[r], assets[r], staked[r], req[r].sub, now, bal'[r])
        <4>1. req[r].endpoint = "balance" =>
                bal'[r] = BalanceValue(parseAndFilterUTXOs(got[r], assets[r]), staked[r], req[r].sub, now)
          BY <3>1 DEF Compute, TypeOK
        <4>2. QED
          BY <3>1, <4>1 DEF ComputeError, ComputedFrom
      <3>4. now \in 0 .. now
        BY <1>0
      <3>5. QED
        BY <3>1, <3>2, <3>3, <3>4 DEF BalanceComputed, Working, Succeeded, Answered
    <2>3. QED
      BY <2>1, <2>2
  <1>10. CASE GetCurrentValidators(r)
    <2>1. /\ pc[r] = "validators" /\ pc'[r] = "height" /\ UNCHANGED <<req, assets, resp, height, ledger>>
          /\ bal'[r] = PendingRewards(ledger[height].stakers, Mine)
      BY <1>10 DEF GetCurrentValidators, Goto, nodeVars, TypeOK
    <2>2. req[r].endpoint = "balance" => assets[r] = Requested(req[r])
      BY <2>1 DEF BalanceComputed, Working
    <2>3. height \in 0 .. height /\ RewardsOf(height, bal[r])'
      BY <1>0, <2>1 DEF RewardsOf
    <2>4. QED
      BY <2>1, <2>2, <2>3 DEF BalanceComputed, Working, Succeeded, Answered
  <1>11. CASE GetRewardsHeight(r)
    <2>1. /\ pc[r] = "height" /\ pc'[r] = "index" /\ pre'[r] = height
          /\ UNCHANGED <<req, assets, resp, height, ledger, bal>> /\ isRewards(req[r])
      BY <1>11 DEF GetRewardsHeight, Goto, nodeVars, TypeOK, Reading
    <2>2. /\ req[r].endpoint = "balance" => assets[r] = Requested(req[r])
          /\ \E h \in 0 .. height : RewardsOf(h, bal[r])
      BY <2>1 DEF BalanceComputed, Working
    <2>3. \E h \in 0 .. height : RewardsOf(h, bal[r])'
      BY <2>1, <2>2 DEF RewardsOf
    <2>4. QED
      BY <2>1, <2>2, <2>3 DEF BalanceComputed, Working, Succeeded, Answered
  <1>12. CASE ParseNonGenesisBlock(r)
    <2>1. CASE \E code : Fail(r, code)
      BY <2>1, <1>2
    <2>2. CASE ~(\E code : Fail(r, code))
      <3>1. /\ pc[r] = "index" /\ pc'[r] = "done"
            /\ UNCHANGED <<req, assets, got, staked, pre, bal, now, ledger>>
        BY <1>12, <2>2 DEF ParseNonGenesisBlock, Reply, Goto, nodeVars, TypeOK
      <3>2. Working(r) /\ Answered(r)
        BY <3>1 DEF Working, Answered
      <3>3. \A h \in 0 .. pre[r] : RewardsOf(h, bal[r])' <=> RewardsOf(h, bal[r])
        BY <3>1 DEF RewardsOf
      <3>4. Requested(req[r])' = Requested(req[r]) /\ isRewards(req[r])' = isRewards(req[r])
            /\ fetchStaked(req[r])' = fetchStaked(req[r])
        BY <3>1
      <3>5. isRewards(req[r]) => \E h \in 0 .. pre[r] : RewardsOf(h, bal[r])'
        BY <3>2, <3>3 DEF BalanceComputed
      <3>6. QED
        BY <3>1, <3>2, <3>4, <3>5 DEF BalanceComputed
    <2>3. QED
      BY <2>1, <2>2
  <1>13. CASE Finish(r)
    <2>1. pc'[r] = "idle"
      BY <1>13 DEF Finish, Goto, TypeOK
    <2>2. QED
      BY <2>1, <1>1
  <1>14. CASE RPCError(r)
    BY <1>14, <1>2 DEF RPCError
  <1>15. QED
    BY <1>3, <1>4, <1>6, <1>7, <1>8, <1>9, <1>10, <1>11, <1>12, <1>13, <1>14 DEF HandlerStep, Step

(* Every step keeps what every handler's balance was computed from. *)
LEMMA NextBalanced == IInv /\ AllBalances /\ [Next]_vars => AllBalances'
  <1> SUFFICES ASSUME IInv, AllBalances, [Next]_vars, NEW h \in Handlers
               PROVE  BalanceComputed(h)'
    BY DEF AllBalances
  <1>1. TypeOK /\ Reading(h) /\ BalanceComputed(h) /\ height \in Nat /\ now \in Nat
    BY DEF IInv, TypeOK, ReadingInv, AllBalances
  <1>2. ASSUME NEW r \in Handlers, HandlerStep(r) PROVE BalanceComputed(h)'
    <2>1. CASE h = r
      BY <1>1, <1>2, <2>1, StepBalanced
    <2>2. CASE h # r
      <3>1. Still(h)
        BY <1>1, <1>2, <2>2, OthersStill DEF HandlerStep
      <3>2. bal'[h] = bal[h] /\ assets'[h] = assets[h] /\ UNCHANGED <<height, ledger, now>>
        BY <1>1, <1>2, <2>2, OthersKeepBalances
      <3>3. QED
        BY <1>1, <3>1, <3>2, StillBalanced
    <2>3. QED
      BY <2>1, <2>2
  <1>3. CASE \/ AcceptBlock \/ IndexBlock \/ Tick \/ UNCHANGED vars
             \/ \E c \in {"C", "X"} : AcceptExport(c)
    <2>1. Still(h) /\ bal'[h] = bal[h] /\ assets'[h] = assets[h]
      BY <1>3 DEF Still, AcceptBlock, AcceptExport, IndexBlock, Tick, vars, handlerVars
    <2>2. now' \in Nat /\ now <= now'
      BY <1>1, <1>3 DEF AcceptBlock, AcceptExport, IndexBlock, Tick, vars
    <2>3. height' \in Nat /\ height <= height' /\ \A k \in 0 .. height : ledger'[k] = ledger[k]
      <3>1. CASE AcceptBlock
        <4>1. PICK n, spent, unstaked, imported, stakers, toStake :
                    Block(n, spent, unstaked, imported, stakers, toStake)
          BY <3>1 DEF AcceptBlock
        <4>2. QED
          BY <1>1, <3>1, <4>1 DEF AcceptBlock, Block
      <3>2. CASE \/ IndexBlock \/ Tick \/ UNCHANGED vars
                 \/ \E c \in {"C", "X"} : AcceptExport(c)
        <4>1. UNCHANGED <<height, ledger>>
          BY <3>2 DEF AcceptExport, IndexBlock, Tick, vars
        <4>2. QED
          BY <1>1, <4>1
      <3>3. QED
        BY <1>3, <3>1, <3>2
    <2>4. QED
      BY <1>1, <2>1, <2>2, <2>3, StillBalanced
  <1>4. QED
    BY <1>2, <1>3 DEF Next, HandlerStep

(* Everything that is known of an answered handler, in every state *)
AnswerInv == IInv /\ AllComputed /\ AllBalances

THEOREM AnswersComputed == Spec => []AnswerInv
  <1>1. Init => AllComputed /\ AllBalances
    BY DEF Init, AllComputed, CoinsComputed, AllBalances, BalanceComputed, Working, Succeeded, Answered
  <1>2. QED
    BY <1>1, InitIInv, NextIInv, NextComputed, NextBalanced, PTL DEF Spec, AnswerInv

(* Pending rewards are those of a block the client can already see: the    *)
(* validators are read before the height that is reported with them.       *)
THEOREM RewardsSeen == Spec => []RewardsNotFromTheFuture
  <1>1. AnswerInv => RewardsNotFromTheFuture
    <2> SUFFICES ASSUME AnswerInv, NEW r \in Handlers, Succeeded(r), isRewards(req[r])
                 PROVE  \E h \in 0 .. resp[r].height : bal[r] = PendingRewards(ledger[h].stakers, Mine)
      BY DEF RewardsNotFromTheFuture
    <2>1. CoinsComputed(r) /\ BalanceComputed(r) /\ Answered(r)
      BY DEF AnswerInv, AllComputed, AllBalances, Succeeded, Answered
    <2>2. QED
      BY <2>1 DEF CoinsComputed, BalanceComputed, RewardsOf
  <1>2. QED
    BY <1>1, AnswersComputed, PTL

-----------------------------------------------------------------------------
(* What the sums of account.go add up to *)
Owned(bag, assetIDs) == {u \in Received(bag) : Eligible(u, assetIDs)}
OfClass(S, class, t) == {u \in S : BalanceClass(u, t) = class}

LEMMA ExactIsNat ==
  ASSUME NEW S \in SUBSET UTXO
  PROVE  Exact(S) \in Nat
  <1> DEFINE f == [u \in UTXO |-> Out[u].amt]
  <1>1. IsFiniteSet(S) /\ \A u \in S : f[u] \in Nat
    BY UTXOsAreFinite, OutputTypes
  <1> HIDE DEF f
  <1>2. SumFunctionOnSet(f, S) \in Nat
    BY <1>1, SumIsNat
  <1>3. QED
    BY <1>2 DEF Exact, f

LEMMA ExactUnion ==
  ASSUME NEW S \in SUBSET UTXO, NEW T \in SUBSET UTXO, S \cap T = {}
  PROVE  Exact(S \cup T) = Exact(S) + Exact(T)
  <1> DEFINE f == [u \in UTXO |-> Out[u].amt]
  <1>1. IsFiniteSet(S) /\ IsFiniteSet(T) /\ \A u \in S \cup T : f[u] \in Int
    BY UTXOsAreFinite, OutputTypes
  <1> HIDE DEF f
  <1>2. SumFunctionOnSet(f, S \cup T) = SumFunctionOnSet(f, S) + SumFunctionOnSet(f, T)
    BY <1>1, SumUnion
  <1>3. QED
    BY <1>2 DEF Exact, f

(* However often an output was received, it is counted once, and only if   *)
(* it passes the filters.                                                  *)
LEMMA CountedOnce ==
  ASSUME NEW bag \in [UTXO -> Nat], NEW assetIDs, NEW S \in SUBSET UTXO
  PROVE  SumOf(parseAndFilterUTXOs(bag, assetIDs), S) = Exact(S \cap Owned(bag, assetIDs))
  <1> DEFINE f == [u \in UTXO |-> parseAndFilterUTXOs(bag, assetIDs)[u] * Out[u].amt]
             g == [u \in UTXO |-> Out[u].amt]
             A == S \cap Owned(bag, assetIDs)
             B == S \ Owned(bag, assetIDs)
  <1>1. /\ A \in SUBSET UTXO /\ B \in SUBSET UTXO /\ A \cap B = {} /\ S = A \cup B
    OBVIOUS
  <1>2. \A u \in A : f[u] = Out[u].amt
    <2>1. \A u \in A : u \in UTXO /\ parseAndFilterUTXOs(bag, assetIDs)[u] = 1
      BY DEF parseAndFilterUTXOs, Owned, Received
    <2>2. \A u \in A : f[u] = 1 * Out[u].amt
      BY <2>1
    <2>3. \A u \in A : 1 * Out[u].amt = Out[u].amt
      BY <2>1, OutputTypes
    <2>4. QED
      BY <2>2, <2>3
  <1>3. \A u \in B : f[u] = 0
    <2>1. \A u \in B : u \in UTXO /\ parseAndFilterUTXOs(bag, assetIDs)[u] = 0
      BY DEF parseAndFilterUTXOs, Owned, Received
    <2>2. \A u \in B : f[u] = 0 * Out[u].amt
      BY <2>1
    <2>3. \A u \in B : 0 * Out[u].amt = 0
      BY <2>1, OutputTypes
    <2>4. QED
      BY <2>2, <2>3
  <1> HIDE DEF f, A, B
  <1>4. \A u \in A : g[u] \in Int /\ f[u] = g[u]
    <2>1. \A u \in A : u \in UTXO /\ Out[u].amt \in Int
      BY <1>1, OutputTypes
    <2>2. QED
      BY <1>2, <2>1
  <1> HIDE DEF g
  <1>5. IsFiniteSet(A) /\ IsFiniteSet(B) /\ \A u \in A \cup B : f[u] \in Int
    BY <1>1, <1>3, <1>4, UTXOsAreFinite
  <1>6. SumFunctionOnSet(f, A \cup B) = SumFunctionOnSet(f, A) + SumFunctionOnSet(f, B)
    BY <1>1, <1>5, SumUnion
  <1>7. SumFunctionOnSet(f, A) = SumFunctionOnSet(g, A)
    BY <1>4, <1>5, SumSame
  <1>8. SumFunctionOnSet(f, B) = 0
    BY <1>3, <1>5, SumOfZeros
  <1>9. SumFunctionOnSet(g, A) \in Int
    BY <1>4, <1>5, SumIsInt
  <1>10. SumFunctionOnSet(f, S) = SumFunctionOnSet(g, A)
    BY <1>1, <1>6, <1>7, <1>8, <1>9
  <1>11. QED
    BY <1>10 DEF SumOf, Exact, f, g, A

LEMMA ClassExact ==
  ASSUME NEW bag \in [UTXO -> Nat], NEW assetIDs, NEW class, NEW t
  PROVE  ClassSum(parseAndFilterUTXOs(bag, assetIDs), class, t)
            = Exact(OfClass(Owned(bag, assetIDs), class, t))
  <1> DEFINE S == {u \in UTXO : BalanceClass(u, t) = class}
  <1>1. SumOf(parseAndFilterUTXOs(bag, assetIDs), S) = Exact(S \cap Owned(bag, assetIDs))
    BY CountedOnce
  <1>2. S \cap Owned(bag, assetIDs) = OfClass(Owned(bag, assetIDs), class, t)
    BY DEF OfClass, Owned, Received
  <1>3. QED
    BY <1>1, <1>2 DEF ClassSum

(* Outputs that can be parsed are each in one class. *)
LEMMA ClassesPartition ==
  ASSUME NEW S \in SUBSET UTXO, NEW t, \A u \in S : Out[u].kind # "opaque"
  PROVE  Exact(S) = Exact(OfClass(S, "unlocked", t)) + Exact(OfClass(S, "locked_stakeable", t))
                    + Exact(OfClass(S, "locked_not_stakeable", t))
  <1> DEFINE a == OfClass(S, "unlocked", t)
             b == OfClass(S, "locked_stakeable", t)
             c == OfClass(S, "locked_not_stakeable", t)
  <1>1. \A u \in S : BalanceClass(u, t) \in {"unlocked", "locked_stakeable", "locked_not_stakeable"}
    <2>1. \A u \in S : Out[u].kind \in {"transfer", "lockout"}
      BY OutputTypes
    <2>2. QED
      BY <2>1 DEF BalanceClass
  <1>2. /\ a \in SUBSET UTXO /\ b \in SUBSET UTXO /\ c \in SUBSET UTXO /\ a \cup b \in SUBSET UTXO
        /\ a \cap b = {} /\ (a \cup b) \cap c = {} /\ S = (a \cup b) \cup c
    BY <1>1 DEF OfClass
  <1> HIDE DEF a, b, c
  <1>3. Exact((a \cup b) \cup c) = Exact(a \cup b) + Exact(c) /\ Exact(a \cup b) = Exact(a) + Exact(b)
    BY <1>2, ExactUnion
  <1>4. QED
    BY <1>2, <1>3 DEF a, b, c

LEMMA StakedExact ==
  ASSUME NEW outs \in SUBSET UTXO
  PROVE  calculateStakedAmount(outs) = Exact({u \in outs : Out[u].addrs <= 1}) % (MaxUint + 1)
  <1> DEFINE S == {u \in outs : Out[u].addrs <= 1}
             f == [u \in UTXO |-> [v \in UTXO |-> 1][u] * Out[u].amt]
             g == [u \in UTXO |-> Out[u].amt]
  <1>1. \A u \in S : u \in UTXO /\ Out[u].amt \in Nat /\ 1 * Out[u].amt = Out[u].amt
    BY OutputTypes
  <1>2. \A u \in S : g[u] \in Int /\ f[u] = g[u]
    BY <1>1
  <1>3. IsFiniteSet(S)
    BY UTXOsAreFinite
  <1> HIDE DEF f, g, S
  <1>4. SumFunctionOnSet(f, S) = SumFunctionOnSet(g, S)
    BY <1>2, <1>3, SumSame
  <1>5. QED
    BY <1>4 DEF calculateStakedAmount, SumOf, Exact, f, g, S

(* What a balance computed from outputs is, in exact arithmetic *)
SumsRight(S, bound, sub, t, value) ==
    /\ S \in SUBSET UTXO /\ Exact(S) \in Nat /\ Exact(S) <= MaxUint /\ Exact(bound) \in Nat
    /\ \A u \in S : Out[u].kind # "opaque"
    /\ value = CASE sub = "unlocked" -> Exact(OfClass(S, "unlocked", t))
                 [] sub = "locked_stakeable" -> Exact(OfClass(S, "locked_stakeable", t))
                 [] sub = "locked_not_stakeable" -> Exact(OfClass(S, "locked_not_stakeable", t))
                 [] sub = "staked" -> Exact(bound) % (MaxUint + 1)
                 [] OTHER -> (Exact(S) + (Exact(bound) % (MaxUint + 1))) % (MaxUint + 1)

SingleOwner(outs) == {u \in outs : Out[u].addrs <= 1}

LEMMA ComputedExact ==
  ASSUME NEW bag \in [UTXO -> Nat], NEW assetIDs, NEW outs \in SUBSET UTXO, NEW sub, NEW t, NEW value,
         ComputedFrom(bag, assetIDs, outs, sub, t, value)
  PROVE  SumsRight(Owned(bag, assetIDs), SingleOwner(outs), sub, t, value)
  <1> DEFINE S == Owned(bag, assetIDs)
             bound == SingleOwner(outs)
             utxos == parseAndFilterUTXOs(bag, assetIDs)
             e == getBalancesWithoutMultisig(utxos, t)
             a == ClassSum(utxos, "unlocked", t)
             b == ClassSum(utxos, "locked_stakeable", t)
             c == ClassSum(utxos, "locked_not_stakeable", t)
  <1>1. S \in SUBSET UTXO /\ bound \in SUBSET UTXO
    BY DEF Owned, Received, SingleOwner
  <1>2. \A u \in S : Out[u].kind # "opaque"
    BY DEF ComputedFrom, Unparsable, Owned, Eligible
  <1>3. /\ a = Exact(OfClass(S, "unlocked", t)) /\ b = Exact(OfClass(S, "locked_stakeable", t))
        /\ c = Exact(OfClass(S, "locked_not_stakeable", t))
    BY ClassExact
  <1>4. Exact(S) = Exact(OfClass(S, "unlocked", t)) + Exact(OfClass(S, "locked_stakeable", t))
                    + Exact(OfClass(S, "locked_not_stakeable", t))
    BY <1>1, <1>2, ClassesPartition
  <1>5. calculateStakedAmount(outs) = Exact(bound) % (MaxUint + 1)
    BY StakedExact DEF SingleOwner
  <1>6. Exact(S) \in Nat /\ Exact(bound) \in Nat
    BY <1>1, ExactIsNat
  <1>7. a + b + c <= MaxUint /\ value = BalanceValue(utxos, outs, sub, t)
    BY DEF ComputedFrom, getBalancesWithoutMultisig
  <1>8. e.unlocked = a /\ e.locked_stakeable = b /\ e.locked_not_stakeable = c /\ e.total = a + b + c
    BY DEF getBalancesWithoutMultisig
  <1>9. value = CASE sub = "unlocked" -> e.unlocked
                   [] sub = "locked_stakeable" -> e.locked_stakeable
                   [] sub = "locked_not_stakeable" -> e.locked_not_stakeable
                   [] sub = "staked" -> calculateStakedAmount(outs)
                   [] OTHER -> (e.total + calculateStakedAmount(outs)) % (MaxUint + 1)
    BY <1>7 DEF BalanceValue
  <1> HIDE DEF a, b, c, utxos, e, S, bound
  <1>10. a + b + c = Exact(S)
    BY <1>3, <1>4
  <1>11. value = CASE sub = "unlocked" -> a
                   [] sub = "locked_stakeable" -> b
                   [] sub = "locked_not_stakeable" -> c
                   [] sub = "staked" -> Exact(bound) % (MaxUint + 1)
                   [] OTHER -> (Exact(S) + (Exact(bound) % (MaxUint + 1))) % (MaxUint + 1)
    BY <1>5, <1>8, <1>10, <1>9
  <1>12. Exact(S) <= MaxUint
    BY <1>7, <1>10
  <1>13. QED
    <2>1. SumsRight(S, bound, sub, t, value)
      BY <1>1, <1>2, <1>3, <1>6, <1>11, <1>12 DEF SumsRight
    <2>2. QED
      BY <2>1 DEF S, bound

LEMMA ModIdentity ==
  ASSUME NEW x \in Nat, x <= MaxUint
  PROVE  x % (MaxUint + 1) = x
  <1>1. MaxUint \in Nat
    BY ConstantsAssumption
  <1>2. QED
    BY <1>1

(* A balance of shared memory is the sum of distinct exported outputs: the *)
(* outputs that a page repeats are counted once.                           *)
THEOREM SharedBalanceCorrect == Spec => []SharedBalanceCountsOnce
  <1>1. AnswerInv => SharedBalanceCountsOnce
    <2> SUFFICES ASSUME AnswerInv, NEW r \in Handlers, Succeeded(r), req[r].endpoint = "balance",
                        req[r].sub = "shared_memory", req[r].cur = {}
                 PROVE  bal[r] = Exact({u \in Received(got[r]) : Out[u].addrs <= 1})
      BY DEF SharedBalanceCountsOnce
    <2> DEFINE S == Owned(got[r], assets[r])
    <2>1. BalanceComputed(r) /\ Answered(r) /\ Working(r)
      BY DEF AnswerInv, AllBalances, Succeeded, Answered, Working
    <2>2. assets[r] = {} /\ staked[r] = {} /\ got[r] \in [UTXO -> Nat] /\ ~isRewards(req[r])
      BY <2>1 DEF BalanceComputed, Requested, fetchStaked, fetchSharedMemory, isRewards,
                  AnswerInv, IInv, TypeOK
    <2>3. PICK t \in 0 .. now : ComputedFrom(got[r], assets[r], {}, "shared_memory", t, bal[r])
      BY <2>1, <2>2 DEF BalanceComputed
    <2> DEFINE bound == SingleOwner({})
    <2>4. /\ Exact(S) \in Nat /\ Exact(S) <= MaxUint
          /\ bal[r] = (Exact(S) + (Exact(bound) % (MaxUint + 1))) % (MaxUint + 1)
      <3>1. SumsRight(Owned(got[r], assets[r]), SingleOwner({}), "shared_memory", t, bal[r])
        BY <2>2, <2>3, ComputedExact
      <3>2. QED
        BY <3>1 DEF SumsRight
    <2>5. Exact(bound) = 0
      <3>1. bound = {}
        BY DEF SingleOwner
      <3>2. QED
        BY <3>1, SumEmpty DEF Exact
    <2>6. S = {u \in Received(got[r]) : Out[u].addrs <= 1}
      BY <2>2 DEF Owned, Eligible
    <2> HIDE DEF S, bound
    <2>8. bal[r] = Exact(S) % (MaxUint + 1)
      <3>1. 0 % (MaxUint + 1) = 0
        BY ModIdentity, ConstantsAssumption
      <3>2. QED
        BY <2>4, <2>5, <3>1
    <2>9. QED
      BY <2>4, <2>6, <2>8, ModIdentity
  <1>2. QED
    BY <1>1, AnswersComputed, PTL

(* A balance response names a block and carries the balance of that block, *)
(* evaluated at a time that is not later than the response, whenever that  *)
(* balance fits a uint64: duplicates, multisig outputs, blocks accepted    *)
(* meanwhile and UTXOs of other assets do not change it.  Left out are the *)
(* staked and the total balance of an account that staked an asset which   *)
(* the request does not name (StakeMixed).                                 *)
THEOREM BalancesCorrect == Spec => []BalanceOfItsBlock
  <1>1. AnswerInv => BalanceOfItsBlock
    <2> SUFFICES ASSUME AnswerInv, NEW r \in Handlers, Succeeded(r), req[r].endpoint = "balance",
                        isSnapshot(req[r]), ~StakeMixed(ledger[resp[r].height], req[r])
                 PROVE  \E t \in 0 .. now :
                            LET exact == ExactBalance(ledger[resp[r].height], req[r], t)
                            IN  exact <= MaxUint => bal[r] = exact
      BY DEF BalanceOfItsBlock
    <2> DEFINE S == Owned(got[r], assets[r])
               s == ledger[resp[r].height]
               bound == SingleOwner(s.stake)
    <2>1. BalanceComputed(r) /\ Answered(r) /\ Working(r) /\ CoinsComputed(r)
      BY DEF AnswerInv, AllBalances, AllComputed, Succeeded, Answered, Working
    <2>2. /\ assets[r] = Requested(req[r]) /\ got[r] \in [UTXO -> Nat] /\ ~isRewards(req[r])
          /\ staked[r] \in SUBSET UTXO
      BY <2>1 DEF BalanceComputed, isSnapshot, AnswerInv, IInv, TypeOK
    <2>3. Received(got[r]) = s.utxos /\ staked[r] = s.stake
      BY <2>1 DEF CoinsComputed, AnswerInv, IInv, SnapshotConsistency, SnapshotOf, fetchStaked, isSnapshot
    <2>4. PICK t \in 0 .. now : ComputedFrom(got[r], assets[r], staked[r], req[r].sub, t, bal[r])
      BY <2>1, <2>2 DEF BalanceComputed
    <2>5. /\ S \in SUBSET UTXO /\ Exact(S) \in Nat /\ Exact(S) <= MaxUint /\ Exact(bound) \in Nat
          /\ \A u \in S : Out[u].kind # "opaque"
          /\ bal[r] = CASE req[r].sub = "unlocked" -> Exact(OfClass(S, "unlocked", t))
                        [] req[r].sub = "locked_stakeable" -> Exact(OfClass(S, "locked_stakeable", t))
                        [] req[r].sub = "locked_not_stakeable" -> Exact(OfClass(S, "locked_not_stakeable", t))
                        [] req[r].sub = "staked" -> Exact(bound) % (MaxUint + 1)
                        [] OTHER -> (Exact(S) + (Exact(bound) % (MaxUint + 1))) % (MaxUint + 1)
      <3>1. SumsRight(Owned(got[r], assets[r]), SingleOwner(staked[r]), req[r].sub, t, bal[r])
        BY <2>2, <2>4, ComputedExact
      <3>2. QED
        BY <2>3, <3>1 DEF SumsRight
    <2>6. {u \in s.utxos : Out[u].addrs <= 1 /\ Asked(u, req[r])} = S
      <3>1. req[r].cur = {} <=> Requested(req[r]) = {}
        BY DEF Requested
      <3>2. QED
        BY <2>2, <2>3, <3>1 DEF Owned, Eligible, Asked
    <2> DEFINE asked == {u \in s.stake : Out[u].addrs <= 1 /\ Asked(u, req[r])}
    <2>15. CountsStake(req[r]) => asked = bound
      BY DEF StakeMixed, ForeignStake, SingleOwner
    <2> HIDE DEF S, bound, asked
    <2>7. {u \in S : Out[u].lock <= t /\ Out[u].inner <= t} = OfClass(S, "unlocked", t)
      BY <2>5, OutputTypes DEF OfClass, BalanceClass
    <2>8. {u \in S : Out[u].kind = "lockout" /\ Out[u].inner <= t /\ t < Out[u].lock}
                = OfClass(S, "locked_stakeable", t)
      BY <2>5, OutputTypes DEF OfClass, BalanceClass
    <2>9. S \ (OfClass(S, "unlocked", t) \cup OfClass(S, "locked_stakeable", t))
                = OfClass(S, "locked_not_stakeable", t)
      BY <2>5, OutputTypes DEF OfClass, BalanceClass
    <2>10. ExactBalance(s, req[r], t) =
             CASE req[r].sub = "unlocked" -> Exact(OfClass(S, "unlocked", t))
               [] req[r].sub = "locked_stakeable" -> Exact(OfClass(S, "locked_stakeable", t))
               [] req[r].sub = "locked_not_stakeable" -> Exact(OfClass(S, "locked_not_stakeable", t))
               [] req[r].sub = "staked" -> Exact(asked)
               [] OTHER -> Exact(S) + Exact(asked)
      BY <2>6, <2>7, <2>8, <2>9 DEF ExactBalance, asked
    <2> HIDE DEF s
    <2>11. ExactBalance(s, req[r], t) <= MaxUint => bal[r] = ExactBalance(s, req[r], t)
      <3> DEFINE x == Exact(S)
                 y == Exact(bound)
      <3>1. MaxUint \in Nat /\ x \in Nat /\ y \in Nat
        BY <2>5, ConstantsAssumption
      <3>2. CASE req[r].sub \in {"unlocked", "locked_stakeable", "locked_not_stakeable"}
        BY <2>5, <2>10, <3>2
      <3>3. CASE req[r].sub = "staked"
        <4>1. bal[r] = y % (MaxUint + 1) /\ ExactBalance(s, req[r], t) = y
          BY <2>5, <2>10, <2>15, <3>3 DEF CountsStake
        <4> HIDE DEF y
        <4>2. QED
          BY <3>1, <4>1, ModIdentity
      <3>4. CASE req[r].sub \notin {"unlocked", "locked_stakeable", "locked_not_stakeable", "staked"}
        <4>1. bal[r] = (x + (y % (MaxUint + 1))) % (MaxUint + 1) /\ ExactBalance(s, req[r], t) = x + y
          BY <2>5, <2>10, <2>15, <3>4 DEF CountsStake
        <4> HIDE DEF x, y
        <4> SUFFICES ASSUME x + y <= MaxUint PROVE bal[r] = x + y
          BY <4>1
        <4>2. y <= MaxUint /\ x + y \in Nat
          BY <3>1
        <4>3. y % (MaxUint + 1) = y /\ (x + y) % (MaxUint + 1) = x + y
          BY <3>1, <4>2, ModIdentity
        <4>4. QED
          BY <4>1, <4>3
      <3>5. QED
        BY <3>2, <3>3, <3>4
    <2>12. QED
      BY <2>11 DEF s
  <1>2. QED
    BY <1>1, AnswersComputed, PTL

(* Pending rewards are conserved: rounding the delegation fee down loses   *)
(* nothing.  What the validator's owner and each delegator are told adds   *)
(* up to the potential rewards of the validator and its delegators.        *)
THEOREM RewardsAddUp == Spec => []RewardsConserved
  <1>1. TypeOK => RewardsConserved
    <2> DEFINE s == ledger[height].stakers
    <2> SUFFICES ASSUME TypeOK, NEW v \in s, StakerInfo[v].role = "validator"
                 PROVE  SumOver(LAMBDA x : PendingRewards(s, {x}), s) = SumOver(potentialReward, s)
      BY DEF RewardsConserved
    <2>1. s \in StakersOfNode
      BY DEF TypeOK, Snapshot
    <2> DEFINE dels == {d \in s : StakerInfo[d].role = "delegator"}
               p == [x \in Staker |-> PendingRewards(s, {x})]
               w == [x \in Staker |-> potentialReward(x)]
               fee == [x \in Staker |-> delegationFee(x)]
               net == [x \in Staker |-> delegateReward(x)]
    <2> HIDE DEF s
    <2>2. /\ s \in SUBSET Staker /\ v \in Staker /\ v \notin dels /\ dels \subseteq Staker
          /\ s = dels \cup {v} /\ {x \in s : StakerInfo[x].role = "validator"} = {v}
      BY <2>1, RewardTypes DEF StakersOfNode
    <2>3. IsFiniteSet(dels)
      BY <2>2, ConstantsAssumption, FS_Subset
    <2>4. \A x \in dels \cup {v} : w[x] \in Int /\ fee[x] \in Int /\ net[x] \in Int /\ w[x] = fee[x] + net[x]
      <3>1. ASSUME NEW x \in dels \cup {v}
            PROVE  w[x] \in Int /\ fee[x] \in Int /\ net[x] \in Int /\ w[x] = fee[x] + net[x]
        <4>1. /\ x \in Staker /\ w[x] = potentialReward(x) /\ fee[x] = delegationFee(x)
              /\ net[x] = delegateReward(x)
          BY <2>2
        <4>2. delegateReward(x) = potentialReward(x) - delegationFee(x)
          BY DEF delegateReward, potentialReward
        <4>3. potentialReward(x) \in Nat /\ delegationFee(x) \in Nat
          BY <4>1, RewardTypes
        <4>4. QED
          BY <4>1, <4>2, <4>3
      <3>2. QED
        BY <3>1
    <2>5. p[v] = w[v] + SumFunctionOnSet(fee, dels)
      <3>1. PendingRewards(s, {v}) = SumOver(potentialReward, {v}) + SumOver(delegationFee, dels)
                                        + SumOver(delegateReward, {})
        <4>1. {v} \cap {v} = {v} /\ dels \cap {v} = {} /\ {v} # {}
          BY <2>2
        <4>2. QED
          BY <2>2, <4>1 DEF PendingRewards
      <3>2. SumOver(potentialReward, {v}) = w[v]
        <4>1. SumFunctionOnSet(w, {} \cup {v}) = w[v] + SumFunctionOnSet(w, {})
          <5>1. IsFiniteSet({}) /\ v \notin {} /\ \A x \in {} \cup {v} : w[x] \in Int
            BY <2>4, FS_EmptySet
          <5> HIDE DEF w
          <5>2. QED
            BY <5>1, SumAdd
        <4>2. {} \cup {v} = {v} /\ SumFunctionOnSet(w, {}) = 0 /\ w[v] \in Int
          BY <2>4, SumEmpty
        <4> HIDE DEF w
        <4>3. SumFunctionOnSet(w, {v}) = w[v]
          BY <4>1, <4>2
        <4>4. QED
          BY <4>3 DEF SumOver, w
      <3>3. SumOver(delegateReward, {}) = 0
        BY SumEmpty DEF SumOver
      <3>4. SumOver(delegationFee, dels) = SumFunctionOnSet(fee, dels)
        BY DEF SumOver
      <3>5. SumFunctionOnSet(fee, dels) \in Int /\ w[v] \in Int
        <4> HIDE DEF fee, w
        <4>1. QED
          BY <2>3, <2>4, SumIsInt
      <3>6. p[v] = PendingRewards(s, {v})
        BY <2>2
      <3> HIDE DEF p, w, fee, net, dels
      <3>7. QED
        BY <3>1, <3>2, <3>3, <3>4, <3>5, <3>6
    <2>6. \A x \in dels : p[x] = net[x]
      <3> SUFFICES ASSUME NEW x \in dels PROVE p[x] = net[x]
        OBVIOUS
      <3>1. x \in Staker /\ {v} \cap {x} = {} /\ dels \cap {x} = {x} /\ {v} # {}
        BY <2>2
      <3>2. PendingRewards(s, {x}) = SumOver(potentialReward, {}) + 0 + SumOver(delegateReward, {x})
        BY <2>2, <3>1 DEF PendingRewards
      <3>3. SumOver(potentialReward, {}) = 0
        BY SumEmpty DEF SumOver
      <3>4. SumFunctionOnSet(net, {} \cup {x}) = net[x] + SumFunctionOnSet(net, {})
        <4>1. IsFiniteSet({}) /\ x \notin {} /\ \A y \in {} \cup {x} : net[y] \in Int
          BY <2>4, FS_EmptySet
        <4> HIDE DEF net
        <4>2. QED
          BY <4>1, SumAdd
      <3>5. {} \cup {x} = {x} /\ SumFunctionOnSet(net, {}) = 0 /\ net[x] \in Int
        BY <2>4, SumEmpty
      <3>6. SumOver(delegateReward, {x}) = SumFunctionOnSet(net, {x})
        BY DEF SumOver
      <3>7. p[x] = PendingRewards(s, {x})
        BY <3>1
      <3> HIDE DEF net, p
      <3>8. QED
        BY <3>2, <3>3, <3>4, <3>5, <3>6, <3>7
    <2> HIDE DEF p, w, fee, net, dels
    <2>7. SumFunctionOnSet(p, dels) = SumFunctionOnSet(net, dels)
      BY <2>3, <2>4, <2>6, SumSame
    <2>8. SumFunctionOnSet(w, dels) = SumFunctionOnSet(fee, dels) + SumFunctionOnSet(net, dels)
      BY <2>3, <2>4, SumPlus
    <2>9. /\ SumFunctionOnSet(fee, dels) \in Int /\ SumFunctionOnSet(net, dels) \in Int
          /\ SumFunctionOnSet(w, dels) \in Int /\ w[v] \in Int
      BY <2>3, <2>4, SumIsInt
    <2>10. SumFunctionOnSet(w, dels \cup {v}) = w[v] + SumFunctionOnSet(w, dels)
      BY <2>2, <2>3, <2>4, SumAdd
    <2>11. SumFunctionOnSet(p, dels \cup {v}) = p[v] + SumFunctionOnSet(p, dels)
      <3>1. \A x \in dels \cup {v} : p[x] \in Int
        BY <2>4, <2>5, <2>6, <2>9
      <3>2. QED
        BY <2>2, <2>3, <3>1, SumAdd
    <2>12. SumFunctionOnSet(p, s) = SumFunctionOnSet(w, s)
      BY <2>2, <2>5, <2>7, <2>8, <2>9, <2>10, <2>11
    <2>13. QED
      BY <2>12 DEF SumOver, p, w
  <1>2. QED
    BY <1>1, TypeCorrect, PTL

=============================================================================
