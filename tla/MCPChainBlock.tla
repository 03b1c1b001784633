---------------------------- MODULE MCPChainBlock ----------------------------
(***************************************************************************)
(* Instances of PChainBlock for TLC.                                       *)
(***************************************************************************)
EXTENDS PChainBlock, TLC

CONSTANTS empty, none, a, s, t, p

B(txs, d, rewards, own, proposer) ==
    [txs |-> txs, deps |-> d, rewards |-> rewards, time |-> own, proposer |-> proposer]

(* Block 1 spends the genesis allocation in two transactions that stake,   *)
(* block 2 proposes to reward them, and block 3 decides that.              *)
MCTxID == {empty, a, s, t, p}
MCChain == <<B({s, t}, <<empty, empty>>, {}, 0, 5), B({p}, <<s, t>>, {s, t}, 0, 0),
             B({}, <<a>>, {}, 7, 0)>>
MCRewardedIn == [x \in MCTxID |-> IF x = s THEN 3 ELSE 0]

(* The first handler gets any request, the second one asks for the genesis *)
(* allocation only.                                                        *)
CONSTANTS h1, h2
Q(by, n, tx) == [by |-> by, n |-> n, tx |-> tx]
MCRequests ==
    h1 :> {Q("index", 0, none), Q("index", 1, none), Q("hash", 2, p),
            Q("index", 3, none), Q("index", 3, p)}
    @@ h2 :> {Q("index", 0, empty)}
=============================================================================
