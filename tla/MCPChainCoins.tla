---------------------------- MODULE MCPChainCoins ----------------------------
(***************************************************************************)
(* Instances of PChainCoins for TLC.                                       *)
(***************************************************************************)
EXTENDS PChainCoins

CONSTANTS a, b

(* An owned output, and one that follows a multisig output *)
MCOutputs == {<<{a}>>, <<{a, b}, {b}>>}
MCExtras == {<<{b}>>, <<{a, b}, {a}>>}

(* Staked, exported and reward outputs, one of them without addresses *)
OneExtra == {<<{}, {a}>>}

RefundA == {a}
=============================================================================
