--------------------------- MODULE MCPChainAccount ---------------------------
(***************************************************************************)
(* Instances of PChainAccount for TLC.                                     *)
(***************************************************************************)
EXTENDS PChainAccount, TLC

CONSTANTS avax, other

O(kind, asset, amt, addrs, lock, inner) ==
    [kind |-> kind, asset |-> asset, amt |-> amt, addrs |-> addrs,
     lock |-> lock, inner |-> inner]

MCAsset == {avax, other}
MCCurrency == {"AVAX", "OTHER", "WRONG"}
MCAssetOf == "AVAX" :> avax @@ "OTHER" :> other @@ "WRONG" :> avax
MCDecimalsOK == {"AVAX", "OTHER"}

Q(endpoint, sub, cur) ==
    [endpoint |-> endpoint, acct |-> "ok", atBlock |-> FALSE, sub |-> sub, cur |-> cur]

(* Unlocked, time-locked, stakeable-locked, foreign and multisig outputs *)
BalanceOuts == <<O("transfer", avax, 3, 1, 0, 0), O("lockout", avax, 2, 1, 1, 0),
                 O("transfer", other, 4, 1, 1, 0), O("transfer", avax, 1, 2, 0, 0)>>
BalanceOut == [u \in UTXO |-> BalanceOuts[u]]

(* One of them has no addresses *)
CoinsOuts == <<O("transfer", avax, 3, 1, 0, 0), O("lockout", other, 2, 1, 1, 0),
               O("transfer", avax, 4, 2, 0, 0), O("opaque", other, 1, 0, 0, 0)>>
CoinsOut == [u \in UTXO |-> CoinsOuts[u]]

(* Many small outputs, for paging through shared memory *)
SharedOut == [u \in UTXO |-> O("transfer", avax, 1, 1, 0, 0)]

MCGenesis == [utxos |-> {1, 2}, stake |-> {}, stakers |-> {}]
SharedGenesis == [utxos |-> {}, stake |-> {}, stakers |-> {}]

MCStaker == {"v", "d1", "d2"}
MCStakerInfo ==
       "v"  :> [role |-> "validator", reward |-> 7]
    @@ "d1" :> [role |-> "delegator", reward |-> 10]
    @@ "d2" :> [role |-> "delegator", reward |-> 20]
NoStakerInfo == [s \in {} |-> 0]

InvalidReqs ==
    {[Q("balance", "none", {}) EXCEPT !.acct = "none"],
     [Q("balance", "none", {}) EXCEPT !.acct = "malformed"],
     [Q("balance", "none", {}) EXCEPT !.atBlock = TRUE],
     [Q("coins", "none", {}) EXCEPT !.acct = "malformed"],
     Q("balance", "badnode", {}), Q("balance", "unknown", {}),
     Q("balance", "none", {"WRONG"})}
LedgerReqs == InvalidReqs
    \cup {Q("balance", sub, {}) : sub \in {"none", "locked_stakeable", "locked_not_stakeable"}}
    \cup {Q("balance", sub, {"AVAX"}) : sub \in {"none", "staked"}}
    \cup {Q("coins", "none", {}), Q("coins", "none", {"OTHER"})}
WrongCurrencyReqs == {Q("coins", "none", {"WRONG"}), Q("coins", "none", {"OTHER"})}
SharedReqs == {Q("balance", "shared_memory", {}), Q("coins", "shared_memory", {})}
SharedAndRewardsReqs == SharedReqs \cup {Q("balance", "node", {})}
TotalReqs == {Q("balance", "none", {})}
=============================================================================
