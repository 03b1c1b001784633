---------------------------- MODULE MCCChainServer ----------------------------
(***************************************************************************)
(* Instances of CChainServer for TLC.                                      *)
(***************************************************************************)
EXTENDS CChainServer

CONSTANTS h1, h2, u, v, t, w, nft, burn, ftso, infl, zero

C(type, from, to, value) ==
    [type |-> type, from |-> from, to |-> to, value |-> value, parent |-> 0, error |-> FALSE]
Log(token, topics, from, to, val) ==
    [transfer |-> TRUE, token |-> token, topics |-> topics, from |-> from, to |-> to, val |-> val]
Tx(id, from, to, trace, logs, effect) ==
    [id |-> id, from |-> from, to |-> to, gasUsed |-> 1, feeCap |-> 3, tip |-> 1, ftsoTxFee |-> 1,
     success |-> TRUE, lowGas |-> TRUE, trace |-> trace, logs |-> logs, effect |-> effect]
Out(acct, amount, flr) == [acct |-> acct, amount |-> amount, flr |-> flr]
In(utxo, amount, flr) == [utxo |-> utxo, amount |-> amount, flr |-> flr]

(* A transfer with logs of two tokens, and an import; a call of the FTSO   *)
(* contract with a mint, a burn, an NFT and a log of no transfer, an       *)
(* export and an import of another asset only.                             *)
Block1 ==
    [txs |-> <<Tx(1, u, v, <<C("CALL", u, v, 1)>>,
                  <<Log(t, 3, u, v, 3), Log(w, 3, v, u, 1)>>,
                  u :> -3 @@ v :> 1 @@ burn :> 2)>>,
     atomic |-> <<[id |-> 11, type |-> "IMPORT", ins |-> <<In(1, 3, TRUE)>>,
                   outs |-> <<Out(v, 2, TRUE)>>]>>]
Block2 ==
    [txs |-> <<Tx(2, v, ftso, <<C("CALL", v, ftso, 0)>>,
                  <<Log(t, 3, zero, u, 2), [Log(w, 3, u, v, 9) EXCEPT !.transfer = FALSE],
                    Log(nft, 4, v, u, 0), Log(t, 3, v, zero, 1)>>,
                  v :> -1 @@ burn :> 1),
               Tx(3, u, v, <<C("CALL", u, v, 0)>>, <<>>, u :> -3 @@ burn :> 3)>>,
     atomic |-> <<[id |-> 12, type |-> "EXPORT", toPChain |-> TRUE,
                   ins |-> <<Out(v, 2, TRUE)>>, outs |-> <<Out(u, 1, TRUE)>>],
                  [id |-> 13, type |-> "IMPORT", ins |-> <<In(2, 1, FALSE)>>,
                   outs |-> <<Out(v, 1, FALSE)>>]>>]
MCChain == <<Block1, Block2>>
MCBaseFee == [n \in Height |-> IF n = 0 THEN None ELSE n]
MCAccount == {u, v, burn, ftso}
MCInfo == t :> [symbol |-> "T", decimals |-> 6] @@ w :> [symbol |-> "", decimals |-> 0]
          @@ nft :> [symbol |-> "NFT", decimals |-> 0]
UTXO(id) == [id |-> id, amount |-> 1]
MCExports == [src \in Source |-> IF src = "P" THEN <<UTXO(1), UTXO(4), UTXO(2)>> ELSE <<UTXO(3), UTXO(5)>>]

(* Requests *)
Q(kind, n, h, tx) ==
    [kind |-> kind, n |-> n, h |-> h, identified |-> {n, h} # {None}, tx |-> tx, acct |-> v, curs |-> <<>>]
Latest(kind) == Q(kind, None, None, 0)
OfToken == ToCurrency("T", 6, t)
NoContract == ToCurrency("ABC", 1, zero)

Blocks == {Q("block", 1, None, 0), Q("block", None, 2, 0)}
Lookups == {Q("block", 0, 2, 0), Q("block", None, 0, 0), Q("block", 1, 0, 0), Q("block", 1, 2, 0),
            Q("block", None, None, 0), Q("transaction", None, None, 1),
            Q("transaction", 1, 1, 1), Q("transaction", 2, 2, 2), Q("transaction", 0, 0, 1),
            Q("transaction", 2, 2, 1), Q("transaction", 1, 1, 3), Q("mempool", None, None, 0),
            Q("call", None, 1, 1), Q("call", None, 1, 0), Q("call", None, 0, 1)}
Balances == {[Latest("balance") EXCEPT !.curs = <<OfToken, FlareCurrency>>],
             [Q("balance", 1, None, 0) EXCEPT !.curs = <<OfToken>>],
             [Q("balance", None, 2, 0) EXCEPT !.curs = <<FlareCurrency, NoContract>>],
             Latest("balance"), [Latest("balance") EXCEPT !.identified = TRUE]}
Coins == {Latest("coins"), Latest("atomic")}
Statuses == {Latest("status"), Latest("pstatus")}

Node(height, p, x) == [height |-> height, exports |-> [src \in Source |-> IF src = "P" THEN p ELSE x]]
S(offline, start, end, ready, requests) ==
    [offline |-> offline, start |-> start, end |-> end, boot |-> ready, requests |-> requests]
One(requests) == [r \in Handlers |-> IF r = h1 THEN requests ELSE {}]
Ready == {"C", "X", "P"}

(* Blocks are asked for by two handlers at once, the rest by one; blocks   *)
(* are accepted, UTXOs exported and chains bootstrapped where it matters.  *)
MCSession ==
    {S(FALSE, Node(2, 3, 0), Node(2, 3, 0), Ready,
       [r \in Handlers |-> IF r = h1 THEN {Q("block", 1, None, 0)} ELSE Blocks]),
     S(FALSE, Node(1, 3, 0), Node(2, 3, 0), Ready, One(Lookups)),
     S(FALSE, Node(0, 3, 0), Node(2, 3, 0), Ready, One(Balances)),
     S(FALSE, Node(0, 0, 0), Node(2, 3, 2), Ready, One(Coins)),
     S(FALSE, Node(0, 0, 0), Node(1, 1, 0), {}, One(Statuses)),
     S(TRUE, Node(0, 0, 0), Node(0, 0, 0), Ready, One(Coins \cup Lookups))}
=============================================================================
