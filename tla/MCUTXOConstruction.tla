------------------------- MODULE MCUTXOConstruction -------------------------
(***************************************************************************)
(* Instances of UTXOConstruction for TLC.                                  *)
(***************************************************************************)
EXTENDS UTXOConstruction, TLC

(* Coins of two accounts on either side *)
MCOwner == 1 :> 1 @@ 2 :> 2 @@ 3 :> 1 @@ 4 :> 2 @@ 5 :> 1 @@ 6 :> 2
MCImported == {4, 5, 6}
MCFirstNonce == 1 :> 1 @@ 2 :> 0

In(coin, kind, sigs) ==
    [side |-> "in", account |-> Owner[coin], coin |-> coin, amount |-> coin,
     kind |-> kind, sigs |-> sigs]
EVMIn(account, coin) ==
    [side |-> "in", account |-> account, coin |-> coin, amount |-> 1, kind |-> "INPUT", sigs |-> 1]
To(account, amount, kind) ==
    [side |-> "out", account |-> account, coin |-> 0, amount |-> amount, kind |-> kind, sigs |-> 0]

Kinds(coin) == IF coin \in Imported THEN {"IMPORT"} ELSE {"INPUT"}
PIn == UNION {{In(c, k, 1) : k \in Kinds(c)} : c \in Coins} \cup {In(1, "INPUT", 2)}
Upto2(S) == {<<x>> : x \in S} \cup {<<x, y>> : x \in S, y \in S}
Upto3(S) == Upto2(S) \cup {<<x, y, z>> : x \in S, y \in S, z \in S}

POuts == {<<>>, <<To(1, 1, "OUTPUT")>>, <<To(2, 2, "EXPORT"), To(1, 1, "OUTPUT")>>,
          <<To(2, 2, "STAKE"), To(2, 1, "STAKE"), To(1, 1, "OUTPUT")>>}

Ask(type, ins, outs, n) == [type |-> type, ops |-> outs \o ins, nonce |-> n]

MCIntents ==
    {Ask(type, ins, outs, -1) : type \in PTypes, ins \in Upto2(PIn) \cup {<<>>}, outs \in POuts}
    \cup {Ask("IMPORT", ins, <<To(1, 1, "OUTPUT")>>, -1) :
            ins \in Upto3({In(c, "IMPORT", 1) : c \in Imported})}
    \cup {Ask("IMPORT", <<In(4, "IMPORT", 1)>>, <<To(1, 1, "OUTPUT"), To(2, 1, "OUTPUT")>>, -1)}
    \cup {Ask("EXPORT", ins, <<To(2, 1, "EXPORT")>>, n) :
            ins \in Upto2({EVMIn(a, c) : a \in Account, c \in {0, 1}}), n \in {-1, 0, 1}}
=============================================================================
