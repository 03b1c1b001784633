------------------------- MODULE MCCChainConstruction -------------------------
(***************************************************************************)
(* Instances of CChainConstruction for TLC.  An int64 is at most 7, so a   *)
(* uint64 at most 15; amounts have a top byte from 32 and fit 256 bits     *)
(* below 64.                                                               *)
(***************************************************************************)
EXTENDS CChainConstruction

MCGas == "" :> 2 @@ "transfer" :> 3 @@ "unwrap" :> 4 @@ "ping" :> 3

Args(amount, chain, whole) ==
    [good |-> TRUE, to |-> "b", amount |-> amount, chain |-> chain, whole |-> whole]

Plain(ops) == [NoIntent EXCEPT !.ops = ops]
Pay(n) == Plain(Move("CALL", "a", "b", n, "FLR"))
Send(token, n) == Plain(Move("ERC20_TRANSFER", "a", "b", n, token))
Unwrap(token, n) == [Plain(<<Op("ERC20_BURN", "a", -n, token)>>) EXCEPT !.unwrap = TRUE]
CallOf(method, args, cur) ==
    [Plain(Move("CALL", "a", "t", 0, cur)) EXCEPT !.method = method, !.args = args]

Transfers ==
    {Pay(5), Pay(64), Plain(Reverse(Send("t", 5).ops)), Send("t", 33),
     Send("n", 5), Plain(Move("ERC20_TRANSFER", "a", "x", 5, "t")),
     Plain(Move("CALL", "t", "b", 5, "FLR")),
     Plain(<<Op("CALL", "a", -5, "FLR"), Op("CALL", "b", 4, "FLR")>>),
     Plain(<<Op("CALL", "a", -5, "FLR"), Op("CALL", "b", 5, "t")>>),
     Unwrap("t", 5), Unwrap("u", 5), Unwrap("t", 33), Unwrap("FLR", 5)}
Others ==
    {CallOf("ping", Args(33, 0, TRUE), "FLR"), CallOf("ping", Args(5, 0, FALSE), "n"),
     CallOf("ping", [good |-> FALSE], "FLR"), CallOf("transfer", Args(5, 0, TRUE), "FLR"),
     CallOf("transfer", Args(5, 0, FALSE), "FLR"), CallOf("unwrap", Args(5, 1, TRUE), "FLR"),
     [CallOf("ping", Args(5, 0, TRUE), "FLR") EXCEPT !.unwrap = TRUE]}
Chosen ==
    {[Pay(5) EXCEPT !.gasPrice = <<3>>, !.gasLimit = <<5>>], [Pay(5) EXCEPT !.gasPrice = <<-1>>],
     [Pay(5) EXCEPT !.gasPrice = <<64>>], [Pay(5) EXCEPT !.gasPrice = <<9>>, !.nonce = <<16>>],
     [Pay(5) EXCEPT !.gasLimit = <<17>>, !.nonce = <<1>>],
     [Send("t", 5) EXCEPT !.multiplier = <<<<3, 2>>>>]}
Older ==
    {[Pay(40) EXCEPT !.legacy = {"options", "signed"}], [Send("t", 5) EXCEPT !.legacy = {"signed"}],
     [Send("t", 5) EXCEPT !.legacy = {"options"}], [Unwrap("t", 5) EXCEPT !.legacy = {"signed"}]}
Elsewhere ==
    {[Pay(5) EXCEPT !.network = "P"], Plain(<<Op("EXPORT", "a", -5, "FLR")>>),
     Plain(<<Op("IMPORT", "a", -5, "FLR")>>)}

MCIntents ==
    "c1" :> (Transfers \cup Others \cup Chosen \cup Older \cup Elsewhere)
    @@ "c2" :> {[Pay(4) EXCEPT !.gasPrice = <<2>>]}
=============================================================================
