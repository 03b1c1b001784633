---------------------------- MODULE MCCChainTrace ----------------------------
(***************************************************************************)
(* Instances of CChainTrace for TLC.                                       *)
(***************************************************************************)
EXTENDS CChainTrace

CONSTANTS u, x, y, n, burn, infl, zero

(* The user can pay a fee and send 1; one contract holds something. *)
MCInitialBalance == [acct \in Account |-> IF acct = u THEN 5 ELSE IF acct = y THEN 1 ELSE 0]

(* One contract calls others and creates one, which are called back and    *)
(* can destroy themselves; another runs the code of one on its own behalf. *)
MCDoes ==
       x :> {<<"CALL", y>>, <<"CREATE", n>>}
    @@ y :> {<<"CALL", u>>, <<"CALL", x>>, <<"SELFDESTRUCT", u>>, <<"SELFDESTRUCT", y>>}
    @@ n :> {<<"SELFDESTRUCT", x>>}
    @@ infl :> {<<"DELEGATECALL", y>>}

(* Calls and self-destructs only *)
PlainDoes ==
       x :> {<<"CALL", u>>, <<"CALL", y>>}
    @@ y :> {<<"CALL", u>>, <<"CALL", x>>, <<"SELFDESTRUCT", u>>}
=============================================================================
