-------------------------- MODULE CChainServerProofs --------------------------
(***************************************************************************)
(* Proofs about CChainServer, for any chain, sessions, tokens and number   *)
(* of handlers: balances and statuses fit the block they name, the node,   *)
(* the cache and the handlers are of their type, the coins of an account   *)
(* are those at the block they name, and the operations of a block replay  *)
(* to what its transactions did.                                           *)
(*                                                                         *)
(* Handlers that serve other requests share nothing with these but the     *)
(* node and the cache, so all that matters of them is that they stay with  *)
(* their kind of request.                                                  *)
(***************************************************************************)
EXTENDS CChainServer, InductionLemmas

-----------------------------------------------------------------------------
(* The inductive invariant *)

BalanceLabels == {"latest", "nonce", "balance", "token"}
StatusLabels == {"peers", "cboot", "xboot", "current", "first"}
PStatusLabels == {"ppeers", "pboot", "pcurrent"}
OtherLabels == {"block", "parent", "trace", "receipt", "log", "symbol", "decimals", "header", "tx",
                "pre", "utxos", "post", "pool", "call"}
OtherKinds == {"block", "transaction", "coins", "atomic", "mempool", "call"}

(* The node, and the functions over the handlers *)
SharedInv ==
    /\ session \in SessionType
    /\ accepted \in Nat
    /\ exported \in [Source -> Nat]
    /\ DOMAIN pc = Handlers /\ DOMAIN req = Handlers /\ DOMAIN since = Handlers
    /\ DOMAIN local = Handlers /\ DOMAIN resp = Handlers

(* A handler is where requests of its kind are served, and has answered    *)
(* only when it is done.                                                   *)
KindInv(r) ==
    /\ req[r] \in Request \cup {NoReq}
    /\ pc[r] \in BalanceLabels \cup StatusLabels \cup PStatusLabels \cup OtherLabels \cup {"idle", "done"}
    /\ pc[r] \in BalanceLabels => req[r].kind = "balance"
    /\ pc[r] \in StatusLabels => req[r].kind = "status"
    /\ pc[r] \in PStatusLabels => req[r].kind = "pstatus"
    /\ pc[r] \in OtherLabels => req[r].kind \in OtherKinds
    /\ pc[r] # "done" => resp[r].status # "ok"

(* The node has only gone on since the request arrived. *)
SinceInv(r) ==
    /\ since[r].accepted \in Nat /\ since[r].accepted <= accepted
    /\ since[r].boot \subseteq boot
    /\ since[r].exported["P"] \in Nat /\ since[r].exported["P"] <= exported["P"]

(* The currencies of requests, and FLR; what an account has of a currency  *)
(* at block n, and sequences of such                                       *)
Asked == [symbol : STRING, decimals : Nat, contract : Token \cup {zeroAddress}]
Currency == Asked \cup {FlareCurrency}
ValueAt(n, acct, cur) ==
    IF cur = FlareCurrency THEN BalanceOf(n, acct) ELSE TokensOf(n, cur.contract, acct)
Amounts(n, acct) == Seq({[cur |-> c, value |-> ValueAt(n, acct, c)] : c \in Currency})

Fields == {"block", "txs", "logs", "ops", "done", "symbol", "curs", "amounts", "nonce", "flr",
           "src", "cursor", "coins", "cReady"}

RecentBlock(r, n) == n \in Nat /\ since[r].accepted <= n /\ n <= accepted

(* What a handler that reads a balance has read is of the block it names. *)
BalanceInv(r) ==
    LET l == local[r]
        acct == req[r].acct
    IN  /\ pc[r] \in {"nonce", "balance", "token"} =>
            /\ l.curs \in Seq(Currency)
            /\ l.amounts \in Amounts(l.block, acct)
            /\ Wanted(req[r]) = None => RecentBlock(r, l.block)
        /\ pc[r] \in {"balance", "token"} => l.nonce = NonceOf(l.block, acct)
        /\ pc[r] = "token" => l.flr = BalanceOf(l.block, acct)

(* What a handler that reads the status has seen *)
StatusInv(r) ==
    /\ pc[r] = "xboot" => IF local[r].cReady THEN "C" \in boot ELSE "C" \notin since[r].boot
    /\ pc[r] \in {"current", "first"} => {"C", "X"} \subseteq boot
    /\ pc[r] = "first" => RecentBlock(r, local[r].block)
    /\ pc[r] = "pcurrent" => "P" \in boot

(* The answer *)
AnswerInv(r) ==
    /\ Answered(r, {"balance"}) =>
        /\ Wanted(req[r]) = None => RecentBlock(r, resp[r].block)
        /\ resp[r].nonce = NonceOf(resp[r].block, req[r].acct)
        /\ resp[r].amounts \in Amounts(resp[r].block, req[r].acct)
    /\ Answered(r, {"status"}) =>
        IF resp[r].stage = "SYNCED" THEN {"C", "X"} \subseteq boot /\ RecentBlock(r, resp[r].block)
        ELSE ~({"C", "X"} \subseteq since[r].boot)
    /\ Answered(r, {"pstatus"}) =>
        IF resp[r].stage = "SYNCED"
        THEN /\ "P" \in boot /\ resp[r].block \in Nat
             /\ since[r].exported["P"] <= resp[r].block /\ resp[r].block <= exported["P"]
        ELSE "P" \notin since[r].boot

HandlerInv(r) ==
    /\ DOMAIN local[r] = Fields
    /\ KindInv(r) /\ SinceInv(r) /\ BalanceInv(r) /\ StatusInv(r) /\ AnswerInv(r)

IInv == SharedInv /\ \A r \in Handlers : HandlerInv(r)

-----------------------------------------------------------------------------
LEMMA NothingRead == DOMAIN NoLocal = Fields /\ NoResp.status = "none"
  BY DEF NoLocal, Fields, NoResp

(* A handler that is idle *)
LEMMA Idle ==
  ASSUME NEW r, pc[r] = "idle", req[r] = NoReq, since[r] = NoSince, local[r] = NoLocal,
         resp[r] = NoResp, accepted \in Nat, exported \in [Source -> Nat]
  PROVE  HandlerInv(r)
  <1>1. KindInv(r)
    BY NothingRead
    DEF KindInv, BalanceLabels, StatusLabels, PStatusLabels, OtherLabels
  <1>2. SinceInv(r)
    BY DEF SinceInv, NoSince, Source
  <1>3. BalanceInv(r) /\ StatusInv(r)
    BY DEF BalanceInv, StatusInv
  <1>4. AnswerInv(r)
    BY NothingRead DEF AnswerInv, Answered
  <1>5. QED
    BY <1>1, <1>2, <1>3, <1>4, NothingRead DEF HandlerInv

LEMMA InitIInv == Init => IInv
  <1> SUFFICES ASSUME Init PROVE IInv
    OBVIOUS
  <1>1. session \in SessionType
    BY ConstantsAssumption DEF Init
  <1>2. accepted \in Nat /\ exported \in [Source -> Nat]
    BY <1>1, ConstantsAssumption DEF Init, SessionType, NodeType, Height
  <1>3. SharedInv
    BY <1>1, <1>2 DEF Init, SharedInv
  <1>4. ASSUME NEW r \in Handlers PROVE HandlerInv(r)
    BY <1>2, Idle DEF Init
  <1>5. QED
    BY <1>3, <1>4 DEF IInv

-----------------------------------------------------------------------------
(* Steps of others *)

Still(q) ==
    /\ pc'[q] = pc[q] /\ req'[q] = req[q] /\ since'[q] = since[q] /\ local'[q] = local[q]
    /\ resp'[q] = resp[q]

(* The node goes on, or stays where it is. *)
NodeGoesOn == accepted <= accepted' /\ boot \subseteq boot' /\ exported["P"] <= exported'["P"]

LEMMA OthersStill ==
  ASSUME SharedInv, SharedInv', NodeGoesOn, NEW q \in Handlers, HandlerInv(q), Still(q)
  PROVE  HandlerInv(q)'
  <1>1. /\ accepted \in Nat /\ accepted' \in Nat
        /\ exported["P"] \in Nat /\ exported'["P"] \in Nat
    BY DEF SharedInv, Source
  <1>2. KindInv(q)'
    BY DEF HandlerInv, KindInv, Still
  <1>3. SinceInv(q)'
    BY <1>1 DEF HandlerInv, SinceInv, Still, NodeGoesOn
  <1>4. \A n : RecentBlock(q, n) => RecentBlock(q, n)'
    BY <1>1 DEF RecentBlock, HandlerInv, SinceInv, Still, NodeGoesOn
  <1>5. BalanceInv(q)'
    BY <1>4 DEF HandlerInv, BalanceInv, Still, RecentBlock
  <1>6. StatusInv(q)'
    BY <1>4 DEF HandlerInv, StatusInv, Still, NodeGoesOn, RecentBlock
  <1>7. AnswerInv(q)'
    BY <1>1, <1>4 DEF HandlerInv, AnswerInv, Answered, SinceInv, Still, NodeGoesOn, RecentBlock
  <1>8. QED
    BY <1>2, <1>3, <1>5, <1>6, <1>7 DEF HandlerInv, Still

(* A handler makes a step: all but what is its own stays. *)
Act(r) ==
    /\ UNCHANGED <<session, accepted, boot, exported, req, since>>
    /\ \A q \in Handlers \ {r} : Still(q)

LEMMA OneMoves ==
  ASSUME IInv, SharedInv', NodeGoesOn, NEW r \in Handlers,
         \A q \in Handlers \ {r} : Still(q), HandlerInv(r)'
  PROVE  IInv'
  <1>1. ASSUME NEW q \in Handlers PROVE HandlerInv(q)'
    <2>1. CASE q = r
      BY <2>1
    <2>2. CASE q # r
      BY <2>2, OthersStill DEF IInv
    <2>3. QED
      BY <2>1, <2>2
  <1>2. QED
    BY <1>1 DEF IInv

LEMMA ActMoves ==
  ASSUME IInv, SharedInv', NEW r \in Handlers, Act(r), HandlerInv(r)'
  PROVE  IInv'
  <1>1. NodeGoesOn
    BY DEF Act, NodeGoesOn, IInv, SharedInv, Source
  <1>2. QED
    BY <1>1, OneMoves DEF Act

(* The two ways a handler makes a step: it goes on, or it replies. *)
LEMMA ContinueAct ==
  ASSUME SharedInv, NEW r \in Handlers, NEW from, NEW to, NEW l, At(r, from), Continue(r, to, l)
  PROVE  /\ SharedInv' /\ Act(r) /\ pc[r] = from
         /\ pc'[r] = to /\ local'[r] = l /\ resp'[r] = resp[r]
  BY DEF SharedInv, At, Continue, Goto, Set, Act, Still, nodeVars

LEMMA ReplyAct ==
  ASSUME SharedInv, NEW r \in Handlers, NEW from, NEW a, At(r, from), Reply(r, a), UNCHANGED local
  PROVE  /\ SharedInv' /\ Act(r) /\ pc[r] = from
         /\ pc'[r] = "done" /\ local'[r] = local[r] /\ resp'[r] = a
  BY DEF SharedInv, At, Reply, Goto, Act, Still, nodeVars

(* What a step leaves of a handler's invariant *)
LEMMA ActSince ==
  ASSUME NEW r \in Handlers, HandlerInv(r), Act(r)
  PROVE  SinceInv(r)' /\ req'[r] = req[r] /\ req'[r] \in Request \cup {NoReq}
  BY DEF HandlerInv, SinceInv, KindInv, Act

(* A handler of a kind the theorem does not speak of may do what it likes, *)
(* and so may one that fails.                                              *)
LEMMA OtherContinues ==
  ASSUME IInv, SharedInv', NEW r \in Handlers, Act(r), pc[r] \in OtherLabels, pc'[r] \in OtherLabels,
         DOMAIN local'[r] = Fields, resp'[r] = resp[r]
  PROVE  IInv'
  <1>1. HandlerInv(r)
    BY DEF IInv
  <1>2. req'[r] = req[r] /\ req[r].kind \in OtherKinds /\ resp[r].status # "ok"
    BY <1>1 DEF HandlerInv, KindInv, Act, OtherLabels
  <1>3. KindInv(r)'
    BY <1>2, <1>1, ActSince
    DEF KindInv, OtherLabels, BalanceLabels, StatusLabels, PStatusLabels
  <1>4. BalanceInv(r)' /\ StatusInv(r)' /\ AnswerInv(r)'
    BY <1>2 DEF BalanceInv, StatusInv, AnswerInv, Answered, OtherLabels
  <1>5. HandlerInv(r)'
    BY <1>1, <1>3, <1>4, ActSince DEF HandlerInv
  <1>6. QED
    BY <1>5, ActMoves

LEMMA Replies ==
  ASSUME IInv, SharedInv', NEW r \in Handlers, Act(r), pc'[r] = "done",
         DOMAIN local'[r] = Fields, AnswerInv(r)'
  PROVE  IInv'
  <1>1. HandlerInv(r)
    BY DEF IInv
  <1>2. KindInv(r)'
    BY <1>1, ActSince
    DEF KindInv, OtherLabels, BalanceLabels, StatusLabels, PStatusLabels
  <1>3. BalanceInv(r)' /\ StatusInv(r)'
    BY DEF BalanceInv, StatusInv
  <1>4. HandlerInv(r)'
    BY <1>1, <1>2, <1>3, ActSince DEF HandlerInv
  <1>5. QED
    BY <1>4, ActMoves

LEMMA OtherReplies ==
  ASSUME IInv, SharedInv', NEW r \in Handlers, Act(r), pc[r] \in OtherLabels, pc'[r] = "done",
         DOMAIN local'[r] = Fields
  PROVE  IInv'
  <1>1. req'[r].kind \in OtherKinds
    BY DEF IInv, HandlerInv, KindInv, Act
  <1>2. AnswerInv(r)'
    BY <1>1 DEF AnswerInv, Answered, OtherKinds
  <1>3. QED
    BY <1>2, Replies

LEMMA Fails ==
  ASSUME IInv, SharedInv', NEW r \in Handlers, Act(r), pc'[r] = "done", local'[r] = local[r],
         resp'[r].status # "ok"
  PROVE  IInv'
  <1>1. AnswerInv(r)'
    BY DEF AnswerInv, Answered
  <1>2. DOMAIN local'[r] = Fields
    BY DEF IInv, HandlerInv
  <1>3. QED
    BY <1>1, <1>2, Replies

(* A failure as the actions have it *)
LEMMA FailIInv ==
  ASSUME IInv, NEW r \in Handlers, NEW from, NEW err, err # "ok", At(r, from), Fail(r, err),
         UNCHANGED local
  PROVE  IInv'
  <1>1. SharedInv
    BY DEF IInv
  <1>2. /\ SharedInv' /\ Act(r) /\ pc'[r] = "done" /\ local'[r] = local[r]
        /\ resp'[r] = [NoResp EXCEPT !.status = err]
    BY <1>1, ReplyAct DEF Fail
  <1>3. resp'[r].status # "ok"
    BY <1>2 DEF NoResp
  <1>4. QED
    BY <1>2, <1>3, Fails

-----------------------------------------------------------------------------
(* Steps of handlers of other kinds *)

LEMMA OtherContinueIInv ==
  ASSUME IInv, NEW r \in Handlers, NEW from \in OtherLabels, NEW to \in OtherLabels, NEW l,
         At(r, from), Continue(r, to, l), DOMAIN l = Fields
  PROVE  IInv'
  <1>1. SharedInv
    BY DEF IInv
  <1>2. /\ SharedInv' /\ Act(r) /\ pc[r] = from
        /\ pc'[r] = to /\ local'[r] = l /\ resp'[r] = resp[r]
    BY <1>1, ContinueAct
  <1>3. QED
    BY <1>2, OtherContinues

LEMMA OtherReplyIInv ==
  ASSUME IInv, NEW r \in Handlers, NEW from \in OtherLabels, NEW a, At(r, from), Reply(r, a),
         UNCHANGED local
  PROVE  IInv'
  <1>1. SharedInv
    BY DEF IInv
  <1>2. /\ SharedInv' /\ Act(r) /\ pc[r] = from
        /\ pc'[r] = "done" /\ local'[r] = local[r]
    BY <1>1, ReplyAct
  <1>3. DOMAIN local'[r] = Fields
    BY <1>2 DEF IInv, HandlerInv
  <1>4. QED
    BY <1>2, <1>3, OtherReplies

(* NextTx goes on with the next transaction, or answers. *)
LEMMA NextTxIInv ==
  ASSUME IInv, NEW r \in Handlers, NEW from \in OtherLabels, NEW l, At(r, from), NextTx(r, l),
         DOMAIN l = Fields
  PROVE  IInv'
  <1>1. CASE l.txs # <<>>
    <2>1. Continue(r, "receipt", l)
      BY <1>1 DEF NextTx, Continue
    <2>2. QED
      BY <2>1, OtherContinueIInv DEF OtherLabels
  <1>2. CASE ~(l.txs # <<>>)
    <2>1. SharedInv
      BY DEF IInv
    <2>2. SharedInv' /\ Act(r) /\ pc[r] = from /\ pc'[r] = "done" /\ local'[r] = l
      BY <1>2, <2>1 DEF NextTx, SharedInv, At, Reply, Set, Goto, Act, Still, nodeVars
    <2>3. QED
      BY <2>2, OtherReplies
  <1>3. QED
    BY <1>1, <1>2

LEMMA LocalFields ==
  ASSUME IInv, NEW r \in Handlers
  PROVE  DOMAIN local[r] = Fields
  BY DEF IInv, HandlerInv

LEMMA MapLogIInv ==
  ASSUME IInv, NEW r \in Handlers, NEW from \in OtherLabels, NEW info, At(r, from), MapLog(r, info)
  PROVE  IInv'
  <1> DEFINE l == [local[r] EXCEPT
            !.ops = @ \o tokenOps(Head(local[r].logs), info, Len(@), IndexUnknownTokens),
            !.logs = Tail(@), !.symbol = ""]
  <1>1. Continue(r, "log", l)
    BY DEF MapLog
  <1>2. DOMAIN l = Fields
    BY LocalFields
  <1> HIDE DEF l
  <1>3. QED
    BY <1>1, <1>2, OtherContinueIInv DEF OtherLabels

LEMMA BlockIInv ==
  ASSUME IInv, NEW r \in Handlers, Block(r)
  PROVE  IInv'
  <1> USE DEF OtherLabels
  <1>1. CASE Genesis(r)
    BY <1>1, OtherReplyIInv DEF Genesis
  <1>2. CASE FetchBlock(r)
    <2> DEFINE n == Wanted(req[r])
               l == [NoLocal EXCEPT !.block = n, !.txs = IF n = 0 THEN <<>> ELSE Ids(Chain[n].txs)]
    <2>1. CASE n > accepted
      BY <1>2, <2>1, FailIInv DEF FetchBlock
    <2>2. CASE ~(n > accepted)
      <3>1. DOMAIN l = Fields
        BY NothingRead
      <3>2. At(r, "block") /\ Continue(r, IF n = 1 THEN "trace" ELSE "parent", l)
        BY <1>2, <2>2 DEF FetchBlock
      <3> HIDE DEF l, n
      <3>3. QED
        BY <3>1, <3>2, OtherContinueIInv
    <2>3. QED
      BY <2>1, <2>2
  <1>3. CASE FetchParent(r)
    BY <1>3, FailIInv, LocalFields, OtherContinueIInv DEF FetchParent
  <1>4. CASE FetchHeader(r)
    <2> DEFINE l == [NoLocal EXCEPT !.block = req[r].h]
    <2>1. CASE req[r].h > accepted
      BY <1>4, <2>1, FailIInv DEF FetchHeader
    <2>2. CASE ~(req[r].h > accepted)
      <3>1. DOMAIN l = Fields
        BY NothingRead
      <3>2. At(r, "header") /\ Continue(r, "tx", l)
        BY <1>4, <2>2 DEF FetchHeader
      <3> HIDE DEF l
      <3>3. QED
        BY <3>1, <3>2, OtherContinueIInv
    <2>3. QED
      BY <2>1, <2>2
  <1>5. CASE FetchTransaction(r)
    <2> DEFINE l == [local[r] EXCEPT !.txs = <<req[r].tx>>]
    <2>1. CASE AcceptedTx(req[r].tx)
      <3>1. DOMAIN l = Fields
        BY LocalFields
      <3>2. At(r, "tx") /\ Continue(r, "trace", l)
        BY <1>5, <2>1 DEF FetchTransaction
      <3> HIDE DEF l
      <3>3. QED
        BY <3>1, <3>2, OtherContinueIInv
    <2>2. CASE ~AcceptedTx(req[r].tx)
      BY <1>5, <2>2, FailIInv, OtherReplyIInv DEF FetchTransaction
    <2>3. QED
      BY <2>1, <2>2
  <1>6. CASE FetchTrace(r)
    BY <1>6, NextTxIInv, LocalFields DEF FetchTrace
  <1>7. CASE FetchReceipt(r)
    <2> DEFINE tx == TxOf(Head(local[r].txs))
               l == [local[r] EXCEPT
                    !.ops = MinedOps(tx, local[r].block),
                    !.logs = Where(tx.logs, LAMBDA log :
                                       Selected(log, isAnalyticsMode, TokenWhiteList))]
    <2>1. At(r, "receipt") /\ Continue(r, "log", l)
      BY <1>7 DEF FetchReceipt
    <2>2. DOMAIN l = Fields
      BY LocalFields
    <2> HIDE DEF l
    <2>3. QED
      BY <2>1, <2>2, OtherContinueIInv
  <1>8. CASE EndOfLogs(r)
    <2> DEFINE l == [local[r] EXCEPT !.done = Append(@, [id |-> Head(local[r].txs), ops |-> local[r].ops]),
                               !.txs = Tail(@), !.ops = <<>>]
    <2>1. At(r, "log") /\ NextTx(r, l)
      BY <1>8 DEF EndOfLogs
    <2>2. DOMAIN l = Fields
      BY LocalFields
    <2> HIDE DEF l
    <2>3. QED
      BY <2>1, <2>2, NextTxIInv
  <1>9. CASE GetCached(r)
    BY <1>9, MapLogIInv DEF GetCached
  <1>10. CASE Miss(r)
    BY <1>10, LocalFields, OtherContinueIInv DEF Miss
  <1>11. CASE Symbol(r)
    <2>1. At(r, "symbol")
      BY <1>11 DEF Symbol
    <2>2. PICK symbol : Continue(r, "decimals", [local[r] EXCEPT !.symbol = symbol])
      BY <1>11 DEF Symbol
    <2> DEFINE l == [local[r] EXCEPT !.symbol = symbol]
    <2>3. DOMAIN l = Fields
      BY LocalFields
    <2>4. Continue(r, "decimals", l)
      BY <2>2
    <2> HIDE DEF l
    <2>5. QED
      BY <2>1, <2>3, <2>4, OtherContinueIInv
  <1>12. CASE Decimals(r)
    BY <1>12, MapLogIInv DEF Decimals
  <1>13. QED
    BY <1>1, <1>2, <1>3, <1>4, <1>5, <1>6, <1>7, <1>8, <1>9, <1>10, <1>11, <1>12 DEF Block

LEMMA getAccountCoinsIInv ==
  ASSUME IInv, NEW r \in Handlers, getAccountCoins(r)
  PROVE  IInv'
  <1> USE DEF OtherLabels
  <1>1. CASE PreHeader(r)
    <2> DEFINE l == [NoLocal EXCEPT !.block = accepted]
    <2>1. At(r, "pre") /\ Continue(r, "utxos", l)
      BY <1>1 DEF PreHeader
    <2>2. DOMAIN l = Fields
      BY NothingRead
    <2> HIDE DEF l
    <2>3. QED
      BY <2>1, <2>2, OtherContinueIInv
  <1>2. CASE FetchPage(r)
    <2> DEFINE page == Page(local[r].src, local[r].cursor)
               got == [local[r] EXCEPT !.coins = @ \o page]
               more == [got EXCEPT !.cursor = Last(page).id]
               other == [got EXCEPT !.src = "X", !.cursor = 0]
    <2>1. DOMAIN got = Fields
      BY LocalFields
    <2>2. DOMAIN more = Fields /\ DOMAIN other = Fields
      BY <2>1
    <2>3. /\ At(r, "utxos")
          /\ Continue(r, "utxos", more) \/ Continue(r, "utxos", other) \/ Continue(r, "post", got)
      BY <1>2 DEF FetchPage
    <2> HIDE DEF got, more, other
    <2>4. QED
      BY <2>1, <2>2, <2>3, OtherContinueIInv
  <1>3. CASE PostHeader(r)
    BY <1>3, OtherReplyIInv, FailIInv DEF PostHeader, NewBlockReceived
  <1>4. QED
    BY <1>1, <1>2, <1>3 DEF getAccountCoins

LEMMA OneReplyIInv ==
  ASSUME IInv, NEW r \in Handlers, Mempool(r) \/ callGetTransactionReceipt(r)
  PROVE  IInv'
  <1> USE DEF OtherLabels
  <1>1. CASE Mempool(r)
    BY <1>1, OtherReplyIInv DEF Mempool
  <1>2. CASE callGetTransactionReceipt(r)
    BY <1>2, OtherReplyIInv, FailIInv DEF callGetTransactionReceipt
  <1>3. QED
    BY <1>1, <1>2

-----------------------------------------------------------------------------
(* The handlers of /account/balance *)

LEMMA BalanceContinues ==
  ASSUME IInv, NEW r \in Handlers, NEW from \in BalanceLabels, NEW to \in {"nonce", "balance", "token"},
         NEW l, At(r, from), Continue(r, to, l), DOMAIN l = Fields,
         l.curs \in Seq(Currency), l.amounts \in Amounts(l.block, req[r].acct),
         Wanted(req[r]) = None => RecentBlock(r, l.block),
         to \in {"balance", "token"} => l.nonce = NonceOf(l.block, req[r].acct),
         to = "token" => l.flr = BalanceOf(l.block, req[r].acct)
  PROVE  IInv'
  <1>1. SharedInv /\ HandlerInv(r)
    BY DEF IInv
  <1>2. /\ SharedInv' /\ Act(r) /\ pc[r] = from
        /\ pc'[r] = to /\ local'[r] = l /\ resp'[r] = resp[r]
    BY <1>1, ContinueAct
  <1>3. req'[r] = req[r] /\ req[r].kind = "balance" /\ resp[r].status # "ok"
    BY <1>1, <1>2 DEF HandlerInv, KindInv, Act, BalanceLabels
  <1>4. KindInv(r)'
    BY <1>1, <1>2, <1>3, ActSince
    DEF KindInv, OtherLabels, BalanceLabels, StatusLabels, PStatusLabels
  <1>5. BalanceInv(r)'
    BY <1>2, <1>3 DEF BalanceInv, RecentBlock, Act
  <1>6. StatusInv(r)' /\ AnswerInv(r)'
    BY <1>2, <1>3 DEF StatusInv, AnswerInv, Answered
  <1>7. HandlerInv(r)'
    BY <1>1, <1>2, <1>4, <1>5, <1>6, ActSince DEF HandlerInv
  <1>8. QED
    BY <1>2, <1>7, ActMoves

LEMMA NoAmounts ==
  ASSUME NEW n, NEW acct
  PROVE  <<>> \in Amounts(n, acct)
  <1> DEFINE S == {[cur |-> c, value |-> ValueAt(n, acct, c)] : c \in Currency}
  <1>1. <<>> \in Seq(S)
    OBVIOUS
  <1>2. QED
    BY <1>1 DEF Amounts

LEMMA AccountBalanceIInv ==
  ASSUME IInv, NEW r \in Handlers, AccountBalance(r)
  PROVE  IInv'
  <1>1. SharedInv /\ HandlerInv(r) /\ DOMAIN local[r] = Fields
    BY DEF IInv, HandlerInv
  <1>2. CASE FetchBalanceHeader(r)
    <2> DEFINE n == headerFromInput(req[r])
               l == [NoLocal EXCEPT !.block = n, !.curs = req[r].curs]
    <2>1. CASE n > accepted
      BY <1>2, <2>1, FailIInv DEF FetchBalanceHeader
    <2>2. CASE ~(n > accepted)
      <3>1. At(r, "latest") /\ Continue(r, "nonce", l)
        BY <1>2, <2>2 DEF FetchBalanceHeader
      <3>2. DOMAIN l = Fields /\ l.block = n /\ l.curs = req[r].curs /\ l.amounts = <<>>
        BY DEF NoLocal, Fields
      <3>3. req[r] \in Request
        BY <1>1, <3>1 DEF At, HandlerInv, KindInv, BalanceLabels, NoReq
      <3>4. l.curs \in Seq(Currency)
        <4>1. l.curs \in Seq(Asked)
          BY <3>2, <3>3 DEF Request, Asked
        <4>2. QED
          BY <4>1 DEF Currency
      <3>5. l.amounts \in Amounts(l.block, req[r].acct)
        BY <3>2, NoAmounts
      <3>6. Wanted(req[r]) = None => RecentBlock(r, l.block)
        BY <1>1, <3>2
        DEF Wanted, headerFromInput, RecentBlock, HandlerInv, SinceInv, SharedInv
      <3> HIDE DEF l, n
      <3>7. QED
        BY <3>1, <3>2, <3>4, <3>5, <3>6, BalanceContinues DEF BalanceLabels
    <2>3. QED
      BY <2>1, <2>2
  <1>3. CASE NonceAt(r)
    <2> DEFINE l == [local[r] EXCEPT !.nonce = NonceOf(AtHeader(r), req[r].acct)]
    <2>1. At(r, "nonce") /\ Continue(r, "balance", l)
      BY <1>3 DEF NonceAt
    <2>2. /\ DOMAIN l = Fields /\ l.block = local[r].block /\ l.curs = local[r].curs
          /\ l.amounts = local[r].amounts /\ l.nonce = NonceOf(l.block, req[r].acct)
      BY <1>1 DEF Fields, AtHeader
    <2>3. BalanceInv(r) /\ pc[r] = "nonce"
      BY <1>1, <2>1 DEF HandlerInv, At
    <2> HIDE DEF l
    <2>4. /\ l.curs \in Seq(Currency) /\ l.amounts \in Amounts(l.block, req[r].acct)
          /\ Wanted(req[r]) = None => RecentBlock(r, l.block)
      BY <2>2, <2>3 DEF BalanceInv
    <2>5. QED
      BY <2>1, <2>2, <2>4, BalanceContinues DEF BalanceLabels
  <1>4. CASE BalanceAt(r)
    <2> DEFINE flr == BalanceOf(AtHeader(r), req[r].acct)
               curs == IF local[r].curs = <<>> THEN <<FlareCurrency>> ELSE local[r].curs
               l == [local[r] EXCEPT !.curs = curs, !.flr = flr]
    <2>1. At(r, "balance") /\ Continue(r, "token", l)
      BY <1>4 DEF BalanceAt
    <2>2. /\ DOMAIN l = Fields /\ l.block = local[r].block /\ l.nonce = local[r].nonce
          /\ l.amounts = local[r].amounts /\ l.flr = flr /\ l.curs = curs
      BY <1>1 DEF Fields
    <2> HIDE DEF l
    <2>3. l.flr = BalanceOf(l.block, req[r].acct)
      BY <2>2 DEF AtHeader
    <2>4. BalanceInv(r) /\ pc[r] = "balance"
      BY <1>1, <2>1 DEF HandlerInv, At
    <2>5. l.curs \in Seq(Currency)
      <3>1. local[r].curs \in Seq(Currency)
        BY <2>4 DEF BalanceInv
      <3>2. <<FlareCurrency>> \in Seq(Currency)
        BY DEF Currency
      <3>3. QED
        BY <2>2, <3>1, <3>2
    <2>6. /\ l.amounts \in Amounts(l.block, req[r].acct)
          /\ Wanted(req[r]) = None => RecentBlock(r, l.block)
          /\ l.nonce = NonceOf(l.block, req[r].acct)
      BY <2>2, <2>4 DEF BalanceInv
    <2>7. QED
      BY <2>1, <2>2, <2>3, <2>5, <2>6, BalanceContinues DEF BalanceLabels
  <1>5. CASE CallContract(r)
    <2> DEFINE cur == Head(local[r].curs)
               more(value) == [local[r] EXCEPT !.curs = Tail(local[r].curs),
                            !.amounts = Append(local[r].amounts, [cur |-> cur, value |-> value])]
    <2>1. At(r, "token") /\ local[r].curs # <<>>
      BY <1>5 DEF CallContract
    <2>2. CASE Fail(r, "invalid params") /\ UNCHANGED local
      BY <2>1, <2>2, FailIInv
    <2>3. ASSUME NEW value, value = ValueAt(local[r].block, req[r].acct, cur),
                 Continue(r, "token", more(value))
          PROVE  IInv'
      <3> DEFINE l == more(value)
                 S == {[cur |-> c, value |-> ValueAt(local[r].block, req[r].acct, c)] : c \in Currency}
      <3>1. /\ DOMAIN l = Fields /\ l.block = local[r].block /\ l.nonce = local[r].nonce
            /\ l.flr = local[r].flr /\ l.curs = Tail(local[r].curs)
            /\ l.amounts = Append(local[r].amounts, [cur |-> cur, value |-> value])
        BY <1>1 DEF Fields
      <3>2. BalanceInv(r) /\ pc[r] = "token"
        BY <1>1, <2>1 DEF HandlerInv, At
      <3>3. Continue(r, "token", l)
        BY <2>3
      <3> HIDE DEF l, S
      <3>4. local[r].curs \in Seq(Currency) /\ local[r].amounts \in Seq(S)
        BY <3>2 DEF BalanceInv, Amounts, S
      <3>5. cur \in Currency /\ l.curs \in Seq(Currency)
        BY <2>1, <3>1, <3>4
      <3>6. [cur |-> cur, value |-> value] \in S
        BY <2>3, <3>5 DEF S
      <3>7. l.amounts \in Seq(S)
        BY <3>1, <3>4, <3>6
      <3>8. l.amounts \in Amounts(l.block, req[r].acct)
        BY <3>1, <3>7 DEF Amounts, S
      <3>9. /\ Wanted(req[r]) = None => RecentBlock(r, l.block)
            /\ l.nonce = NonceOf(l.block, req[r].acct)
            /\ l.flr = BalanceOf(l.block, req[r].acct)
        BY <3>1, <3>2 DEF BalanceInv
      <3>10. QED
        BY <2>1, <3>1, <3>3, <3>5, <3>8, <3>9, BalanceContinues DEF BalanceLabels
    <2>4. CASE cur = FlareCurrency
      <3>1. Continue(r, "token", more(local[r].flr))
        BY <1>5, <2>4 DEF CallContract
      <3>2. local[r].flr = ValueAt(local[r].block, req[r].acct, cur)
        BY <1>1, <2>1, <2>4 DEF HandlerInv, BalanceInv, At, ValueAt
      <3>3. QED
        BY <2>3, <3>1, <3>2
    <2>5. CASE cur # FlareCurrency /\ ~(Fail(r, "invalid params") /\ UNCHANGED local)
      <3> DEFINE value == TokensOf(AtHeader(r), cur.contract, req[r].acct)
      <3>1. Continue(r, "token", more(value))
        BY <1>5, <2>5 DEF CallContract
      <3>2. value = ValueAt(local[r].block, req[r].acct, cur)
        BY <2>5 DEF AtHeader, ValueAt
      <3> HIDE DEF value
      <3>3. QED
        BY <2>3, <3>1, <3>2
    <2>6. QED
      BY <2>2, <2>4, <2>5
  <1>6. CASE EndOfCurrencies(r)
    <2> DEFINE a == [Ok EXCEPT !.block = local[r].block, !.amounts = local[r].amounts,
                               !.nonce = local[r].nonce]
    <2>1. At(r, "token") /\ Reply(r, a) /\ UNCHANGED local
      BY <1>6 DEF EndOfCurrencies
    <2>2. a.block = local[r].block /\ a.amounts = local[r].amounts /\ a.nonce = local[r].nonce
      BY DEF Ok, NoResp
    <2> HIDE DEF a
    <2>3. /\ SharedInv' /\ Act(r) /\ pc[r] = "token"
          /\ pc'[r] = "done" /\ local'[r] = local[r] /\ resp'[r] = a
      BY <1>1, <2>1, ReplyAct
    <2>4. BalanceInv(r) /\ req[r].kind = "balance" /\ req'[r] = req[r]
      BY <1>1, <2>3 DEF HandlerInv, KindInv, BalanceLabels, Act
    <2>5. AnswerInv(r)'
      BY <2>2, <2>3, <2>4 DEF AnswerInv, BalanceInv, Answered, RecentBlock, Act
    <2>6. QED
      BY <1>1, <2>3, <2>5, Replies
  <1>7. QED
    BY <1>2, <1>3, <1>4, <1>5, <1>6 DEF AccountBalance

-----------------------------------------------------------------------------
(* The handlers of /network/status *)

LEMMA StatusContinues ==
  ASSUME IInv, NEW r \in Handlers, NEW from, NEW to, NEW l, At(r, from), Continue(r, to, l),
         \/ from \in StatusLabels /\ to \in StatusLabels
         \/ from \in PStatusLabels /\ to \in PStatusLabels,
         DOMAIN l = Fields,
         to = "xboot" => IF l.cReady THEN "C" \in boot ELSE "C" \notin since[r].boot,
         to \in {"current", "first"} => {"C", "X"} \subseteq boot,
         to = "first" => RecentBlock(r, l.block),
         to = "pcurrent" => "P" \in boot
  PROVE  IInv'
  <1>1. SharedInv /\ HandlerInv(r)
    BY DEF IInv
  <1>2. /\ SharedInv' /\ Act(r) /\ pc[r] = from
        /\ pc'[r] = to /\ local'[r] = l /\ resp'[r] = resp[r]
    BY <1>1, ContinueAct
  <1>3. req'[r] = req[r] /\ resp[r].status # "ok"
    BY <1>1, <1>2 DEF HandlerInv, KindInv, Act, StatusLabels, PStatusLabels
  <1>4. KindInv(r)'
    BY <1>1, <1>2, <1>3, ActSince
    DEF HandlerInv, KindInv, OtherLabels, BalanceLabels, StatusLabels, PStatusLabels
  <1>5. StatusInv(r)'
    BY <1>2 DEF StatusInv, RecentBlock, Act
  <1>6. BalanceInv(r)' /\ AnswerInv(r)'
    BY <1>2, <1>3 DEF BalanceInv, AnswerInv, Answered, StatusLabels, PStatusLabels
  <1>7. HandlerInv(r)'
    BY <1>1, <1>2, <1>4, <1>5, <1>6, ActSince DEF HandlerInv
  <1>8. QED
    BY <1>2, <1>7, ActMoves

LEMMA StatusReplies ==
  ASSUME IInv, NEW r \in Handlers, NEW from, NEW a, At(r, from), Reply(r, a), UNCHANGED local,
         \/ /\ from \in StatusLabels
            /\ IF a.stage = "SYNCED" THEN {"C", "X"} \subseteq boot /\ RecentBlock(r, a.block)
               ELSE ~({"C", "X"} \subseteq since[r].boot)
         \/ /\ from \in PStatusLabels
            /\ IF a.stage = "SYNCED" THEN "P" \in boot /\ a.block = exported["P"]
               ELSE "P" \notin since[r].boot
  PROVE  IInv'
  <1>1. SharedInv /\ HandlerInv(r)
    BY DEF IInv
  <1>2. /\ SharedInv' /\ Act(r) /\ pc[r] = from
        /\ pc'[r] = "done" /\ local'[r] = local[r] /\ resp'[r] = a
    BY <1>1, ReplyAct
  <1>3. /\ req'[r] = req[r]
        /\ from \in StatusLabels => req[r].kind = "status"
        /\ from \in PStatusLabels => req[r].kind = "pstatus"
    BY <1>1, <1>2 DEF HandlerInv, KindInv, Act
  <1>4. exported["P"] \in Nat /\ since[r].exported["P"] \in Nat
        /\ since[r].exported["P"] <= exported["P"]
    BY <1>1 DEF SharedInv, HandlerInv, SinceInv, Source
  <1>5. CASE from \in StatusLabels
    <2>1. AnswerInv(r)'
      BY <1>2, <1>3, <1>5
      DEF AnswerInv, Answered, RecentBlock, Act, StatusLabels, PStatusLabels
    <2>2. QED
      BY <1>1, <1>2, <2>1, Replies DEF HandlerInv
  <1>6. CASE from \in PStatusLabels
    <2>1. AnswerInv(r)'
      BY <1>2, <1>3, <1>4, <1>6
      DEF AnswerInv, Answered, Act, StatusLabels, PStatusLabels
    <2>2. QED
      BY <1>1, <1>2, <2>1, Replies DEF HandlerInv
  <1>7. QED
    BY <1>5, <1>6

LEMMA NetworkStatusIInv ==
  ASSUME IInv, NEW r \in Handlers, NetworkStatus(r)
  PROVE  IInv'
  <1> USE DEF StatusLabels, PStatusLabels
  <1>1. SharedInv /\ HandlerInv(r) /\ DOMAIN local[r] = Fields
    BY DEF IInv, HandlerInv
  <1>2. SinceInv(r) /\ StatusInv(r)
    BY <1>1 DEF HandlerInv
  <1>3. CASE Peers(r)
    BY <1>3, StatusContinues, NothingRead DEF Peers
  <1>4. CASE PPeers(r)
    BY <1>4, StatusContinues, NothingRead DEF PPeers
  <1>5. CASE IsCBootstrapped(r)
    <2> DEFINE l == [local[r] EXCEPT !.cReady = "C" \in boot]
    <2>1. At(r, "cboot") /\ Continue(r, "xboot", l)
      BY <1>5 DEF IsCBootstrapped
    <2>2. DOMAIN l = Fields /\ (l.cReady <=> "C" \in boot)
      BY <1>1 DEF Fields
    <2> HIDE DEF l
    <2>3. IF l.cReady THEN "C" \in boot ELSE "C" \notin since[r].boot
      BY <1>2, <2>2 DEF SinceInv
    <2>4. QED
      BY <2>1, <2>2, <2>3, StatusContinues
  <1>6. CASE IsXBootstrapped(r)
    <2>1. At(r, "xboot")
      BY <1>6 DEF IsXBootstrapped
    <2>2. IF local[r].cReady THEN "C" \in boot ELSE "C" \notin since[r].boot
      BY <1>2, <2>1 DEF StatusInv, At
    <2>3. CASE local[r].cReady /\ "X" \in boot
      <3>1. Continue(r, "current", local[r])
        BY <1>6, <2>3 DEF IsXBootstrapped
      <3>2. QED
        BY <1>1, <2>1, <2>2, <2>3, <3>1, StatusContinues
    <2>4. CASE ~(local[r].cReady /\ "X" \in boot)
      <3>1. Reply(r, NotReady) /\ UNCHANGED local
        BY <1>6, <2>4 DEF IsXBootstrapped
      <3>2. NotReady.stage = "BOOTSTRAP"
        BY DEF NotReady, Ok, NoResp
      <3>3. ~({"C", "X"} \subseteq since[r].boot)
        BY <1>2, <2>2, <2>4 DEF SinceInv
      <3>4. QED
        BY <2>1, <3>1, <3>2, <3>3, StatusReplies
    <2>5. QED
      BY <2>3, <2>4
  <1>7. CASE FetchCurrent(r)
    <2> DEFINE l == [local[r] EXCEPT !.block = accepted]
    <2>1. At(r, "current") /\ Continue(r, "first", l)
      BY <1>7 DEF FetchCurrent
    <2>2. DOMAIN l = Fields /\ l.block = accepted
      BY <1>1 DEF Fields
    <2> HIDE DEF l
    <2>3. {"C", "X"} \subseteq boot
      BY <1>2, <2>1 DEF StatusInv, At
    <2>4. RecentBlock(r, l.block)
      BY <1>1, <1>2, <2>2 DEF RecentBlock, SinceInv, SharedInv
    <2>5. QED
      BY <2>1, <2>2, <2>3, <2>4, StatusContinues
  <1>8. CASE FetchFirst(r)
    <2> DEFINE a == [Ok EXCEPT !.block = local[r].block, !.stage = "SYNCED"]
    <2>1. At(r, "first") /\ Reply(r, a) /\ UNCHANGED local
      BY <1>8 DEF FetchFirst
    <2>2. a.stage = "SYNCED" /\ a.block = local[r].block
      BY DEF Ok, NoResp
    <2> HIDE DEF a
    <2>3. {"C", "X"} \subseteq boot /\ RecentBlock(r, a.block)
      BY <1>2, <2>1, <2>2 DEF StatusInv, At
    <2>4. QED
      BY <2>1, <2>2, <2>3, StatusReplies
  <1>9. CASE IsPBootstrapped(r)
    <2>1. At(r, "pboot")
      BY <1>9 DEF IsPBootstrapped
    <2>2. CASE "P" \in boot
      BY <1>1, <1>9, <2>1, <2>2, StatusContinues DEF IsPBootstrapped
    <2>3. CASE "P" \notin boot
      <3>1. Reply(r, NotReady) /\ UNCHANGED local
        BY <1>9, <2>3 DEF IsPBootstrapped
      <3>2. NotReady.stage = "BOOTSTRAP"
        BY DEF NotReady, Ok, NoResp
      <3>3. "P" \notin since[r].boot
        BY <1>2, <2>3 DEF SinceInv
      <3>4. QED
        BY <2>1, <3>1, <3>2, <3>3, StatusReplies
    <2>4. QED
      BY <2>2, <2>3
  <1>10. CASE ParseCurrentBlock(r)
    <2> DEFINE a == [Ok EXCEPT !.block = exported["P"], !.stage = "SYNCED"]
    <2>1. At(r, "pcurrent") /\ Reply(r, a) /\ UNCHANGED local
      BY <1>10 DEF ParseCurrentBlock
    <2>2. a.stage = "SYNCED" /\ a.block = exported["P"]
      BY DEF Ok, NoResp
    <2> HIDE DEF a
    <2>3. "P" \in boot
      BY <1>2, <2>1 DEF StatusInv, At
    <2>4. QED
      BY <2>1, <2>2, <2>3, StatusReplies
  <1>11. QED
    BY <1>3, <1>4, <1>5, <1>6, <1>7, <1>8, <1>9, <1>10 DEF NetworkStatus

-----------------------------------------------------------------------------
(* Requests and responses, failing RPCs, and the node *)

(* A request is refused at once or goes to the first step of its kind. *)
LEMMA ReceiveEnds ==
  ASSUME SharedInv, NEW r \in Handlers, NEW q, Receive(r, q)
  PROVE  \/ /\ pc' = [pc EXCEPT ![r] = "done"] /\ pc'[r] = "done"
            /\ resp'[r].status \in {"offline", "invalid input"}
         \/ /\ ~Unnamed(q)
            /\ pc' = [pc EXCEPT ![r] = First[q.kind]] /\ pc'[r] = First[q.kind]
            /\ resp'[r] = resp[r]
  <1>1. DOMAIN pc = Handlers /\ DOMAIN resp = Handlers
    BY DEF SharedInv
  <1>2. ASSUME NEW err, Fail(r, err)
        PROVE  pc' = [pc EXCEPT ![r] = "done"] /\ pc'[r] = "done" /\ resp'[r].status = err
    <2>1. [NoResp EXCEPT !.status = err].status = err
      BY DEF NoResp
    <2>2. pc' = [pc EXCEPT ![r] = "done"] /\ resp' = [resp EXCEPT ![r] = [NoResp EXCEPT !.status = err]]
      BY <1>2 DEF Fail, Reply, Goto
    <2>3. QED
      BY <1>1, <2>1, <2>2
  <1>3. CASE session.offline
    <2>1. Fail(r, "offline")
      BY <1>3 DEF Receive
    <2>2. QED
      BY <1>2, <2>1
  <1>4. CASE ~session.offline /\ (Unnamed(q) \/ EmptyIdentifier(q))
    <2>1. Fail(r, "invalid input")
      BY <1>4 DEF Receive
    <2>2. QED
      BY <1>2, <2>1
  <1>5. CASE ~session.offline /\ ~(Unnamed(q) \/ EmptyIdentifier(q))
    <2>1. Goto(r, First[q.kind]) /\ UNCHANGED resp
      BY <1>5 DEF Receive
    <2>2. QED
      BY <1>1, <1>5, <2>1 DEF Goto
  <1>6. QED
    BY <1>3, <1>4, <1>5

LEMMA ReceiveIInv ==
  ASSUME IInv, NEW r \in Handlers, NEW q \in session.requests[r], Receive(r, q)
  PROVE  IInv'
  <1>1. SharedInv /\ HandlerInv(r)
    BY DEF IInv
  <1>2. q \in Request
    <2>1. session.requests \in [Handlers -> SUBSET Request]
      BY <1>1 DEF SharedInv, SessionType
    <2>2. QED
      BY <2>1
  <1>3. pc[r] = "idle" /\ resp[r].status # "ok"
    BY <1>1 DEF Receive, HandlerInv, KindInv
  <1>4. /\ SharedInv' /\ req'[r] = q /\ local'[r] = local[r]
        /\ since'[r] = [accepted |-> accepted, boot |-> boot, exported |-> exported]
        /\ \A s \in Handlers \ {r} : Still(s)
        /\ UNCHANGED <<accepted, boot, exported>>
    BY <1>1 DEF Receive, SharedInv, Fail, Reply, Goto, Still, nodeVars
  <1>5. \/ pc'[r] = "done" /\ resp'[r].status \in {"offline", "invalid input"}
        \/ pc'[r] = First[q.kind] /\ resp'[r] = resp[r]
    BY <1>1, ReceiveEnds
  <1>6. /\ q.kind = "block" => First[q.kind] = "block"
        /\ q.kind = "transaction" => First[q.kind] = "header"
        /\ q.kind = "balance" => First[q.kind] = "latest"
        /\ q.kind = "coins" => First[q.kind] = "pre"
        /\ q.kind = "atomic" => First[q.kind] = "pre"
        /\ q.kind = "status" => First[q.kind] = "peers"
        /\ q.kind = "pstatus" => First[q.kind] = "ppeers"
        /\ q.kind = "mempool" => First[q.kind] = "pool"
        /\ q.kind = "call" => First[q.kind] = "call"
    BY DEF First
  <1>7. q.kind \in OtherKinds \cup {"balance", "status", "pstatus"}
    BY <1>2 DEF Request, OtherKinds
  <1>8. KindInv(r)'
    BY <1>2, <1>3, <1>4, <1>5, <1>6, <1>7
    DEF KindInv, OtherKinds, OtherLabels, BalanceLabels, StatusLabels, PStatusLabels
  <1>9. pc'[r] \in {"done", "latest", "peers", "ppeers"} \cup OtherLabels
    BY <1>5, <1>6, <1>7 DEF OtherKinds, OtherLabels
  <1>10. BalanceInv(r)' /\ StatusInv(r)'
    BY <1>9 DEF BalanceInv, StatusInv, OtherLabels
  <1>11. SinceInv(r)'
    BY <1>1, <1>4 DEF SinceInv, SharedInv, Source
  <1>12. AnswerInv(r)'
    BY <1>3, <1>5 DEF AnswerInv, Answered
  <1>13. HandlerInv(r)'
    BY <1>1, <1>4, <1>8, <1>10, <1>11, <1>12 DEF HandlerInv
  <1>14. NodeGoesOn
    BY <1>1, <1>4 DEF NodeGoesOn, SharedInv, Source
  <1>15. QED
    BY <1>4, <1>13, <1>14, OneMoves

LEMMA FinishIInv ==
  ASSUME IInv, NEW r \in Handlers, Finish(r)
  PROVE  IInv'
  <1>1. SharedInv
    BY DEF IInv
  <1>2. /\ SharedInv'
        /\ pc'[r] = "idle" /\ req'[r] = NoReq /\ since'[r] = NoSince /\ local'[r] = NoLocal
        /\ resp'[r] = NoResp
        /\ \A s \in Handlers \ {r} : Still(s)
        /\ UNCHANGED <<accepted, boot, exported>>
    BY <1>1 DEF Finish, SharedInv, Goto, Still, nodeVars
  <1>3. KindInv(r)'
    BY <1>2, NothingRead
    DEF KindInv, BalanceLabels, StatusLabels, PStatusLabels, OtherLabels
  <1>4. SinceInv(r)'
    BY <1>1, <1>2 DEF SinceInv, SharedInv, NoSince, Source
  <1>5. BalanceInv(r)' /\ StatusInv(r)'
    BY <1>2 DEF BalanceInv, StatusInv
  <1>6. AnswerInv(r)'
    BY <1>2, NothingRead DEF AnswerInv, Answered
  <1>7. HandlerInv(r)'
    BY <1>2, <1>3, <1>4, <1>5, <1>6, NothingRead DEF HandlerInv
  <1>8. NodeGoesOn
    BY <1>1, <1>2 DEF NodeGoesOn, SharedInv, Source
  <1>9. QED
    BY <1>2, <1>7, <1>8, OneMoves

LEMMA RPCErrorIInv ==
  ASSUME IInv, NEW r \in Handlers, RPCError(r)
  PROVE  IInv'
  <1>1. At(r, pc[r]) /\ Fail(r, "rpc") /\ UNCHANGED local
    BY DEF RPCError, At, nodeVars
  <1>2. QED
    BY <1>1, FailIInv

(* The node goes on, and no handler moves. *)
LEMMA NodeIInv ==
  ASSUME IInv, SharedInv', NodeGoesOn, UNCHANGED <<pc, req, since, local, resp>>
  PROVE  IInv'
  <1>1. ASSUME NEW q \in Handlers PROVE HandlerInv(q)'
    BY OthersStill DEF IInv, Still
  <1>2. QED
    BY <1>1 DEF IInv

LEMMA NextIInv == IInv /\ [Next]_vars => IInv'
  <1> SUFFICES ASSUME IInv, [Next]_vars PROVE IInv'
    OBVIOUS
  <1>1. SharedInv /\ exported["P"] \in Nat
    BY DEF IInv, SharedInv, Source
  <1>2. ASSUME NEW r \in Handlers, NEW q \in session.requests[r], Receive(r, q) PROVE IInv'
    BY <1>2, ReceiveIInv
  <1>3. ASSUME NEW r \in Handlers, Serve(r) PROVE IInv'
    BY <1>3, BlockIInv, AccountBalanceIInv, getAccountCoinsIInv, NetworkStatusIInv, OneReplyIInv,
       FinishIInv
    DEF Serve
  <1>4. ASSUME NEW r \in Handlers, RPCError(r) PROVE IInv'
    BY <1>4, RPCErrorIInv
  <1>5. CASE AcceptBlock
    <2>1. SharedInv' /\ NodeGoesOn
      BY <1>1, <1>5 DEF AcceptBlock, SharedInv, NodeGoesOn
    <2>2. QED
      BY <1>5, <2>1, NodeIInv DEF AcceptBlock
  <1>6. ASSUME NEW chain \in {"C", "X", "P"}, FinishBootstrap(chain) PROVE IInv'
    <2>1. SharedInv' /\ NodeGoesOn
      BY <1>1, <1>6 DEF FinishBootstrap, SharedInv, NodeGoesOn
    <2>2. QED
      BY <1>6, <2>1, NodeIInv DEF FinishBootstrap
  <1>7. ASSUME NEW src \in Source, Export(src) PROVE IInv'
    <2>1. exported' = [exported EXCEPT ![src] = @ + 1] /\ exported \in [Source -> Nat]
      BY <1>1, <1>7 DEF Export, SharedInv
    <2>2. exported' \in [Source -> Nat] /\ exported["P"] <= exported'["P"]
      BY <1>1, <2>1
    <2>3. SharedInv' /\ NodeGoesOn
      BY <1>1, <1>7, <2>2 DEF Export, SharedInv, NodeGoesOn
    <2>4. QED
      BY <1>7, <2>3, NodeIInv DEF Export
  <1>8. CASE UNCHANGED vars
    <2>1. SharedInv' /\ NodeGoesOn
      BY <1>1, <1>8 DEF vars, SharedInv, NodeGoesOn
    <2>2. QED
      BY <1>8, <2>1, NodeIInv DEF vars
  <1>9. QED
    BY <1>2, <1>3, <1>4, <1>5, <1>6, <1>7, <1>8 DEF Next

(* What the invariant says of answers is what AnswersFitTheirBlock does. *)
LEMMA IInvAnswers == IInv => AnswersFitTheirBlock
  <1> SUFFICES ASSUME IInv, NEW r \in Handlers
      PROVE  /\ Answered(r, {"balance"}) =>
                /\ Wanted(req[r]) = None => Fresh(r)
                /\ resp[r].nonce = NonceOf(resp[r].block, req[r].acct)
                /\ \A i \in DOMAIN resp[r].amounts :
                    LET amount == resp[r].amounts[i]
                    IN  amount.value = IF amount.cur = FlareCurrency
                                       THEN BalanceOf(resp[r].block, req[r].acct)
                                       ELSE TokensOf(resp[r].block, amount.cur.contract, req[r].acct)
             /\ Answered(r, {"status"}) =>
                IF resp[r].stage = "SYNCED" THEN {"C", "X"} \subseteq boot /\ Fresh(r)
                ELSE ~({"C", "X"} \subseteq since[r].boot)
             /\ Answered(r, {"pstatus"}) =>
                IF resp[r].stage = "SYNCED"
                THEN "P" \in boot /\ resp[r].block \in since[r].exported["P"] .. exported["P"]
                ELSE "P" \notin since[r].boot
    BY DEF AnswersFitTheirBlock
  <1>1. SharedInv /\ SinceInv(r) /\ AnswerInv(r)
    BY DEF IInv, HandlerInv
  <1>2. accepted \in Nat /\ exported["P"] \in Nat
    BY <1>1 DEF SharedInv, Source
  <1>3. \A n : RecentBlock(r, n) => n \in since[r].accepted .. accepted
    BY <1>1, <1>2 DEF RecentBlock, SinceInv
  <1>4. ASSUME Answered(r, {"balance"}), NEW i \in DOMAIN resp[r].amounts
        PROVE  resp[r].amounts[i].value =
                 IF resp[r].amounts[i].cur = FlareCurrency
                 THEN BalanceOf(resp[r].block, req[r].acct)
                 ELSE TokensOf(resp[r].block, resp[r].amounts[i].cur.contract, req[r].acct)
    <2> DEFINE S == {[cur |-> c, value |-> ValueAt(resp[r].block, req[r].acct, c)] : c \in Currency}
    <2>1. resp[r].amounts \in Seq(S)
      BY <1>1, <1>4 DEF AnswerInv, Amounts
    <2> HIDE DEF S
    <2>2. resp[r].amounts[i] \in S
      BY <1>4, <2>1
    <2>3. PICK c \in Currency :
            resp[r].amounts[i] = [cur |-> c, value |-> ValueAt(resp[r].block, req[r].acct, c)]
      BY <2>2 DEF S
    <2>4. QED
      BY <2>3 DEF ValueAt
  <1>5. Answered(r, {"balance"}) => (Wanted(req[r]) = None => Fresh(r))
    BY <1>1, <1>3 DEF AnswerInv, Fresh
  <1>6. Answered(r, {"status"}) =>
          IF resp[r].stage = "SYNCED" THEN {"C", "X"} \subseteq boot /\ Fresh(r)
          ELSE ~({"C", "X"} \subseteq since[r].boot)
    BY <1>1, <1>3 DEF AnswerInv, Fresh
  <1>7. Answered(r, {"pstatus"}) =>
          IF resp[r].stage = "SYNCED"
          THEN "P" \in boot /\ resp[r].block \in since[r].exported["P"] .. exported["P"]
          ELSE "P" \notin since[r].boot
    BY <1>1, <1>2 DEF AnswerInv, SinceInv
  <1>8. Answered(r, {"balance"}) => resp[r].nonce = NonceOf(resp[r].block, req[r].acct)
    BY <1>1 DEF AnswerInv
  <1>9. QED
    BY <1>4, <1>5, <1>6, <1>7, <1>8

-----------------------------------------------------------------------------
(* The invariant holds in every state. *)
THEOREM InvariantHolds == Spec => []IInv
  BY InitIInv, NextIInv, PTL DEF Spec

(* The amounts and the nonce of a balance are those of the block it names, *)
(* which is not older than the request if no block was asked for, and a    *)
(* status is what the chains were while the request was open, however many *)
(* blocks are accepted and chains bootstrapped between two RPCs.           *)
THEOREM AnswersCorrect == Spec => []AnswersFitTheirBlock
  BY InvariantHolds, IInvAnswers, PTL

-----------------------------------------------------------------------------
(* The type invariant *)

TxLabels == {"receipt", "log", "symbol", "decimals"}
TxIds == {tx.id : tx \in Txs}
Symbols == {Info[token].symbol : token \in Token}
               \cup {"", UnknownERC20Symbol, UnknownERC721Symbol}

(* What a handler knows at a label: transactions of the chain that are     *)
(* still to be mapped, and the logs of the first one                       *)
Knows(l, label) ==
    /\ l.block \in Height \cup {None}
    /\ l.txs \in Seq(TxIds) /\ l.logs \in Seq(EventLog) /\ l.symbol \in Symbols
    /\ label \in TxLabels => l.txs # <<>>
    /\ label \in {"symbol", "decimals"} => l.logs # <<>>

HandlerType(r) ==
    /\ req[r] \in session.requests[r] \cup {NoReq}
    /\ pc[r] \in {"block", "header"} => Wanted(req[r]) # None
    /\ pc[r] = "header" => req[r].kind = "transaction"
    /\ pc[r] = "done" <=> resp[r].status # "none"
    /\ Knows(local[r], pc[r])

NodeInv ==
    /\ session \in Session
    /\ accepted \in 0 .. session.end.height
    /\ boot \subseteq {"C", "X", "P"}
    /\ \A src \in Source : exported[src] \in 0 .. session.end.exports[src]

CacheInv ==
    /\ faults \in 0 .. MaxFaults
    /\ misread \subseteq Token
    /\ cache \in Seq([token : Token, symbol : Symbols, decimals : Nat])
    /\ Len(cache) <= CacheSize
    /\ \A i, j \in DOMAIN cache : cache[i].token = cache[j].token => i = j

TypeInv == NodeInv /\ CacheInv /\ pc \in [Handlers -> Label] /\ \A r \in Handlers : HandlerType(r)

-----------------------------------------------------------------------------
(* The coins *)

CoinLabels == {"pre", "utxos", "post"}
CoinKinds == {"coins", "atomic"}
Coin == [id : Nat, amount : Nat]
IdsOf(coins) == {coins[i].id : i \in 1 .. Len(coins)}
SourceIds(src) == {Exports[src][i].id : i \in DOMAIN Exports[src]}
ExportedBy(src, counts) == {Exports[src][i].id : i \in 1 .. counts[src]}

(* A Coin is repeated at most once, by the one after it. *)
RepeatedNext(coins) ==
    \A i, j \in 1 .. Len(coins) : i < j /\ coins[i].id = coins[j].id => j = i + 1

(* What has been read while the block is still the latest one: nothing     *)
(* that it had imported, all there was of a chain that is done, and of the *)
(* other what comes before the cursor                                      *)
Complete(l, s, label) ==
    \A src \in Source : \A id \in ExportedBy(src, s.exported) \ Imported(l.block) :
        (\/ label = "post"
         \/ src = "P" /\ l.src = "X"
         \/ src = l.src /\ id < l.cursor) => id \in IdsOf(l.coins)

(* The coins of the chain that is being read come before the cursor, but   *)
(* for the last one, which may be at it.                                   *)
BeforeCursor(coins, src, cursor) ==
    \A i \in 1 .. Len(coins) : coins[i].id \in SourceIds(src) =>
        coins[i].id < cursor \/ (coins[i].id = cursor /\ i = Len(coins))

Read(l) ==
    /\ l.coins \in Seq(Coin)
    /\ IdsOf(l.coins) \subseteq Exported(exported)
    /\ accepted = l.block => IdsOf(l.coins) \cap Imported(l.block) = {}
    /\ RepeatedNext(l.coins)

Paging(l) ==
    /\ l.src \in Source /\ l.cursor \in Nat
    /\ BeforeCursor(l.coins, l.src, l.cursor)
    /\ l.src = "P" => IdsOf(l.coins) \subseteq SourceIds("P")

Reading(r) ==
    LET l == local[r]
    IN  /\ l.block <= accepted /\ l.block \in Nat
        /\ Read(l)
        /\ accepted = l.block => Complete(l, since[r], pc[r])
        /\ pc[r] = "utxos" => Paging(l)

CoinsAnswered(r) ==
    Answered(r, CoinKinds) =>
        /\ resp[r].coins \in Seq(Coin)
        /\ IdsOf(resp[r].coins) \cap Imported(resp[r].block) = {}
        /\ Exported(since[r].exported) \ Imported(resp[r].block) \subseteq IdsOf(resp[r].coins)
        /\ IdsOf(resp[r].coins) \subseteq Exported(exported)
        /\ RepeatedNext(resp[r].coins)
        /\ req[r].kind = "coins" =>
            \A i, j \in 1 .. Len(resp[r].coins) :
                i < j => resp[r].coins[i].id # resp[r].coins[j].id

CoinsInv(r) ==
    /\ pc[r] \in CoinLabels <=> (req[r].kind \in CoinKinds /\ pc[r] # "done")
    /\ \A src \in Source : since[r].exported[src] \in 0 .. exported[src]
    /\ pc[r] \in {"utxos", "post"} => Reading(r)
    /\ CoinsAnswered(r)

AllCoinsInv == \A r \in Handlers : CoinsInv(r)

-----------------------------------------------------------------------------
(* OperationsMatchChain: what is cached, and how far an answer has come *)

Misnamed == misread \cup Ambiguous
KnownSymbol(token) ==
    IF Info[token].symbol = "" THEN UnknownSymbol(Logged(token, 3)) ELSE Info[token].symbol

CacheRight ==
    \A i \in DOMAIN cache : cache[i].token \notin Misnamed =>
        /\ cache[i].symbol = KnownSymbol(cache[i].token)
        /\ cache[i].decimals = Info[cache[i].token].decimals

(* The provers do not know of a string that it is in STRING. *)
MappedTypes == {"FEE", "ERC20_MINT", "ERC20_BURN", "ERC20_TRANSFER",
                "ERC721_MINT", "ERC721_BURN", "ERC721_SENDER", "ERC721_RECEIVE"}
OpCurrency == [symbol : Symbols \cup {"FLR"}, decimals : Nat, contract : Token \cup {zeroAddress}]
AnyOp == [index : Nat, type : STRING \cup MappedTypes, acct : Account \cup {zeroAddress}, val : Int,
          cur : OpCurrency, ok : BOOLEAN, related : Int]

LogsLeft(logs) ==
    \A j \in DOMAIN logs : /\ Selected(logs[j], isAnalyticsMode, TokenWhiteList)
                          /\ Logged(logs[j].token, logs[j].topics)

(* The operations of a transaction, and what is missing from them; those   *)
(* of spoilt contracts may be anything.                                    *)
Mapped(tx, b, ops, logs, spoilt) ==
    /\ ops \in Seq(AnyOp)
    /\ FlareRight(tx, ops, b)
    /\ \A token \in Token \ spoilt : \A acct \in Account :
        IF Shown(token)
        THEN Applied(ops, acct, Named(token)) + TokenMoves(logs, token, acct) = TokenEffect(tx, token, acct)
        ELSE Applied(ops, acct, Named(token)) = 0
    /\ \A i \in DOMAIN ops :
        /\ ops[i].index = i - 1
        /\ ops[i].cur.contract \in spoilt \cup {zeroAddress}
           \/ ops[i].cur = Named(ops[i].cur.contract)

Plain(q, n) == IF q.kind = "transaction" THEN <<TxOf(q.tx)>> ELSE Chain[n].txs

DoneTx == [id : TxIds, ops : Seq(AnyOp)]

(* Transactions are mapped from the first to the last. *)
Progress(q, l) ==
    /\ q.kind = "block" => l.block = Wanted(q) /\ l.block \in 1 .. Len(Chain)
    /\ q.kind = "transaction" => q.tx \in TxIds /\ l.block \in Height
    /\ l.done \in Seq(DoneTx)
    /\ Len(l.done) + Len(l.txs) = Len(Plain(q, l.block))
    /\ \A i \in 1 .. Len(l.done) : /\ l.done[i].id = Plain(q, l.block)[i].id
                                  /\ TransactionRight(Plain(q, l.block)[i], l.done[i].ops, l.block)
    /\ \A i \in 1 .. Len(l.txs) : l.txs[i] = Plain(q, l.block)[Len(l.done) + i].id

WorkLabels == {"trace", "receipt", "log", "symbol", "decimals"}

BlockKind(label, kind) ==
    /\ label \in {"block", "parent"} => kind = "block"
    /\ label \in {"header", "tx"} => kind = "transaction"
    /\ label \in WorkLabels => kind \in {"block", "transaction"}
    /\ label \in {"pre", "utxos", "post", "pool", "call"} => kind \notin {"block", "transaction"}

(* How far a handler has come, at a label with variables l *)
Reached(q, label, l) ==
    /\ label = "parent" =>
        /\ l.block = Wanted(q) /\ l.done = <<>>
        /\ l.block # 0 => l.block \in 1 .. Len(Chain) /\ l.txs = Ids(Chain[l.block].txs)
    /\ label = "tx" => l.done = <<>> /\ l.block \in Height
    /\ label \in WorkLabels => Progress(q, l)
    /\ label \in {"log", "symbol", "decimals"} =>
        Mapped(TxOf(Head(l.txs)), l.block, l.ops, l.logs, Misnamed) /\ LogsLeft(l.logs)
    /\ label = "decimals" /\ Head(l.logs).token \notin Misnamed =>
        l.symbol = KnownSymbol(Head(l.logs).token)

OpsInv(r) ==
    /\ BlockKind(pc[r], req[r].kind)
    /\ Reached(req[r], pc[r], local[r])
    /\ Answered(r, {"block", "transaction"}) => AnswerMatches(req[r], resp[r])

AllOpsInv == CacheRight /\ \A r \in Handlers : OpsInv(r)

-----------------------------------------------------------------------------
(* Kept elements, UTXOs in the order of their IDs, and pages *)

(* What Where keeps of a sequence *)
LEMMA KeptSequence ==
  ASSUME NEW D, NEW s \in Seq(D), NEW P \in SUBSET DOMAIN s
  PROVE  \E t \in Seq(D) :
            /\ t = [k \in DOMAIN Increasing(P) |-> s[Increasing(P)[k]]]
            /\ Len(t) <= Len(s)
            /\ \A k \in DOMAIN t : Increasing(P)[k] \in P /\ t[k] = s[Increasing(P)[k]]
            /\ \A k, l \in DOMAIN t : Increasing(P)[k] = Increasing(P)[l] => k = l
            /\ \A x \in P : \E k \in DOMAIN t : t[k] = s[x]
  <1> DEFINE p == Increasing(P)
             t == [k \in DOMAIN p |-> s[p[k]]]
  <1>1. Len(s) \in Nat /\ DOMAIN s = 1 .. Len(s)
    OBVIOUS
  <1>2. PICK m \in 0 .. Len(s) :
            /\ DOMAIN p = 1 .. m
            /\ \A k \in 1 .. m : p[k] \in P
            /\ \A k, l \in 1 .. m : p[k] = p[l] => k = l
            /\ \A x \in P : \E k \in 1 .. m : p[k] = x
            /\ P = 1 .. Len(s) => m = Len(s)
    <2>1. P \in SUBSET (1 .. Len(s))
      BY <1>1
    <2>2. QED
      BY <1>1, <2>1, KeptPositions, Zenon
  <1> HIDE DEF p
  <1>3. m \in Nat /\ \A k \in 1 .. m : s[p[k]] \in D
    <2>1. \A k \in 1 .. m : p[k] \in 1 .. Len(s)
      BY <1>1, <1>2
    <2>2. \A x \in 1 .. Len(s) : s[x] \in D
      OBVIOUS
    <2>3. QED
      BY <1>1, <2>1, <2>2
  <1>4. t \in [1 .. m -> D] /\ DOMAIN t = 1 .. m
    BY <1>2, <1>3
  <1>5. t \in Seq(D) /\ Len(t) = m
    BY <1>3, <1>4, SeqDef, LenProperties
  <1>6. \A x \in P : \E k \in DOMAIN t : t[k] = s[x]
    BY <1>2, <1>4
  <1>7. /\ \A k \in DOMAIN t : p[k] \in P /\ t[k] = s[p[k]]
        /\ \A k, l \in DOMAIN t : p[k] = p[l] => k = l
    BY <1>2, <1>4
  <1>8. \A x : x = m => x <= Len(s)
    BY <1>1
  <1>9. t = [k \in DOMAIN Increasing(P) |-> s[Increasing(P)[k]]]
    BY DEF p
  <1> HIDE DEF t
  <1>10. QED
    BY <1>5, <1>6, <1>7, <1>8, <1>9 DEF p

(* ById lists UTXOs in the order of their IDs, each ID once. *)
Sorted(S, s) ==
    /\ s \in Seq(S)
    /\ \A u \in S : u.id \in Nat
    /\ \A k, l \in 1 .. Len(s) : k < l => s[k].id < s[l].id
    /\ \A u \in S : \E k \in 1 .. Len(s) : s[k].id = u.id

LEMMA ByIdSorts ==
  ASSUME NEW S, IsFiniteSet(S), \A u \in S : u.id \in Nat
  PROVE  Sorted(S, ById(S))
  <1> DEFINE I == {utxo.id : utxo \in S}
             ids == Increasing(I)
             n == Cardinality(I)
             t == [k \in DOMAIN ids |-> CHOOSE utxo \in S : utxo.id = ids[k]]
  <1>1. IsFiniteSet(I) /\ I \in SUBSET Int
    <2> DEFINE f == [utxo \in S |-> utxo.id]
    <2>1. f \in [S -> I] /\ \A x \in I : \E utxo \in S : f[utxo] = x
      OBVIOUS
    <2>2. I \in SUBSET Int
      OBVIOUS
    <2> HIDE DEF f, I
    <2>3. f \in Surjection(S, I)
      BY <2>1 DEF Surjection
    <2>4. QED
      BY <2>2, <2>3, FS_Surjection DEF ExistsSurjection
  <1>2. /\ n \in Nat /\ ids \in [1 .. n -> I]
        /\ \A i, j \in 1 .. n : i < j => ids[i] < ids[j]
        /\ \A x \in I : \E i \in 1 .. n : ids[i] = x
    <2> HIDE DEF I
    <2>1. QED
      BY <1>1, IncreasingEnumerates DEF Enumerates
  <1>3. t = ById(S)
    BY DEF ById
  <1>4. DOMAIN t = 1 .. n /\ \A k \in 1 .. n : t[k] \in S /\ t[k].id = ids[k]
    <2>1. DOMAIN t = 1 .. n
      BY <1>2
    <2>2. ASSUME NEW k \in 1 .. n PROVE t[k] \in S /\ t[k].id = ids[k]
      <3>1. ids[k] \in I
        BY <1>2
      <3>2. \E utxo \in S : utxo.id = ids[k]
        BY <3>1
      <3>3. t[k] = CHOOSE utxo \in S : utxo.id = ids[k]
        BY <2>1
      <3>4. QED
        BY <3>2, <3>3
    <2>3. QED
      BY <2>1, <2>2
  <1> HIDE DEF t, ids
  <1>5. t \in [1 .. n -> S]
    BY <1>4, <1>3 DEF ById
  <1>6. t \in Seq(S) /\ Len(t) = n
    BY <1>2, <1>5, SeqDef, LenProperties
  <1>7. \A u \in S : \E k \in 1 .. n : t[k].id = u.id
    BY <1>2, <1>4
  <1>8. \A k, l \in 1 .. n : k < l => t[k].id < t[l].id
    BY <1>2, <1>4
  <1>9. QED
    BY <1>3, <1>4, <1>6, <1>7, <1>8 DEF Sorted

LEMMA ExportsType ==
  ASSUME NEW src \in Source
  PROVE  /\ Exports[src] \in Seq(Coin) /\ Len(Exports[src]) \in Nat
         /\ DOMAIN Exports[src] = 1 .. Len(Exports[src])
         /\ \A i \in DOMAIN Exports[src] : Exports[src][i] \in Coin /\ Exports[src][i].id \in Nat
  <1>1. Exports[src] \in Seq(Coin)
    BY ConstantsAssumption DEF Coin
  <1>2. \A u \in Coin : u.id \in Nat
    BY DEF Coin
  <1>3. QED
    BY <1>1, <1>2

(* Shared memory has what was exported and not imported. *)
LEMMA UTXOsAre ==
  ASSUME NEW src \in Source, exported[src] \in 0 .. Len(Exports[src])
  PROVE  /\ IsFiniteSet(UTXOs(src)) /\ UTXOs(src) \subseteq Coin
         /\ \A u \in UTXOs(src) : /\ u.id \in Nat /\ u.id \in SourceIds(src)
                                  /\ u.id \in ExportedBy(src, exported) \ Imported(accepted)
         /\ \A id \in ExportedBy(src, exported) \ Imported(accepted) :
                \E u \in UTXOs(src) : u.id = id
  <1> DEFINE n == exported[src]
             f == [i \in 1 .. n |-> Exports[src][i]]
             R == {f[i] : i \in 1 .. n}
  <1>1. /\ Exports[src] \in Seq(Coin) /\ Len(Exports[src]) \in Nat
        /\ DOMAIN Exports[src] = 1 .. Len(Exports[src])
        /\ \A i \in DOMAIN Exports[src] : Exports[src][i] \in Coin /\ Exports[src][i].id \in Nat
    BY ExportsType
  <1>2. n \in Nat /\ \A i \in 1 .. n : i \in DOMAIN Exports[src]
    BY <1>1
  <1>3. SubSeq(Exports[src], 1, n) = f
    BY <1>1, <1>2
  <1>4. UTXOs(src) = {utxo \in R : utxo.id \notin Imported(accepted)}
    <2>1. Range(SubSeq(Exports[src], 1, n)) = R
      <3>1. DOMAIN f = 1 .. n
        OBVIOUS
      <3>2. Range(f) = {f[i] : i \in DOMAIN f}
        BY DEF Range
      <3> HIDE DEF f
      <3>3. QED
        BY <1>3, <3>1, <3>2
    <2>2. QED
      BY <2>1 DEF UTXOs
  <1>5. IsFiniteSet(R)
    <2>1. f \in [1 .. n -> R] /\ \A x \in R : \E i \in 1 .. n : f[i] = x
      OBVIOUS
    <2>2. IsFiniteSet(1 .. n)
      BY <1>2, FS_Interval
    <2> HIDE DEF f, R
    <2>3. f \in Surjection(1 .. n, R)
      BY <2>1 DEF Surjection
    <2>4. QED
      BY <2>2, <2>3, FS_Surjection DEF ExistsSurjection
  <1>6. \A u \in R : u \in Coin /\ \E i \in 1 .. n : u = Exports[src][i]
    BY <1>1, <1>2
  <1>7. \A i \in 1 .. n : Exports[src][i] \in R
    OBVIOUS
  <1> HIDE DEF R, f, n
  <1>8. IsFiniteSet(UTXOs(src))
    <2>1. UTXOs(src) \subseteq R
      BY <1>4
    <2>2. QED
      BY <1>5, <2>1, FS_Subset
  <1>9. ASSUME NEW u \in UTXOs(src)
        PROVE  /\ u \in Coin /\ u.id \in Nat /\ u.id \in SourceIds(src)
               /\ u.id \in ExportedBy(src, exported) \ Imported(accepted)
    <2>1. u \in R /\ u.id \notin Imported(accepted)
      BY <1>4
    <2>2. PICK i \in 1 .. n : u = Exports[src][i]
      BY <1>6, <2>1
    <2>3. u.id \in SourceIds(src) /\ u.id \in Nat
      BY <1>1, <1>2, <2>2 DEF SourceIds
    <2>4. u.id \in ExportedBy(src, exported)
      BY <2>2 DEF ExportedBy, n
    <2>5. QED
      BY <1>6, <2>1, <2>3, <2>4
  <1>10. ASSUME NEW id \in ExportedBy(src, exported) \ Imported(accepted)
         PROVE  \E u \in UTXOs(src) : u.id = id
    <2>1. PICK i \in 1 .. n : id = Exports[src][i].id
      BY DEF ExportedBy, n
    <2>2. Exports[src][i] \in UTXOs(src)
      BY <1>4, <1>7, <2>1
    <2>3. QED
      BY <2>1, <2>2
  <1>11. QED
    BY <1>8, <1>9, <1>10

(* At most P elements from the beginning of a sequence *)
Beginning(S, s, P, page) ==
    /\ page \in Seq(S) /\ Len(page) <= P /\ Len(page) <= Len(s)
    /\ Len(page) # P => Len(page) = Len(s)
    /\ \A k \in 1 .. Len(page) : k \in 1 .. Len(s) /\ page[k] = s[k]

LEMMA FirstOnes ==
  ASSUME NEW S, NEW s \in Seq(S), NEW P \in Nat \ {0}, NEW page,
         page = SubSeq(s, 1, IF Len(s) < P THEN Len(s) ELSE P)
  PROVE  Beginning(S, s, P, page)
  <1>1. PICK m \in Nat : m = IF Len(s) < P THEN Len(s) ELSE P
    OBVIOUS
  <1>2. m <= Len(s) /\ m <= P /\ (m # P => m = Len(s)) /\ Len(s) \in Nat
    BY <1>1
  <1>3. page = SubSeq(s, 1, m)
    BY <1>1
  <1>4. page \in Seq(S) /\ Len(page) = m
    BY <1>2, <1>3
  <1>5. \A k \in 1 .. m : k \in 1 .. Len(s)
    BY <1>2
  <1>6. \A k \in 1 .. m : page[k] = s[k]
    BY <1>2, <1>3
  <1>7. QED
    BY <1>2, <1>4, <1>5, <1>6 DEF Beginning

(* The first P elements of what is sorted by ID: all of them, or all that  *)
(* come before the last one of the first P.                                *)
FirstOf(S, P, page) ==
    /\ page \in Seq(S) /\ Len(page) \in Nat /\ Len(page) <= P
    /\ \A k \in 1 .. Len(page) : page[k] \in S
    /\ \A k, l \in 1 .. Len(page) : k < l => page[k].id < page[l].id
    /\ \A u \in S : (Len(page) = P => u.id < page[Len(page)].id) =>
                         \E k \in 1 .. Len(page) : page[k].id = u.id

LEMMA FirstSorted ==
  ASSUME NEW S, NEW s, Sorted(S, s), NEW P \in Nat \ {0}, NEW page,
         page = SubSeq(s, 1, IF Len(s) < P THEN Len(s) ELSE P)
  PROVE  FirstOf(S, P, page)
  <1> USE DEF Sorted
  <1>1. /\ page \in Seq(S) /\ Len(page) <= P /\ Len(page) <= Len(s)
        /\ Len(page) # P => Len(page) = Len(s)
        /\ \A k \in 1 .. Len(page) : k \in 1 .. Len(s) /\ page[k] = s[k]
    <2>1. s \in Seq(S)
      OBVIOUS
    <2>2. Beginning(S, s, P, page)
      BY <2>1, FirstOnes
    <2>3. QED
      BY <2>2 DEF Beginning
  <1>2. /\ Len(page) \in Nat /\ Len(s) \in Nat
        /\ \A k \in 1 .. Len(s) : s[k] \in S /\ s[k].id \in Nat
    BY <1>1
  <1>3. ASSUME NEW u \in S, Len(page) = P => u.id < page[Len(page)].id
        PROVE  \E k \in 1 .. Len(page) : page[k].id = u.id
    <2>1. PICK k \in 1 .. Len(s) : s[k].id = u.id
      OBVIOUS
    <2>2. CASE Len(page) # P
      BY <1>1, <1>2, <2>1, <2>2
    <2>3. CASE Len(page) = P
      <3>1. PICK m \in Nat : m = Len(page)
        BY <1>2
      <3>2. m \in 1 .. Len(page) /\ m \in 1 .. Len(s) /\ page[m] = s[m]
        BY <1>1, <2>3, <3>1
      <3>3. s[k].id < s[m].id
        BY <1>3, <2>1, <2>3, <3>1, <3>2
      <3>4. s[k].id \in Nat /\ s[m].id \in Nat /\ k \in Nat
        BY <1>2, <2>1, <3>2
      <3>5. ~(s[m].id < s[k].id)
        <4>1. \A a, b \in Nat : a < b => ~(b < a)
          OBVIOUS
        <4>2. QED
          BY <3>3, <3>4, <4>1, Zenon
      <3>6. ~(m < k)
        BY <3>2, <3>5
      <3>7. k \in 1 .. Len(page)
        BY <1>1, <1>2, <3>1, <3>4, <3>6
      <3>8. QED
        BY <1>1, <2>1, <3>7
    <2>4. QED
      BY <2>2, <2>3
  <1>4. \A k, l \in 1 .. Len(page) : k < l => page[k].id < page[l].id
    BY <1>1
  <1>5. QED
    BY <1>1, <1>2, <1>3, <1>4 DEF FirstOf

(* A page has, in order, the first of the UTXOs from the cursor on; if it  *)
(* is not full, all of them, and otherwise all up to its last one.         *)
LEMMA PageIs ==
  ASSUME NEW src \in Source, exported[src] \in 0 .. Len(Exports[src]), NEW cursor \in Nat,
         NEW page, page = Page(src, cursor)
  PROVE  /\ page \in Seq(Coin) /\ Len(page) \in Nat /\ Len(page) <= getUTXOsPageSize
         /\ \A k \in 1 .. Len(page) : page[k] \in UTXOs(src) /\ cursor <= page[k].id
         /\ \A k, l \in 1 .. Len(page) : k < l => page[k].id < page[l].id
         /\ \A u \in UTXOs(src) :
                cursor <= u.id /\ (Len(page) = getUTXOsPageSize => u.id < page[Len(page)].id) =>
                    \E k \in 1 .. Len(page) : page[k].id = u.id
  <1>1. /\ IsFiniteSet(UTXOs(src)) /\ UTXOs(src) \subseteq Coin
        /\ \A u \in UTXOs(src) : u.id \in Nat
    BY UTXOsAre
  <1>2. PICK U : U = {utxo \in UTXOs(src) : utxo.id >= cursor}
    OBVIOUS
  <1>3. PICK sorted : sorted = ById(U)
    OBVIOUS
  <1>4. U \subseteq UTXOs(src)
    BY <1>2
  <1>5. IsFiniteSet(U)
    BY <1>1, <1>4, FS_Subset
  <1>6. \A u \in U : u \in UTXOs(src) /\ u \in Coin /\ u.id \in Nat /\ cursor <= u.id
    BY <1>1, <1>2
  <1>7. \A u \in UTXOs(src) : cursor <= u.id => u \in U
    BY <1>1, <1>2
  <1>8. page = SubSeq(sorted, 1, IF Len(sorted) < getUTXOsPageSize THEN Len(sorted)
                                 ELSE getUTXOsPageSize)
    BY <1>2, <1>3 DEF Page
  <1>9. Sorted(U, sorted)
    BY <1>3, <1>5, <1>6, ByIdSorts
  <1>10. getUTXOsPageSize \in Nat \ {0}
    BY ConstantsAssumption
  <1>11. FirstOf(U, getUTXOsPageSize, page)
    BY <1>8, <1>9, <1>10, FirstSorted
  <1>12. page \in Seq(Coin)
    BY <1>6, <1>11 DEF FirstOf
  <1>13. QED
    BY <1>6, <1>7, <1>11, <1>12 DEF FirstOf

-----------------------------------------------------------------------------
(* The type invariant holds. *)

(* The chain, and the node in any session *)
LEMMA ChainType ==
  /\ Len(Chain) \in Nat /\ DOMAIN Chain = 1 .. Len(Chain)
  /\ \A n \in 1 .. Len(Chain) :
        /\ Ids(Chain[n].txs) \in Seq(TxIds)
        /\ \A i \in DOMAIN Chain[n].txs : Chain[n].txs[i].id \in TxIds
  /\ \A id \in TxIds : TxOf(id).logs \in Seq(EventLog)
  <1>1. PICK B : B = {block \in Range(Chain) : WellFormed(block)}
    OBVIOUS
  <1>2. Chain \in Seq(B) /\ \A b \in B : WellFormed(b)
    BY <1>1, ConstantsAssumption
  <1>3. /\ Len(Chain) \in Nat /\ DOMAIN Chain = 1 .. Len(Chain)
        /\ \A n \in 1 .. Len(Chain) : WellFormed(Chain[n])
    BY <1>2
  <1>4. ASSUME NEW n \in 1 .. Len(Chain)
        PROVE  /\ DOMAIN Chain[n].txs = 1 .. Len(Chain[n].txs) /\ Len(Chain[n].txs) \in Nat
               /\ \A i \in DOMAIN Chain[n].txs :
                    Chain[n].txs[i] \in Txs /\ Chain[n].txs[i].logs \in Seq(EventLog)
    <2>1. PICK txs : txs = Chain[n].txs
      OBVIOUS
    <2>2. PICK T : T = {tx \in Range(txs) :
                            tx.id \in Nat /\ tx.logs \in Seq(EventLog) /\ HasPrice(tx)}
      OBVIOUS
    <2>3. txs \in Seq(T)
      BY <1>3, <2>1, <2>2 DEF WellFormed
    <2>4. DOMAIN txs = 1 .. Len(txs) /\ Len(txs) \in Nat /\ \A i \in DOMAIN txs : txs[i] \in T
      BY <2>3
    <2>5. \A i \in DOMAIN txs : txs[i] \in Range(txs) /\ txs[i].logs \in Seq(EventLog)
      BY <2>2, <2>4
    <2>6. \A i \in DOMAIN txs : txs[i] \in Txs
      BY <1>3, <2>1, <2>5 DEF Txs
    <2>7. QED
      BY <2>1, <2>4, <2>5, <2>6
  <1>5. ASSUME NEW n \in 1 .. Len(Chain)
        PROVE  /\ \A i \in DOMAIN Chain[n].txs : Chain[n].txs[i].id \in TxIds
               /\ Ids(Chain[n].txs) \in Seq(TxIds)
    <2>1. PICK txs : txs = Chain[n].txs
      OBVIOUS
    <2>2. \A i \in DOMAIN txs : txs[i].id \in TxIds
      BY <1>4, <2>1 DEF TxIds
    <2>3. DOMAIN txs = 1 .. Len(txs) /\ Len(txs) \in Nat
      BY <1>4, <2>1
    <2>4. Ids(txs) \in [1 .. Len(txs) -> TxIds]
      BY <2>2, <2>3 DEF Ids
    <2>5. Ids(txs) \in Seq(TxIds)
      BY <2>3, <2>4, SeqDef
    <2>6. QED
      BY <2>1, <2>2, <2>5
  <1>6. ASSUME NEW id \in TxIds PROVE TxOf(id).logs \in Seq(EventLog)
    <2>1. PICK t \in Txs : t.id = id
      BY DEF TxIds
    <2>2. TxOf(id) \in Txs
      BY <2>1 DEF TxOf
    <2>3. PICK n \in DOMAIN Chain : TxOf(id) \in Range(Chain[n].txs)
      BY <2>2 DEF Txs
    <2>4. PICK i \in DOMAIN Chain[n].txs : TxOf(id) = Chain[n].txs[i]
      BY <2>3 DEF Range
    <2>5. QED
      BY <1>3, <1>4, <2>3, <2>4
  <1>7. QED
    BY <1>3, <1>5, <1>6

LEMMA NodeTyped ==
  ASSUME NodeInv
  PROVE  /\ session.end.height \in Nat /\ session.end.height <= Len(Chain)
         /\ accepted \in Nat /\ accepted <= Len(Chain) /\ accepted \in Height
         /\ session.requests \in [Handlers -> SUBSET Request]
         /\ \A src \in Source : /\ session.end.exports[src] \in Nat
                                /\ session.end.exports[src] <= Len(Exports[src])
                                /\ exported[src] \in 0 .. Len(Exports[src])
  <1>1. session \in SessionType /\ GoesOn(session)
    BY ConstantsAssumption DEF NodeInv
  <1>2. session.end \in NodeType /\ session.requests \in [Handlers -> SUBSET Request]
    BY <1>1 DEF SessionType
  <1>3. session.end.height \in Height /\ session.end.exports \in [Source -> Nat]
    BY <1>2 DEF NodeType
  <1>4. session.end.height \in Nat /\ session.end.height <= Len(Chain)
    BY <1>3, ChainType DEF Height
  <1>5. accepted \in Nat /\ accepted <= Len(Chain) /\ accepted \in Height
    BY <1>4, ChainType DEF NodeInv, Height
  <1>6. ASSUME NEW src \in Source
        PROVE  /\ session.end.exports[src] \in Nat
               /\ session.end.exports[src] <= Len(Exports[src])
               /\ exported[src] \in 0 .. Len(Exports[src])
    <2>1. session.end.exports[src] \in Nat /\ session.end.exports[src] <= Len(Exports[src])
      BY <1>1, <1>3 DEF GoesOn
    <2>2. exported[src] \in 0 .. session.end.exports[src]
      BY DEF NodeInv
    <2>3. Len(Exports[src]) \in Nat
      BY ExportsType
    <2>4. QED
      BY <2>1, <2>2, <2>3
  <1>7. QED
    BY <1>2, <1>4, <1>5, <1>6

(* Putting an entry into the cache: it comes last, and its contract once. *)
CacheEntry == [token : Token, symbol : Symbols, decimals : Nat]

LEMMA PutKeeps ==
  ASSUME NEW e \in CacheEntry, Put(e),
         cache \in Seq(CacheEntry), Len(cache) <= CacheSize,
         \A i, j \in DOMAIN cache : cache[i].token = cache[j].token => i = j
  PROVE  /\ cache' \in Seq(CacheEntry) /\ Len(cache') <= CacheSize
         /\ \A i, j \in DOMAIN cache' : cache'[i].token = cache'[j].token => i = j
  <1> DEFINE P == {i \in DOMAIN cache : cache[i].token # e.token}
  <1>1. P \in SUBSET DOMAIN cache
    OBVIOUS
  <1>2. Others(e.token) = [k \in DOMAIN Increasing(P) |-> cache[Increasing(P)[k]]]
    BY DEF Others, Where, Positions
  <1>3. \A i \in P : i \in DOMAIN cache /\ cache[i].token # e.token
    OBVIOUS
  <1> HIDE DEF P
  <1>4. PICK t \in Seq(CacheEntry) :
            /\ t = [k \in DOMAIN Increasing(P) |-> cache[Increasing(P)[k]]]
            /\ Len(t) <= Len(cache)
            /\ \A k \in DOMAIN t : Increasing(P)[k] \in P /\ t[k] = cache[Increasing(P)[k]]
            /\ \A k, l \in DOMAIN t : Increasing(P)[k] = Increasing(P)[l] => k = l
    BY <1>1, KeptSequence
  <1>5. \A k \in DOMAIN t : t[k].token # e.token
    BY <1>3, <1>4
  <1>6. \A k, l \in DOMAIN t : t[k].token = t[l].token => k = l
    BY <1>3, <1>4
  <1>7. PICK u : u = IF Len(t) < CacheSize THEN t ELSE Tail(t)
    OBVIOUS
  <1>8. cache' = Append(u, e)
    BY <1>2, <1>4, <1>7 DEF Put
  <1>9. CacheSize \in Nat /\ CacheSize # 0 /\ Len(cache) \in Nat /\ Len(t) \in Nat
    BY ConstantsAssumption
  <1>10. /\ u \in Seq(CacheEntry) /\ Len(u) \in Nat /\ Len(u) < CacheSize
         /\ \A k \in DOMAIN u : u[k].token # e.token
         /\ \A k, l \in DOMAIN u : u[k].token = u[l].token => k = l
    <2>1. CASE Len(t) < CacheSize
      BY <1>5, <1>6, <1>7, <1>9, <2>1
    <2>2. CASE ~(Len(t) < CacheSize)
      <3>1. Len(t) = CacheSize /\ t # <<>> /\ u = Tail(t)
        BY <1>4, <1>7, <1>9, <2>2
      <3>2. /\ u \in Seq(CacheEntry) /\ Len(u) = Len(t) - 1
            /\ \A k \in 1 .. Len(u) : u[k] = t[k + 1]
        BY <3>1
      <3>3. Len(u) \in Nat /\ Len(u) < CacheSize /\ DOMAIN u = 1 .. Len(u)
        BY <1>9, <3>1, <3>2
      <3>4. \A k \in DOMAIN u : k + 1 \in DOMAIN t /\ u[k] = t[k + 1]
        BY <1>9, <3>1, <3>2, <3>3
      <3>5. \A k \in DOMAIN u : u[k].token # e.token
        BY <1>5, <3>4
      <3>6. ASSUME NEW k \in DOMAIN u, NEW l \in DOMAIN u, u[k].token = u[l].token PROVE k = l
        <4>1. k + 1 = l + 1
          BY <1>6, <3>4, <3>6
        <4>2. k \in Nat /\ l \in Nat
          BY <3>3
        <4>3. QED
          BY <4>1, <4>2
      <3>7. QED
        BY <3>2, <3>3, <3>5, <3>6
    <2>3. QED
      BY <2>1, <2>2
  <1>11. PICK c : c = cache'
    OBVIOUS
  <1>12. /\ c \in Seq(CacheEntry) /\ Len(c) = Len(u) + 1 /\ DOMAIN c = 1 .. Len(u) + 1
         /\ DOMAIN u = 1 .. Len(u)
         /\ \A k \in DOMAIN u : c[k] = u[k]
         /\ c[Len(u) + 1] = e
    BY <1>8, <1>10, <1>11, AppendProperties
  <1>13. Len(c) <= CacheSize
    BY <1>9, <1>10, <1>12
  <1>14. \A k \in DOMAIN c : k \in DOMAIN u \/ k = Len(u) + 1
    BY <1>10, <1>12
  <1>15. \A i, j \in DOMAIN c : c[i].token = c[j].token => i = j
    BY <1>10, <1>12, <1>14
  <1>16. QED
    BY <1>11, <1>12, <1>13, <1>15

LEMMA PutTyped ==
  ASSUME CacheInv, NEW e \in CacheEntry, Put(e), faults' \in 0 .. MaxFaults, misread' \subseteq Token
  PROVE  CacheInv'
  <1>1. /\ cache' \in Seq(CacheEntry) /\ Len(cache') <= CacheSize
        /\ \A i, j \in DOMAIN cache' : cache'[i].token = cache'[j].token => i = j
    BY PutKeeps DEF CacheInv, CacheEntry
  <1>2. QED
    BY <1>1 DEF CacheInv, CacheEntry

LEMMA QuietTyped ==
  ASSUME CacheInv, UNCHANGED cache,
         \/ UNCHANGED faults
         \/ faults < MaxFaults /\ faults' = faults + 1,
         misread' \subseteq Token
  PROVE  CacheInv'
  <1>1. MaxFaults \in Nat
    BY ConstantsAssumption
  <1>2. faults' \in 0 .. MaxFaults
    BY <1>1 DEF CacheInv
  <1>3. QED
    BY <1>2 DEF CacheInv

(* A step of one handler: the others, and all labels, are as they were. *)
LEMMA MoveTyped ==
  ASSUME TypeInv, IInv', NodeInv', CacheInv', UNCHANGED session,
         NEW r \in Handlers, NEW label, pc' = [pc EXCEPT ![r] = label],
         \A q \in Handlers \ {r} : Still(q), HandlerType(r)'
  PROVE  TypeInv'
  <1>1. pc' \in [Handlers -> Label]
    <2>1. pc' = [q \in Handlers |-> IF q = r THEN label ELSE pc[q]]
      BY DEF TypeInv
    <2>2. ASSUME NEW q \in Handlers PROVE pc'[q] \in Label
      BY DEF IInv, HandlerInv, KindInv, Label, RPC, BalanceLabels, StatusLabels, PStatusLabels,
             OtherLabels
    <2>3. QED
      BY <2>1, <2>2
  <1>2. ASSUME NEW q \in Handlers PROVE HandlerType(q)'
    <2>1. CASE q = r
      BY <2>1
    <2>2. CASE q # r
      BY <2>2 DEF TypeInv, HandlerType, Still
    <2>3. QED
      BY <2>1, <2>2
  <1>3. QED
    BY <1>1, <1>2 DEF TypeInv

LEMMA AtTyped ==
  ASSUME TypeInv, NEW r \in Handlers, NEW from, At(r, from)
  PROVE  /\ NodeInv' /\ UNCHANGED session /\ pc[r] = from /\ HandlerType(r)
         /\ req'[r] = req[r] /\ session.requests'[r] = session.requests[r]
  BY DEF TypeInv, At, NodeInv, nodeVars

(* It goes on. *)
LEMMA ContinueTyped ==
  ASSUME TypeInv, IInv, IInv', CacheInv', NEW r \in Handlers, NEW from, NEW to, NEW l,
         At(r, from), Continue(r, to, l), from # "done", to \notin {"block", "header", "done"},
         Knows(l, to)
  PROVE  TypeInv'
  <1>1. /\ NodeInv' /\ UNCHANGED session /\ pc[r] = from /\ HandlerType(r)
        /\ req'[r] = req[r]
    BY AtTyped
  <1>2. /\ Act(r) /\ pc'[r] = to /\ local'[r] = l /\ resp'[r] = resp[r]
    BY ContinueAct DEF IInv
  <1>3. HandlerType(r)'
    BY <1>1, <1>2 DEF HandlerType
  <1>4. pc' = [pc EXCEPT ![r] = to]
    BY DEF Continue, Goto
  <1>5. QED
    BY <1>1, <1>2, <1>3, <1>4, MoveTyped DEF Act

(* It replies. *)
LEMMA ReplyTyped ==
  ASSUME TypeInv, IInv, IInv', CacheInv', NEW r \in Handlers, NEW from, NEW a, NEW l,
         At(r, from), Reply(r, a), Set(r, l) \/ (UNCHANGED local /\ l = local[r]),
         a.status # "none", Knows(l, from)
  PROVE  TypeInv'
  <1>1. /\ NodeInv' /\ UNCHANGED session /\ pc[r] = from /\ HandlerType(r)
        /\ req'[r] = req[r]
    BY AtTyped
  <1>2. /\ \A q \in Handlers \ {r} : Still(q)
        /\ pc'[r] = "done" /\ local'[r] = l /\ resp'[r] = a
    BY DEF IInv, SharedInv, At, Reply, Goto, Set, Still
  <1>3. Knows(l, "done")
    BY DEF Knows, TxLabels
  <1>4. HandlerType(r)'
    <2>1. req'[r] \in session'.requests[r] \cup {NoReq}
      BY <1>1 DEF HandlerType
    <2>2. QED
      BY <1>2, <1>3, <2>1 DEF HandlerType
  <1>5. pc' = [pc EXCEPT ![r] = "done"]
    BY DEF Reply, Goto
  <1>6. QED
    BY <1>1, <1>2, <1>4, <1>5, MoveTyped

(* It fails. *)
LEMMA FailTyped ==
  ASSUME TypeInv, IInv, IInv', CacheInv', NEW r \in Handlers, NEW from, NEW err,
         At(r, from), Fail(r, err), err # "none", UNCHANGED local
  PROVE  TypeInv'
  <1>1. PICK a : a = [NoResp EXCEPT !.status = err]
    OBVIOUS
  <1>2. a.status = err /\ Reply(r, a)
    BY <1>1 DEF Fail, NoResp
  <1>3. Knows(local[r], from)
    BY AtTyped DEF HandlerType
  <1>4. QED
    BY <1>2, <1>3, ReplyTyped

LEMMA OkTyped ==
  ASSUME TypeInv, IInv, IInv', CacheInv', NEW r \in Handlers, NEW from, NEW a,
         At(r, from), Reply(r, a), a.status = "ok", UNCHANGED local
  PROVE  TypeInv'
  <1>1. Knows(local[r], from)
    BY AtTyped DEF HandlerType
  <1>2. QED
    BY <1>1, ReplyTyped

(* What a handler knows that has just started, and of one that goes on     *)
(* with other things                                                       *)
LEMMA NothingKnown ==
  ASSUME NEW label, label \notin TxLabels
  PROVE  Knows(NoLocal, label)
  <1>1. /\ NoLocal.block = None /\ NoLocal.txs = <<>> /\ NoLocal.logs = <<>>
        /\ NoLocal.symbol = ""
    BY DEF NoLocal
  <1>2. \A S : <<>> \in Seq(S)
    BY EmptySeq
  <1>3. "" \in Symbols
    BY DEF Symbols
  <1>4. QED
    BY <1>1, <1>2, <1>3 DEF Knows, TxLabels

LEMMA KnowsOther ==
  ASSUME NEW l, NEW k, NEW from, NEW to, Knows(l, from), to \notin TxLabels,
         k.block = l.block \/ k.block \in Height, k.txs = l.txs, k.logs = l.logs,
         k.symbol = l.symbol
  PROVE  Knows(k, to)
  BY DEF Knows, TxLabels

(* The steps that read no blocks: those of a balance, the coins and the    *)
(* statuses *)
LEMMA QuietIs == ASSUME CacheInv, Quiet PROVE CacheInv'
  BY DEF CacheInv, Quiet

LEMMA AccountBalanceTyped ==
  ASSUME TypeInv, IInv, IInv', NEW r \in Handlers, AccountBalance(r)
  PROVE  TypeInv'
  <1>1. CacheInv'
    BY QuietIs
    DEF TypeInv, AccountBalance, FetchBalanceHeader, NonceAt, BalanceAt, CallContract, EndOfCurrencies
  <1>2. NodeInv /\ HandlerType(r) /\ DOMAIN local[r] = Fields /\ req[r] \in Request \cup {NoReq}
    BY LocalFields DEF TypeInv, IInv, HandlerInv, KindInv
  <1>3. CASE FetchBalanceHeader(r)
    <2> DEFINE n == headerFromInput(req[r])
               l == [NoLocal EXCEPT !.block = n, !.curs = req[r].curs]
    <2>1. CASE n > accepted
      BY <1>1, <1>3, <2>1, FailTyped DEF FetchBalanceHeader
    <2>2. CASE ~(n > accepted)
      <3>1. At(r, "latest") /\ Continue(r, "nonce", l)
        BY <1>3, <2>2 DEF FetchBalanceHeader
      <3>2. /\ l.block = n /\ l.txs = NoLocal.txs /\ l.logs = NoLocal.logs
            /\ l.symbol = NoLocal.symbol
        BY DEF NoLocal
      <3>3. n \in Height
        <4>1. accepted \in Height
          BY <1>2, NodeTyped
        <4>2. /\ req[r].n # None => req[r].n \in Height
              /\ req[r].h # None => req[r].h \in Height
          BY <1>2 DEF Request, NoReq
        <4>3. QED
          BY <4>1, <4>2 DEF headerFromInput
      <3> HIDE DEF l, n
      <3>4. Knows(l, "nonce")
        BY <3>2, <3>3, NothingKnown, KnowsOther DEF TxLabels
      <3>5. QED
        BY <1>1, <3>1, <3>4, ContinueTyped
    <2>3. QED
      BY <2>1, <2>2
  <1>4. CASE NonceAt(r)
    <2> DEFINE l == [local[r] EXCEPT !.nonce = NonceOf(AtHeader(r), req[r].acct)]
    <2>1. At(r, "nonce") /\ Continue(r, "balance", l)
      BY <1>4 DEF NonceAt
    <2>2. /\ l.block = local[r].block /\ l.txs = local[r].txs /\ l.logs = local[r].logs
          /\ l.symbol = local[r].symbol
      BY <1>2 DEF Fields
    <2> HIDE DEF l
    <2>3. Knows(l, "balance")
      BY <1>2, <2>2, KnowsOther DEF HandlerType, TxLabels
    <2>4. QED
      BY <1>1, <2>1, <2>3, ContinueTyped
  <1>5. CASE BalanceAt(r)
    <2>1. PICK curs, flr : Continue(r, "token", [local[r] EXCEPT !.curs = curs, !.flr = flr])
      BY <1>5 DEF BalanceAt
    <2> DEFINE l == [local[r] EXCEPT !.curs = curs, !.flr = flr]
    <2>2. At(r, "balance") /\ Continue(r, "token", l)
      BY <1>5, <2>1 DEF BalanceAt
    <2>3. /\ l.block = local[r].block /\ l.txs = local[r].txs /\ l.logs = local[r].logs
          /\ l.symbol = local[r].symbol
      BY <1>2 DEF Fields
    <2> HIDE DEF l
    <2>4. Knows(l, "token")
      BY <1>2, <2>3, KnowsOther DEF HandlerType, TxLabels
    <2>5. QED
      BY <1>1, <2>2, <2>4, ContinueTyped
  <1>6. CASE CallContract(r)
    <2>1. At(r, "token")
      BY <1>6 DEF CallContract
    <2>2. \/ Fail(r, "invalid params") /\ UNCHANGED local
          \/ \E curs, amounts : Continue(r, "token", [local[r] EXCEPT !.curs = curs,
                                                                      !.amounts = amounts])
      BY <1>6 DEF CallContract
    <2>3. CASE Fail(r, "invalid params") /\ UNCHANGED local
      BY <1>1, <2>1, <2>3, FailTyped
    <2>4. ASSUME NEW curs, NEW amounts,
                 Continue(r, "token", [local[r] EXCEPT !.curs = curs, !.amounts = amounts])
          PROVE  TypeInv'
      <3> DEFINE l == [local[r] EXCEPT !.curs = curs, !.amounts = amounts]
      <3>1. Continue(r, "token", l)
        BY <2>4
      <3>2. /\ l.block = local[r].block /\ l.txs = local[r].txs /\ l.logs = local[r].logs
            /\ l.symbol = local[r].symbol
        BY <1>2 DEF Fields
      <3> HIDE DEF l
      <3>3. Knows(l, "token")
        BY <1>2, <3>2, KnowsOther DEF HandlerType, TxLabels
      <3>4. QED
        BY <1>1, <2>1, <3>1, <3>3, ContinueTyped
    <2>5. QED
      BY <2>2, <2>3, <2>4
  <1>7. CASE EndOfCurrencies(r)
    <2> DEFINE a == [Ok EXCEPT !.block = local[r].block, !.amounts = local[r].amounts,
                               !.nonce = local[r].nonce]
    <2>1. At(r, "token") /\ Reply(r, a) /\ UNCHANGED local
      BY <1>7 DEF EndOfCurrencies
    <2>2. a.status = "ok"
      BY DEF Ok, NoResp
    <2> HIDE DEF a
    <2>3. QED
      BY <1>1, <2>1, <2>2, OkTyped
  <1>8. QED
    BY <1>3, <1>4, <1>5, <1>6, <1>7 DEF AccountBalance

LEMMA getAccountCoinsTyped ==
  ASSUME TypeInv, IInv, IInv', NEW r \in Handlers, getAccountCoins(r)
  PROVE  TypeInv'
  <1>1. CacheInv'
    BY QuietIs DEF TypeInv, getAccountCoins, PreHeader, FetchPage, PostHeader
  <1>2. NodeInv /\ HandlerType(r) /\ DOMAIN local[r] = Fields
    BY LocalFields DEF TypeInv
  <1>3. CASE PreHeader(r)
    <2> DEFINE l == [NoLocal EXCEPT !.block = accepted]
    <2>1. At(r, "pre") /\ Continue(r, "utxos", l)
      BY <1>3 DEF PreHeader
    <2>2. /\ l.block = accepted /\ l.txs = NoLocal.txs /\ l.logs = NoLocal.logs
          /\ l.symbol = NoLocal.symbol
      BY DEF NoLocal
    <2> HIDE DEF l
    <2>3. l.block \in Height
      BY <1>2, <2>2, NodeTyped
    <2>4. Knows(l, "utxos")
      BY <2>2, <2>3, NothingKnown, KnowsOther DEF TxLabels
    <2>5. QED
      BY <1>1, <2>1, <2>4, ContinueTyped
  <1>4. CASE FetchPage(r)
    <2> DEFINE page == Page(local[r].src, local[r].cursor)
               got == [local[r] EXCEPT !.coins = @ \o page]
               more == [got EXCEPT !.cursor = Last(page).id]
               other == [got EXCEPT !.src = "X", !.cursor = 0]
    <2>1. At(r, "utxos")
      BY <1>4 DEF FetchPage
    <2>2. \/ Continue(r, "utxos", more) \/ Continue(r, "utxos", other) \/ Continue(r, "post", got)
      BY <1>4 DEF FetchPage
    <2>3. /\ DOMAIN got = Fields
          /\ got.block = local[r].block /\ got.txs = local[r].txs /\ got.logs = local[r].logs
          /\ got.symbol = local[r].symbol
      BY <1>2 DEF Fields
    <2> HIDE DEF got, page
    <2>4. /\ more.block = local[r].block /\ more.txs = local[r].txs /\ more.logs = local[r].logs
          /\ more.symbol = local[r].symbol
      BY <2>3 DEF Fields
    <2>5. /\ other.block = local[r].block /\ other.txs = local[r].txs
          /\ other.logs = local[r].logs /\ other.symbol = local[r].symbol
      BY <2>3 DEF Fields
    <2> HIDE DEF more, other
    <2>6. Knows(more, "utxos") /\ Knows(other, "utxos") /\ Knows(got, "post")
      BY <1>2, <2>3, <2>4, <2>5, KnowsOther DEF HandlerType, TxLabels
    <2>7. QED
      BY <1>1, <2>1, <2>2, <2>6, ContinueTyped
  <1>5. CASE PostHeader(r)
    <2> DEFINE coins == IF req[r].kind = "coins" THEN SortUnique(local[r].coins) ELSE local[r].coins
               a == [Ok EXCEPT !.block = accepted, !.coins = coins]
    <2>1. At(r, "post") /\ UNCHANGED local
      BY <1>5 DEF PostHeader, NewBlockReceived
    <2>2. Reply(r, a) \/ Fail(r, "internal")
      BY <1>5 DEF PostHeader, NewBlockReceived
    <2>3. a.status = "ok"
      BY DEF Ok, NoResp
    <2> HIDE DEF a
    <2>4. QED
      BY <1>1, <2>1, <2>2, <2>3, OkTyped, FailTyped
  <1>6. QED
    BY <1>3, <1>4, <1>5 DEF getAccountCoins

LEMMA NetworkStatusTyped ==
  ASSUME TypeInv, IInv, IInv', NEW r \in Handlers, NetworkStatus(r)
  PROVE  TypeInv'
  <1>1. CacheInv'
    BY QuietIs
    DEF TypeInv, NetworkStatus, Peers, IsCBootstrapped, IsXBootstrapped, FetchCurrent, FetchFirst,
        PPeers, IsPBootstrapped, ParseCurrentBlock
  <1>2. NodeInv /\ HandlerType(r) /\ DOMAIN local[r] = Fields
    BY LocalFields DEF TypeInv
  <1>3. CASE Peers(r)
    BY <1>1, <1>3, NothingKnown, ContinueTyped DEF Peers, TxLabels
  <1>4. CASE PPeers(r)
    BY <1>1, <1>4, NothingKnown, ContinueTyped DEF PPeers, TxLabels
  <1>5. CASE IsCBootstrapped(r)
    <2> DEFINE l == [local[r] EXCEPT !.cReady = "C" \in boot]
    <2>1. At(r, "cboot") /\ Continue(r, "xboot", l)
      BY <1>5 DEF IsCBootstrapped
    <2>2. /\ l.block = local[r].block /\ l.txs = local[r].txs /\ l.logs = local[r].logs
          /\ l.symbol = local[r].symbol
      BY <1>2 DEF Fields
    <2> HIDE DEF l
    <2>3. Knows(l, "xboot")
      BY <1>2, <2>2, KnowsOther DEF HandlerType, TxLabels
    <2>4. QED
      BY <1>1, <2>1, <2>3, ContinueTyped
  <1>6. NotReady.status = "ok"
    BY DEF NotReady, Ok, NoResp
  <1>7. Knows(local[r], "current") /\ Knows(local[r], "pcurrent")
    BY <1>2, KnowsOther DEF HandlerType, TxLabels
  <1>8. CASE IsXBootstrapped(r)
    <2>1. At(r, "xboot")
      BY <1>8 DEF IsXBootstrapped
    <2>2. \/ Continue(r, "current", local[r])
          \/ Reply(r, NotReady) /\ UNCHANGED local
      BY <1>8 DEF IsXBootstrapped
    <2>3. QED
      BY <1>1, <1>6, <1>7, <2>1, <2>2, ContinueTyped, OkTyped
  <1>9. CASE FetchCurrent(r)
    <2> DEFINE l == [local[r] EXCEPT !.block = accepted]
    <2>1. At(r, "current") /\ Continue(r, "first", l)
      BY <1>9 DEF FetchCurrent
    <2>2. /\ l.block = accepted /\ l.txs = local[r].txs /\ l.logs = local[r].logs
          /\ l.symbol = local[r].symbol
      BY <1>2 DEF Fields
    <2> HIDE DEF l
    <2>3. l.block \in Height
      BY <1>2, <2>2, NodeTyped
    <2>4. Knows(l, "first")
      BY <1>2, <2>2, <2>3, KnowsOther DEF HandlerType, TxLabels
    <2>5. QED
      BY <1>1, <2>1, <2>4, ContinueTyped
  <1>10. CASE FetchFirst(r)
    <2> DEFINE a == [Ok EXCEPT !.block = local[r].block, !.stage = "SYNCED"]
    <2>1. At(r, "first") /\ Reply(r, a) /\ UNCHANGED local
      BY <1>10 DEF FetchFirst
    <2>2. a.status = "ok"
      BY DEF Ok, NoResp
    <2> HIDE DEF a
    <2>3. QED
      BY <1>1, <2>1, <2>2, OkTyped
  <1>11. CASE IsPBootstrapped(r)
    <2>1. At(r, "pboot")
      BY <1>11 DEF IsPBootstrapped
    <2>2. \/ Continue(r, "pcurrent", local[r])
          \/ Reply(r, NotReady) /\ UNCHANGED local
      BY <1>11 DEF IsPBootstrapped
    <2>3. QED
      BY <1>1, <1>6, <1>7, <2>1, <2>2, ContinueTyped, OkTyped
  <1>12. CASE ParseCurrentBlock(r)
    <2> DEFINE a == [Ok EXCEPT !.block = exported["P"], !.stage = "SYNCED"]
    <2>1. At(r, "pcurrent") /\ Reply(r, a) /\ UNCHANGED local
      BY <1>12 DEF ParseCurrentBlock
    <2>2. a.status = "ok"
      BY DEF Ok, NoResp
    <2> HIDE DEF a
    <2>3. QED
      BY <1>1, <2>1, <2>2, OkTyped
  <1>13. QED
    BY <1>3, <1>4, <1>5, <1>8, <1>9, <1>10, <1>11, <1>12 DEF NetworkStatus

LEMMA OneReplyTyped ==
  ASSUME TypeInv, IInv, IInv', NEW r \in Handlers, Mempool(r) \/ callGetTransactionReceipt(r)
  PROVE  TypeInv'
  <1>1. CacheInv'
    BY QuietIs DEF TypeInv, Mempool, callGetTransactionReceipt
  <1>2. CASE Mempool(r)
    <2> DEFINE a == [Ok EXCEPT !.ids = Pending]
    <2>1. At(r, "pool") /\ Reply(r, a) /\ UNCHANGED local
      BY <1>2 DEF Mempool
    <2>2. a.status = "ok"
      BY DEF Ok, NoResp
    <2> HIDE DEF a
    <2>3. QED
      BY <1>1, <2>1, <2>2, OkTyped
  <1>3. CASE callGetTransactionReceipt(r)
    <2> DEFINE a == [Ok EXCEPT !.ids = {req[r].tx}]
    <2>1. At(r, "call") /\ UNCHANGED local
      BY <1>3 DEF callGetTransactionReceipt
    <2>2. \/ Reply(r, a) \/ Fail(r, "invalid method") \/ Fail(r, "invalid params")
          \/ Fail(r, "client")
      BY <1>3 DEF callGetTransactionReceipt
    <2>3. a.status = "ok"
      BY DEF Ok, NoResp
    <2> HIDE DEF a
    <2>4. QED
      BY <1>1, <2>1, <2>2, <2>3, OkTyped, FailTyped
  <1>4. QED
    BY <1>2, <1>3

(* A block: of the transactions left to be mapped the handler looks at the *)
(* first, and of its logs at the first.                                    *)
LEMMA NextTxTyped ==
  ASSUME TypeInv, IInv, IInv', CacheInv', NEW r \in Handlers, NEW from, from # "done", NEW l,
         At(r, from), NextTx(r, l), Knows(l, "trace")
  PROVE  TypeInv'
  <1>1. CASE l.txs # <<>>
    <2>1. Continue(r, "receipt", l)
      BY <1>1 DEF NextTx, Continue
    <2>2. Knows(l, "receipt")
      BY <1>1 DEF Knows
    <2>3. QED
      BY <2>1, <2>2, ContinueTyped
  <1>2. CASE ~(l.txs # <<>>)
    <2>1. Set(r, l) /\ Reply(r, Answer(r, l))
      BY <1>2 DEF NextTx
    <2>2. Answer(r, l).status = "ok"
      BY DEF Answer, Ok, NoResp
    <2>3. /\ NodeInv' /\ UNCHANGED session /\ pc[r] = from /\ HandlerType(r) /\ req'[r] = req[r]
      BY AtTyped
    <2>4. /\ \A q \in Handlers \ {r} : Still(q)
          /\ pc'[r] = "done" /\ local'[r] = l /\ resp'[r].status = "ok"
      BY <2>1, <2>2 DEF IInv, SharedInv, At, Reply, Goto, Set, Still
    <2>5. Knows(l, "done")
      BY DEF Knows, TxLabels
    <2>6. HandlerType(r)'
      BY <2>3, <2>4, <2>5 DEF HandlerType
    <2>7. pc' = [pc EXCEPT ![r] = "done"]
      BY <2>1 DEF Reply, Goto
    <2>8. QED
      BY <2>3, <2>4, <2>6, <2>7, MoveTyped
  <1>3. QED
    BY <1>1, <1>2

(* The first log of those left *)
LEMMA HeadLog ==
  ASSUME NEW r \in Handlers, HandlerType(r), local[r].logs # <<>>
  PROVE  /\ Head(local[r].logs) \in EventLog /\ Head(local[r].logs).token \in Token
         /\ Tail(local[r].logs) \in Seq(EventLog)
  <1>1. local[r].logs \in Seq(EventLog)
    BY DEF HandlerType, Knows
  <1>2. Head(local[r].logs) \in EventLog /\ Tail(local[r].logs) \in Seq(EventLog)
    BY <1>1, HeadTailProperties
  <1>3. \A log \in EventLog : log.token \in Token
    BY DEF EventLog
  <1>4. QED
    BY <1>2, <1>3

LEMMA MapLogTyped ==
  ASSUME TypeInv, IInv, IInv', CacheInv', NEW r \in Handlers, NEW from, from \in TxLabels, NEW info,
         At(r, from), MapLog(r, info), local[r].logs # <<>>
  PROVE  TypeInv'
  <1> DEFINE l == [local[r] EXCEPT
            !.ops = @ \o tokenOps(Head(local[r].logs), info, Len(@), IndexUnknownTokens),
            !.logs = Tail(@), !.symbol = ""]
  <1>1. Continue(r, "log", l)
    BY DEF MapLog
  <1>2. HandlerType(r) /\ DOMAIN local[r] = Fields /\ pc[r] = from
    BY LocalFields DEF TypeInv, At
  <1>3. /\ l.block = local[r].block /\ l.txs = local[r].txs /\ l.logs = Tail(local[r].logs)
        /\ l.symbol = ""
    BY <1>2 DEF Fields
  <1> HIDE DEF l
  <1>4. "" \in Symbols
    BY DEF Symbols
  <1>5. Knows(l, "log")
    BY <1>2, <1>3, <1>4, HeadLog DEF HandlerType, Knows
  <1>6. from # "done"
    BY DEF TxLabels
  <1>7. QED
    BY <1>1, <1>5, <1>6, ContinueTyped

LEMMA BlockTyped ==
  ASSUME TypeInv, IInv, IInv', NEW r \in Handlers, Block(r)
  PROVE  TypeInv'
  <1>1. /\ NodeInv /\ CacheInv /\ HandlerType(r) /\ DOMAIN local[r] = Fields
        /\ req[r] \in Request \cup {NoReq}
    BY LocalFields DEF TypeInv, IInv, HandlerInv, KindInv
  <1>2. /\ accepted \in Nat /\ accepted <= Len(Chain) /\ Len(Chain) \in Nat
        /\ \A n \in Height : n \in Nat
    BY <1>1, NodeTyped, ChainType DEF Height
  <1>3. /\ req[r].n # None => req[r].n \in Height
        /\ req[r].h # None => req[r].h \in Height
    BY <1>1 DEF Request, NoReq
  <1>4. CASE Genesis(r)
    <2> DEFINE a == [Ok EXCEPT !.block = 0, !.parent = 0]
    <2>1. At(r, "block") /\ Reply(r, a) /\ UNCHANGED local /\ CacheInv'
      BY <1>1, <1>4, QuietIs DEF Genesis
    <2>2. a.status = "ok"
      BY DEF Ok, NoResp
    <2> HIDE DEF a
    <2>3. QED
      BY <2>1, <2>2, OkTyped
  <1>5. CASE FetchBlock(r)
    <2>1. PICK n : n = Wanted(req[r])
      OBVIOUS
    <2> DEFINE txs == IF n = 0 THEN <<>> ELSE Ids(Chain[n].txs)
               l == [NoLocal EXCEPT !.block = n, !.txs = txs]
    <2>2. At(r, "block") /\ CacheInv'
      BY <1>1, <1>5, QuietIs DEF FetchBlock
    <2>3. CASE n > accepted
      BY <1>5, <2>1, <2>2, <2>3, FailTyped DEF FetchBlock
    <2>4. CASE ~(n > accepted)
      <3>1. Continue(r, IF n = 1 THEN "trace" ELSE "parent", l)
        BY <1>5, <2>1, <2>4 DEF FetchBlock
      <3>2. n \in Height
        BY <1>1, <1>3, <2>1, <2>2 DEF HandlerType, At, Wanted
      <3>3. txs \in Seq(TxIds)
        <4>1. CASE n = 0
          BY <4>1, EmptySeq
        <4>2. CASE n # 0
          <5>1. n \in 1 .. Len(Chain)
            BY <3>2, <4>2, <1>2 DEF Height
          <5>2. QED
            BY <4>2, <5>1, ChainType
        <4>3. QED
          BY <4>1, <4>2
      <3> HIDE DEF txs
      <3>4. /\ l.block = n /\ l.txs = txs /\ l.logs = NoLocal.logs /\ l.symbol = NoLocal.symbol
        BY DEF NoLocal
      <3> HIDE DEF l
      <3>5. NoLocal.logs \in Seq(EventLog) /\ NoLocal.symbol \in Symbols
        <4>1. Knows(NoLocal, "parent")
          BY NothingKnown DEF TxLabels
        <4>2. QED
          BY <4>1 DEF Knows
      <3>6. Knows(l, "trace") /\ Knows(l, "parent")
        BY <3>2, <3>3, <3>4, <3>5 DEF Knows, TxLabels
      <3>7. QED
        BY <2>2, <3>1, <3>6, ContinueTyped
    <2>5. QED
      BY <2>3, <2>4
  <1>6. CASE FetchParent(r)
    <2>1. At(r, "parent") /\ CacheInv'
      BY <1>1, <1>6, QuietIs DEF FetchParent
    <2>2. \/ Fail(r, "client") /\ UNCHANGED local
          \/ Continue(r, "trace", local[r])
      BY <1>6 DEF FetchParent
    <2>3. Knows(local[r], "trace")
      BY <1>1, KnowsOther DEF HandlerType, TxLabels
    <2>4. QED
      BY <2>1, <2>2, <2>3, FailTyped, ContinueTyped
  <1>7. CASE FetchHeader(r)
    <2>1. At(r, "header") /\ CacheInv'
      BY <1>1, <1>7, QuietIs DEF FetchHeader
    <2> DEFINE l == [NoLocal EXCEPT !.block = req[r].h]
    <2>2. \/ Fail(r, "client") /\ UNCHANGED local
          \/ Continue(r, "tx", l)
      BY <1>7 DEF FetchHeader
    <2>3. req[r].h \in Height
      <3>1. Wanted(req[r]) # None /\ req[r].kind = "transaction"
        BY <1>1, <2>1 DEF HandlerType, At
      <3>2. req[r] \in Request
        BY <1>1, <3>1 DEF NoReq
      <3>3. req[r].n = None <=> req[r].h = None
        BY <3>1, <3>2 DEF Request
      <3>4. QED
        BY <1>3, <3>1, <3>3 DEF Wanted
    <2>4. /\ l.block = req[r].h /\ l.txs = NoLocal.txs /\ l.logs = NoLocal.logs
          /\ l.symbol = NoLocal.symbol
      BY DEF NoLocal
    <2> HIDE DEF l
    <2>5. Knows(l, "tx")
      BY <2>3, <2>4, NothingKnown, KnowsOther DEF TxLabels
    <2>6. QED
      BY <2>1, <2>2, <2>5, FailTyped, ContinueTyped
  <1>8. CASE FetchTransaction(r)
    <2>1. At(r, "tx") /\ CacheInv'
      BY <1>1, <1>8, QuietIs DEF FetchTransaction
    <2> DEFINE l == [local[r] EXCEPT !.txs = <<req[r].tx>>]
    <2>2. CASE AcceptedTx(req[r].tx)
      <3>1. Continue(r, "trace", l)
        BY <1>8, <2>2 DEF FetchTransaction
      <3>2. req[r].tx \in TxIds
        <4>1. PICK n \in 1 .. accepted : req[r].tx \in InBlock(n)
          BY <2>2 DEF AcceptedTx
        <4>2. n \in 1 .. Len(Chain)
          BY <1>2
        <4>3. QED
          BY <4>1, <4>2, ChainType DEF InBlock
      <3>3. <<req[r].tx>> \in Seq(TxIds)
        BY <3>2
      <3>4. /\ l.block = local[r].block /\ l.txs = <<req[r].tx>> /\ l.logs = local[r].logs
            /\ l.symbol = local[r].symbol
        BY <1>1 DEF Fields
      <3> HIDE DEF l
      <3>5. Knows(l, "trace")
        BY <1>1, <3>3, <3>4 DEF HandlerType, Knows, TxLabels
      <3>6. QED
        BY <2>1, <3>1, <3>5, ContinueTyped
    <2>3. CASE ~AcceptedTx(req[r].tx)
      <3>1. UNCHANGED local /\ (Reply(r, Ok) \/ Fail(r, "client"))
        BY <1>8, <2>3 DEF FetchTransaction
      <3>2. Ok.status = "ok"
        BY DEF Ok, NoResp
      <3>3. QED
        BY <2>1, <3>1, <3>2, FailTyped, OkTyped
    <2>4. QED
      BY <2>2, <2>3
  <1>9. CASE FetchTrace(r)
    <2>1. At(r, "trace") /\ NextTx(r, local[r]) /\ CacheInv'
      BY <1>1, <1>9, QuietIs DEF FetchTrace
    <2>2. Knows(local[r], "trace")
      BY <1>1, KnowsOther DEF HandlerType, TxLabels
    <2>3. QED
      BY <2>1, <2>2, NextTxTyped
  <1>10. CASE FetchReceipt(r)
    <2> DEFINE tx == TxOf(Head(local[r].txs))
               logs == Where(tx.logs, LAMBDA log :
                                  Selected(log, isAnalyticsMode, TokenWhiteList))
               ops == MinedOps(tx, local[r].block)
               l == [local[r] EXCEPT !.ops = ops, !.logs = logs]
    <2>1. At(r, "receipt") /\ Continue(r, "log", l) /\ CacheInv'
      BY <1>1, <1>10, QuietIs DEF FetchReceipt
    <2>2. local[r].txs \in Seq(TxIds) /\ local[r].txs # <<>>
      BY <1>1, <2>1 DEF HandlerType, Knows, At, TxLabels
    <2>3. tx.logs \in Seq(EventLog)
      BY <2>2, ChainType, HeadTailProperties
    <2>4. logs \in Seq(EventLog)
      <3> DEFINE P == {i \in DOMAIN tx.logs : Selected(tx.logs[i], isAnalyticsMode, TokenWhiteList)}
      <3>1. P \in SUBSET DOMAIN tx.logs
        OBVIOUS
      <3>2. logs = [k \in DOMAIN Increasing(P) |-> tx.logs[Increasing(P)[k]]]
        BY DEF Where, Positions
      <3> HIDE DEF P, tx
      <3>3. PICK t \in Seq(EventLog) : t = [k \in DOMAIN Increasing(P) |-> tx.logs[Increasing(P)[k]]]
        BY <2>3, <3>1, KeptSequence
      <3>4. QED
        BY <3>2, <3>3
    <2> HIDE DEF logs, ops, tx
    <2>5. /\ l.block = local[r].block /\ l.txs = local[r].txs /\ l.logs = logs
          /\ l.symbol = local[r].symbol
      BY <1>1 DEF Fields
    <2> HIDE DEF l
    <2>6. Knows(l, "log")
      BY <1>1, <2>2, <2>4, <2>5 DEF HandlerType, Knows
    <2>7. QED
      BY <2>1, <2>6, ContinueTyped
  <1>11. CASE EndOfLogs(r)
    <2> DEFINE l == [local[r] EXCEPT !.done = Append(@, [id |-> Head(local[r].txs), ops |-> local[r].ops]),
                               !.txs = Tail(@), !.ops = <<>>]
    <2>1. At(r, "log") /\ NextTx(r, l) /\ CacheInv'
      BY <1>1, <1>11, QuietIs DEF EndOfLogs
    <2>2. local[r].txs \in Seq(TxIds) /\ local[r].txs # <<>>
      BY <1>1, <2>1 DEF HandlerType, Knows, At, TxLabels
    <2>3. Tail(local[r].txs) \in Seq(TxIds)
      BY <2>2, HeadTailProperties
    <2>4. /\ l.block = local[r].block /\ l.txs = Tail(local[r].txs) /\ l.logs = local[r].logs
          /\ l.symbol = local[r].symbol
      BY <1>1 DEF Fields
    <2> HIDE DEF l
    <2>5. Knows(l, "trace")
      BY <1>1, <2>3, <2>4 DEF HandlerType, Knows, TxLabels
    <2>6. QED
      BY <2>1, <2>5, NextTxTyped
  <1>12. CASE GetCached(r)
    <2>1. At(r, "log") /\ local[r].logs # <<>> /\ faults' = faults /\ misread' = misread
      BY <1>12 DEF GetCached
    <2>2. PICK i \in DOMAIN cache : MapLog(r, cache[i]) /\ Put(cache[i])
      BY <1>12 DEF GetCached
    <2>3. cache \in Seq(CacheEntry)
      BY <1>1 DEF CacheInv, CacheEntry
    <2>4. cache[i] \in CacheEntry
      BY <2>2, <2>3
    <2>5. CacheInv'
      BY <1>1, <2>1, <2>2, <2>4, PutTyped DEF CacheInv
    <2>6. QED
      BY <2>1, <2>2, <2>5, MapLogTyped DEF TxLabels
  <1>13. CASE Miss(r)
    <2>1. At(r, "log") /\ Continue(r, "symbol", local[r]) /\ CacheInv' /\ local[r].logs # <<>>
      BY <1>1, <1>13, QuietIs DEF Miss
    <2>2. Knows(local[r], "symbol")
      BY <1>1, <2>1 DEF HandlerType, Knows, At, TxLabels
    <2>3. QED
      BY <2>1, <2>2, ContinueTyped
  <1>14. CASE Symbol(r)
    <2> DEFINE log == Head(local[r].logs)
               found(symbol) == IF symbol = "" THEN UnknownSymbol(IsErc20(log)) ELSE symbol
    <2>1. At(r, "symbol") /\ local[r].logs # <<>>
      BY <1>1, <1>14 DEF Symbol, HandlerType, Knows, At
    <2>2. log.token \in Token
      BY <1>1, <2>1, HeadLog
    <2>3. PICK symbol \in Symbols :
            /\ Continue(r, "decimals", [local[r] EXCEPT !.symbol = symbol])
            /\ UNCHANGED cache
            /\ \/ UNCHANGED <<faults, misread>>
               \/ Fault /\ misread' = misread \cup {log.token}
      <3>1. Info[log.token].symbol \in Symbols /\ "" \in Symbols
        BY <2>2 DEF Symbols
      <3>2. UnknownSymbol(IsErc20(log)) \in Symbols
        BY DEF UnknownSymbol, Symbols
      <3>3. found("") \in Symbols /\ found(Info[log.token].symbol) \in Symbols
        BY <3>1, <3>2
      <3>4. \/ /\ Continue(r, "decimals", [local[r] EXCEPT !.symbol = found(Info[log.token].symbol)])
               /\ UNCHANGED <<cache, faults, misread>>
            \/ /\ Continue(r, "decimals", [local[r] EXCEPT !.symbol = found("")])
               /\ UNCHANGED cache /\ Fault /\ misread' = misread \cup {log.token}
        BY <1>14 DEF Symbol, Remember
      <3> HIDE DEF found, log
      <3>5. QED
        BY <3>3, <3>4
    <2> HIDE DEF log
    <2>4. CacheInv'
      BY <1>1, <2>2, <2>3, QuietTyped DEF CacheInv, Fault
    <2> DEFINE l == [local[r] EXCEPT !.symbol = symbol]
    <2>5. /\ l.block = local[r].block /\ l.txs = local[r].txs /\ l.logs = local[r].logs
          /\ l.symbol = symbol
      BY <1>1 DEF Fields
    <2>6. Continue(r, "decimals", l)
      BY <2>3
    <2> HIDE DEF l
    <2>7. Knows(l, "decimals")
      BY <1>1, <2>1, <2>5 DEF HandlerType, Knows, At, TxLabels
    <2>8. QED
      BY <2>1, <2>4, <2>6, <2>7, ContinueTyped
  <1>15. CASE Decimals(r)
    <2> DEFINE token == Head(local[r].logs).token
    <2>1. At(r, "decimals") /\ local[r].logs # <<>> /\ local[r].symbol \in Symbols
      BY <1>1, <1>15 DEF Decimals, HandlerType, Knows, At
    <2>2. token \in Token
      BY <1>1, <2>1, HeadLog
    <2>3. PICK decimals \in Nat :
            /\ Put(Entry(token, local[r].symbol, decimals))
            /\ MapLog(r, Entry(token, local[r].symbol, decimals))
            /\ \/ UNCHANGED <<faults, misread>>
               \/ Fault /\ misread' = misread \cup {token}
      <3>1. Info[token].decimals \in Nat /\ 0 \in Nat
        BY <2>2, ConstantsAssumption
      <3>2. QED
        BY <1>15, <3>1 DEF Decimals
    <2> HIDE DEF token
    <2>4. Entry(token, local[r].symbol, decimals) \in CacheEntry
      BY <2>1, <2>2 DEF Entry, CacheEntry
    <2>5. faults' \in 0 .. MaxFaults /\ misread' \subseteq Token
      BY <1>1, <2>2, <2>3, ConstantsAssumption DEF CacheInv, Fault
    <2>6. CacheInv'
      BY <1>1, <2>3, <2>4, <2>5, PutTyped
    <2>7. QED
      BY <2>1, <2>3, <2>6, MapLogTyped DEF TxLabels
  <1>16. QED
    BY <1>4, <1>5, <1>6, <1>7, <1>8, <1>9, <1>10, <1>11, <1>12, <1>13, <1>14, <1>15 DEF Block

(* Requests and responses, failing RPCs, and the node *)
LEMMA ReceiveTyped ==
  ASSUME TypeInv, IInv, IInv', NEW r \in Handlers, NEW q \in session.requests[r], Receive(r, q)
  PROVE  TypeInv'
  <1>1. /\ CacheInv' /\ NodeInv' /\ UNCHANGED session /\ HandlerType(r) /\ SharedInv
        /\ pc[r] = "idle"
    BY DEF TypeInv, Receive, CacheInv, NodeInv, nodeVars, IInv
  <1>2. q \in Request
    BY NodeTyped DEF TypeInv
  <1>3. /\ req'[r] = q /\ local'[r] = local[r]
        /\ \A s \in Handlers \ {r} : Still(s)
    BY <1>1 DEF Receive, SharedInv, Fail, Reply, Goto, Still
  <1>4. \/ pc' = [pc EXCEPT ![r] = "done"] /\ resp'[r].status \in {"offline", "invalid input"}
        \/ /\ ~Unnamed(q)
           /\ pc' = [pc EXCEPT ![r] = First[q.kind]] /\ resp'[r] = resp[r]
    BY <1>1, ReceiveEnds
  <1>5. /\ First[q.kind] \notin TxLabels \cup {"done"}
        /\ First[q.kind] = "block" => q.kind = "block"
        /\ First[q.kind] = "header" => q.kind = "transaction"
    <2>1. q.kind \in {"block", "transaction", "balance", "coins", "atomic", "status", "pstatus",
                      "mempool", "call"}
      BY <1>2 DEF Request
    <2>2. QED
      BY <2>1 DEF First, TxLabels
  <1>6. \A label : label \notin TxLabels => Knows(local[r], label)
    BY <1>1, KnowsOther DEF HandlerType
  <1>7. resp[r].status = "none"
    BY <1>1 DEF HandlerType
  <1>8. req'[r] \in session'.requests[r] \cup {NoReq}
    BY <1>1, <1>3
  <1>9. pc[r] # "done" /\ pc = [pc EXCEPT ![r] = pc[r]] /\ DOMAIN pc = Handlers
    BY <1>1 DEF TypeInv
  <1>10. CASE pc' = [pc EXCEPT ![r] = "done"] /\ resp'[r].status \in {"offline", "invalid input"}
    <2>1. pc'[r] = "done"
      BY <1>9, <1>10
    <2>2. Knows(local[r], "done")
      BY <1>6 DEF TxLabels
    <2>3. HandlerType(r)'
      BY <1>3, <1>8, <1>10, <2>1, <2>2 DEF HandlerType
    <2>4. QED
      BY <1>1, <1>3, <1>10, <2>3, MoveTyped
  <1>11. CASE /\ ~Unnamed(q)
              /\ pc' = [pc EXCEPT ![r] = First[q.kind]] /\ resp'[r] = resp[r]
    <2>1. pc'[r] = First[q.kind]
      BY <1>9, <1>11
    <2>2. Knows(local[r], First[q.kind])
      BY <1>5, <1>6
    <2>3. /\ pc'[r] \in {"block", "header"} => Wanted(q) # None
          /\ pc'[r] = "header" => q.kind = "transaction"
      BY <1>5, <1>11, <2>1 DEF Unnamed
    <2>4. HandlerType(r)'
      BY <1>3, <1>5, <1>7, <1>8, <1>11, <2>1, <2>2, <2>3 DEF HandlerType
    <2>5. QED
      BY <1>1, <1>3, <1>11, <2>4, MoveTyped
  <1>12. QED
    BY <1>4, <1>10, <1>11

LEMMA FinishTyped ==
  ASSUME TypeInv, IInv, IInv', NEW r \in Handlers, Finish(r)
  PROVE  TypeInv'
  <1>1. CacheInv' /\ NodeInv' /\ UNCHANGED session /\ SharedInv
    BY DEF TypeInv, Finish, CacheInv, NodeInv, nodeVars, IInv
  <1>2. /\ req'[r] = NoReq /\ local'[r] = NoLocal /\ pc'[r] = "idle" /\ resp'[r].status = "none"
        /\ pc' = [pc EXCEPT ![r] = "idle"]
        /\ \A s \in Handlers \ {r} : Still(s)
    BY <1>1 DEF Finish, SharedInv, Goto, Still, NoResp
  <1>3. Knows(NoLocal, "idle")
    BY NothingKnown DEF TxLabels
  <1>4. HandlerType(r)'
    BY <1>2, <1>3 DEF HandlerType
  <1>5. QED
    BY <1>1, <1>2, <1>4, MoveTyped

LEMMA RPCErrorTyped ==
  ASSUME TypeInv, IInv, IInv', NEW r \in Handlers, RPCError(r)
  PROVE  TypeInv'
  <1>1. At(r, pc[r]) /\ Fail(r, "rpc") /\ UNCHANGED local
    BY DEF RPCError, At, nodeVars
  <1>2. CacheInv'
    BY QuietTyped DEF RPCError, Fault, TypeInv, CacheInv
  <1>3. QED
    BY <1>1, <1>2, FailTyped

LEMMA NodeStepTyped ==
  ASSUME TypeInv, NodeInv', UNCHANGED <<session, faults, misread, cache, pc, req, since, local, resp>>
  PROVE  TypeInv'
  <1>1. ASSUME NEW q \in Handlers PROVE HandlerType(q)'
    BY DEF TypeInv, HandlerType
  <1>2. CacheInv' /\ pc' \in [Handlers -> Label]
    BY DEF TypeInv, CacheInv
  <1>3. QED
    BY <1>1, <1>2 DEF TypeInv

LEMMA NextTypeInv == IInv /\ TypeInv /\ [Next]_vars => TypeInv'
  <1> SUFFICES ASSUME IInv, TypeInv, [Next]_vars PROVE TypeInv'
    OBVIOUS
  <1>1. IInv' /\ NodeInv
    BY NextIInv DEF TypeInv
  <1>2. ASSUME NEW r \in Handlers, NEW q \in session.requests[r], Receive(r, q) PROVE TypeInv'
    BY <1>1, <1>2, ReceiveTyped
  <1>3. ASSUME NEW r \in Handlers, Serve(r) PROVE TypeInv'
    BY <1>1, <1>3, BlockTyped, AccountBalanceTyped, getAccountCoinsTyped, NetworkStatusTyped,
       OneReplyTyped, FinishTyped
    DEF Serve
  <1>4. ASSUME NEW r \in Handlers, RPCError(r) PROVE TypeInv'
    BY <1>1, <1>4, RPCErrorTyped
  <1>5. CASE AcceptBlock
    <2>1. accepted' = accepted + 1 /\ accepted < session.end.height
          /\ session.end.height \in Nat /\ accepted \in Nat
      BY <1>1, <1>5, NodeTyped DEF AcceptBlock
    <2>2. NodeInv'
      BY <1>1, <1>5, <2>1 DEF AcceptBlock, NodeInv
    <2>3. QED
      BY <1>5, <2>2, NodeStepTyped DEF AcceptBlock
  <1>6. ASSUME NEW chain \in {"C", "X", "P"}, FinishBootstrap(chain) PROVE TypeInv'
    <2>1. NodeInv'
      BY <1>1, <1>6 DEF FinishBootstrap, NodeInv
    <2>2. QED
      BY <1>6, <2>1, NodeStepTyped DEF FinishBootstrap
  <1>7. ASSUME NEW src \in Source, Export(src) PROVE TypeInv'
    <2>1. exported' = [exported EXCEPT ![src] = @ + 1] /\ exported \in [Source -> Nat]
          /\ exported[src] < session.end.exports[src] /\ UNCHANGED <<session, accepted, boot>>
      BY <1>7 DEF Export, IInv, SharedInv
    <2>2. ASSUME NEW s \in Source PROVE exported'[s] \in 0 .. session.end.exports[s]
      <3>1. session.end.exports[s] \in Nat /\ exported[s] \in 0 .. session.end.exports[s]
        BY <1>1, NodeTyped DEF NodeInv
      <3>2. QED
        BY <2>1, <3>1
    <2>3. NodeInv'
      BY <1>1, <2>1, <2>2 DEF NodeInv
    <2>4. QED
      BY <1>7, <2>3, NodeStepTyped DEF Export
  <1>8. CASE UNCHANGED vars
    <2>1. NodeInv'
      BY <1>1, <1>8 DEF vars, nodeVars, NodeInv
    <2>2. QED
      BY <1>8, <2>1, NodeStepTyped DEF vars
  <1>9. QED
    BY <1>2, <1>3, <1>4, <1>5, <1>6, <1>7, <1>8 DEF Next

LEMMA InitTypeInv == Init => TypeInv
  <1> SUFFICES ASSUME Init PROVE TypeInv
    OBVIOUS
  <1>1. session \in SessionType /\ GoesOn(session)
    BY ConstantsAssumption DEF Init
  <1>2. /\ session.start.height \in Nat /\ session.end.height \in Nat
        /\ session.start.exports \in [Source -> Nat] /\ session.end.exports \in [Source -> Nat]
        /\ session.boot \subseteq {"C", "X", "P"}
    BY <1>1 DEF SessionType, NodeType, Height
  <1>3. NodeInv
    BY <1>1, <1>2 DEF Init, NodeInv, GoesOn
  <1>4. CacheInv
    <2>1. cache = <<>> /\ Len(cache) = 0 /\ DOMAIN cache = {}
      BY DEF Init
    <2>2. cache \in Seq([token : Token, symbol : Symbols, decimals : Nat])
      BY <2>1, EmptySeq
    <2>3. faults \in 0 .. MaxFaults /\ misread \subseteq Token /\ 0 <= CacheSize
      BY ConstantsAssumption DEF Init
    <2>4. QED
      BY <2>1, <2>2, <2>3 DEF CacheInv
  <1>5. pc \in [Handlers -> Label]
    BY DEF Init, Label
  <1>6. ASSUME NEW r \in Handlers PROVE HandlerType(r)
    <2>1. pc[r] = "idle" /\ req[r] = NoReq /\ local[r] = NoLocal /\ resp[r].status = "none"
      BY DEF Init, NoResp
    <2>2. Knows(NoLocal, "idle")
      BY NothingKnown DEF TxLabels
    <2>3. QED
      BY <2>1, <2>2 DEF HandlerType
  <1>7. QED
    BY <1>3, <1>4, <1>5, <1>6 DEF TypeInv

LEMMA TypeInvTypes == TypeInv => TypeOK
  <1> SUFFICES ASSUME TypeInv PROVE TypeOK
    OBVIOUS
  <1>1. NodeInv /\ CacheInv /\ pc \in [Handlers -> Label]
    BY DEF TypeInv
  <1>2. ASSUME NEW r \in Handlers
        PROVE  /\ req[r] \in session.requests[r] \cup {NoReq}
               /\ local[r].block \in Height \cup {None}
               /\ pc[r] = "done" <=> resp[r].status # "none"
    BY DEF TypeInv, HandlerType, Knows
  <1>3. QED
    BY <1>1, <1>2 DEF TypeOK, NodeInv, CacheInv

-----------------------------------------------------------------------------
LEMMA TypeInvHolds == Spec => [](IInv /\ TypeInv)
  <1>1. IInv /\ TypeInv /\ [Next]_vars => (IInv /\ TypeInv)'
    BY NextIInv, NextTypeInv
  <1>2. QED
    BY InitIInv, InitTypeInv, <1>1, PTL DEF Spec

(* The node is in its session, the cache holds each contract once and no   *)
(* more of them than it has room for whichever handlers fill it and evict  *)
(* from it, and a response is there exactly when a handler is done.        *)
THEOREM TypeCorrect == Spec => []TypeOK
  BY TypeInvHolds, TypeInvTypes, PTL

-----------------------------------------------------------------------------
(* The coins: steps of others *)

LEMMA ExportedGrows ==
  ASSUME NEW e, NEW f, \A src \in Source : e[src] \in Nat /\ f[src] \in Nat /\ e[src] <= f[src]
  PROVE  Exported(e) \subseteq Exported(f)
  <1>1. ASSUME NEW id \in Exported(e) PROVE id \in Exported(f)
    <2>1. PICK src \in Source : id \in {Exports[src][i].id : i \in 1 .. e[src]}
      BY DEF Exported
    <2>2. PICK i \in 1 .. e[src] : id = Exports[src][i].id
      BY <2>1
    <2>3. i \in 1 .. f[src]
      OBVIOUS
    <2>4. QED
      BY <2>2, <2>3 DEF Exported
  <1>2. QED
    BY <1>1

LEMMA ExportedIs ==
  ASSUME NEW counts
  PROVE  /\ \A src \in Source : ExportedBy(src, counts) \subseteq Exported(counts)
         /\ \A id \in Exported(counts) : \E src \in Source : id \in ExportedBy(src, counts)
  BY DEF Exported, ExportedBy

(* The node goes on. *)
NodeGrows ==
    /\ accepted \in Nat /\ accepted' \in Nat /\ accepted <= accepted'
    /\ \A src \in Source : exported[src] \in Nat /\ exported'[src] \in Nat
                           /\ exported[src] <= exported'[src]

LEMMA CoinsStay ==
  ASSUME NodeGrows, NEW q \in Handlers, CoinsInv(q), Still(q)
  PROVE  CoinsInv(q)'
  <1>1. Exported(exported) \subseteq Exported(exported')
    BY ExportedGrows DEF NodeGrows
  <1>2. \A src \in Source : since'[q].exported[src] \in 0 .. exported'[src]
    <2>1. since'[q] = since[q]
      BY DEF Still
    <2>2. ASSUME NEW src \in Source PROVE since[q].exported[src] \in 0 .. exported'[src]
      <3>1. since[q].exported[src] \in 0 .. exported[src]
        BY DEF CoinsInv
      <3>2. QED
        BY <3>1 DEF NodeGrows
    <2>3. QED
      BY <2>1, <2>2
  <1>3. ASSUME pc'[q] \in {"utxos", "post"} PROVE Reading(q)'
    <2>1. Reading(q)
      BY <1>3 DEF CoinsInv, Still
    <2>2. PICK l : l = local[q]
      OBVIOUS
    <2>3. /\ l.block \in Nat /\ l.block <= accepted /\ Read(l)
          /\ accepted = l.block => Complete(l, since[q], pc[q])
          /\ pc[q] = "utxos" => Paging(l)
      BY <2>1, <2>2 DEF Reading
    <2>4. l.block <= accepted' /\ (accepted' = l.block => accepted = l.block)
      BY <2>3 DEF NodeGrows
    <2>5. Read(l)'
      BY <1>1, <2>3, <2>4 DEF Read
    <2>6. local'[q] = l /\ since'[q] = since[q] /\ pc'[q] = pc[q]
      BY <2>2 DEF Still
    <2>7. Complete(local'[q], since'[q], pc'[q]) <=> Complete(l, since[q], pc[q])
      BY <2>6
    <2>8. Paging(l)' <=> Paging(l)
      BY DEF Paging
    <2>9. QED
      BY <2>3, <2>4, <2>5, <2>6, <2>7, <2>8 DEF Reading
  <1>4. CoinsAnswered(q)'
    <2>1. resp'[q] = resp[q] /\ req'[q] = req[q] /\ since'[q] = since[q]
      BY DEF Still
    <2>2. QED
      BY <1>1, <2>1 DEF CoinsInv, CoinsAnswered, Answered
  <1>5. pc'[q] \in CoinLabels <=> (req'[q].kind \in CoinKinds /\ pc'[q] # "done")
    BY DEF CoinsInv, Still
  <1>6. QED
    BY <1>2, <1>3, <1>4, <1>5 DEF CoinsInv

LEMMA OneMovesCoins ==
  ASSUME AllCoinsInv, NodeGrows, NEW r \in Handlers, \A q \in Handlers \ {r} : Still(q), CoinsInv(r)'
  PROVE  AllCoinsInv'
  <1>1. ASSUME NEW q \in Handlers PROVE CoinsInv(q)'
    <2>1. CASE q = r
      BY <2>1
    <2>2. CASE q # r
      BY <2>2, CoinsStay DEF AllCoinsInv
    <2>3. QED
      BY <2>1, <2>2
  <1>2. QED
    BY <1>1 DEF AllCoinsInv

(* A handler makes a step, while the node stays where it is. *)
LEMMA NodeStays ==
  ASSUME IInv, UNCHANGED <<accepted, exported>>
  PROVE  NodeGrows
  BY DEF NodeGrows, IInv, SharedInv

(* One that serves another request, or fails *)
LEMMA OtherActCoins ==
  ASSUME IInv, AllCoinsInv, NEW r \in Handlers, Act(r), pc[r] # "done", pc[r] \notin CoinLabels,
         pc'[r] \notin CoinLabels
  PROVE  AllCoinsInv'
  <1>1. req[r].kind \notin CoinKinds /\ CoinsInv(r)
    BY DEF AllCoinsInv, CoinsInv
  <1>2. req'[r] = req[r] /\ since'[r] = since[r] /\ UNCHANGED <<accepted, exported>>
    BY DEF Act
  <1>3. CoinsAnswered(r)'
    BY <1>1, <1>2 DEF CoinsAnswered, Answered
  <1>4. CoinsInv(r)'
    BY <1>1, <1>2, <1>3 DEF CoinsInv, CoinLabels
  <1>5. QED
    BY <1>2, <1>4, OneMovesCoins, NodeStays DEF Act

LEMMA FailCoins ==
  ASSUME IInv, AllCoinsInv, NEW r \in Handlers, NEW from, NEW err, err # "ok",
         At(r, from), Fail(r, err), UNCHANGED local
  PROVE  AllCoinsInv'
  <1>1. /\ Act(r) /\ pc'[r] = "done" /\ resp'[r] = [NoResp EXCEPT !.status = err]
    BY ReplyAct DEF Fail, IInv
  <1>2. resp'[r].status # "ok"
    BY <1>1 DEF NoResp
  <1>3. CoinsInv(r) /\ since'[r] = since[r] /\ UNCHANGED <<accepted, exported>>
    BY <1>1 DEF AllCoinsInv, Act
  <1>4. CoinsInv(r)'
    BY <1>1, <1>2, <1>3 DEF CoinsInv, CoinsAnswered, Answered, CoinLabels
  <1>5. QED
    BY <1>1, <1>3, <1>4, OneMovesCoins, NodeStays DEF Act

LEMMA OtherContinueCoins ==
  ASSUME IInv, AllCoinsInv, NEW r \in Handlers, NEW from, NEW to, NEW l, from # "done",
         from \notin CoinLabels, to \notin CoinLabels, At(r, from), Continue(r, to, l)
  PROVE  AllCoinsInv'
  <1>1. SharedInv
    BY DEF IInv
  <1>2. Act(r) /\ pc[r] = from /\ pc'[r] = to
    BY <1>1, ContinueAct
  <1>3. QED
    BY <1>2, OtherActCoins

LEMMA OtherReplyCoins ==
  ASSUME IInv, AllCoinsInv, NEW r \in Handlers, NEW from, NEW a, NEW l, from # "done",
         from \notin CoinLabels, At(r, from), Reply(r, a), UNCHANGED local \/ Set(r, l)
  PROVE  AllCoinsInv'
  <1>1. Act(r) /\ pc[r] = from /\ pc'[r] = "done"
    BY DEF IInv, SharedInv, At, Reply, Goto, Set, Act, Still, nodeVars
  <1>2. QED
    BY <1>1, OtherActCoins DEF CoinLabels

LEMMA NextTxCoins ==
  ASSUME IInv, AllCoinsInv, NEW r \in Handlers, NEW from, NEW l, from # "done",
         from \notin CoinLabels, At(r, from), NextTx(r, l)
  PROVE  AllCoinsInv'
  <1>1. CASE l.txs # <<>>
    <2>1. Continue(r, "receipt", l)
      BY <1>1 DEF NextTx, Continue
    <2>2. QED
      BY <2>1, OtherContinueCoins DEF CoinLabels
  <1>2. CASE ~(l.txs # <<>>)
    <2>1. Set(r, l) /\ Reply(r, Answer(r, l))
      BY <1>2 DEF NextTx
    <2>2. QED
      BY <2>1, OtherReplyCoins
  <1>3. QED
    BY <1>1, <1>2

LEMMA BlockCoins ==
  ASSUME IInv, AllCoinsInv, NEW r \in Handlers, Block(r)
  PROVE  AllCoinsInv'
  <1> USE DEF CoinLabels
  <1>1. CASE Genesis(r)
    BY <1>1, OtherReplyCoins DEF Genesis
  <1>2. CASE FetchBlock(r)
    <2>1. At(r, "block")
      BY <1>2 DEF FetchBlock
    <2>2. \/ Fail(r, "not found") /\ UNCHANGED local
          \/ \E l : Continue(r, "trace", l) \/ Continue(r, "parent", l)
      BY <1>2 DEF FetchBlock
    <2>3. QED
      BY <2>1, <2>2, FailCoins, OtherContinueCoins
  <1>3. CASE FetchParent(r)
    BY <1>3, FailCoins, OtherContinueCoins DEF FetchParent
  <1>4. CASE FetchHeader(r)
    <2>1. At(r, "header")
      BY <1>4 DEF FetchHeader
    <2>2. (Fail(r, "client") /\ UNCHANGED local) \/ \E l : Continue(r, "tx", l)
      BY <1>4 DEF FetchHeader
    <2>3. QED
      BY <2>1, <2>2, FailCoins, OtherContinueCoins
  <1>5. CASE FetchTransaction(r)
    <2>1. At(r, "tx")
      BY <1>5 DEF FetchTransaction
    <2>2. \/ \E l : Continue(r, "trace", l)
          \/ UNCHANGED local /\ (Reply(r, Ok) \/ Fail(r, "client"))
      BY <1>5 DEF FetchTransaction
    <2>3. QED
      BY <2>1, <2>2, FailCoins, OtherReplyCoins, OtherContinueCoins
  <1>6. CASE FetchTrace(r)
    BY <1>6, NextTxCoins DEF FetchTrace
  <1>7. CASE FetchReceipt(r)
    <2>1. At(r, "receipt") /\ \E l : Continue(r, "log", l)
      BY <1>7 DEF FetchReceipt
    <2>2. QED
      BY <2>1, OtherContinueCoins
  <1>8. CASE EndOfLogs(r)
    <2>1. At(r, "log") /\ \E l : NextTx(r, l)
      BY <1>8 DEF EndOfLogs
    <2>2. QED
      BY <2>1, NextTxCoins
  <1>9. CASE GetCached(r)
    <2>1. At(r, "log") /\ \E l : Continue(r, "log", l)
      BY <1>9 DEF GetCached, MapLog
    <2>2. QED
      BY <2>1, OtherContinueCoins
  <1>10. CASE Miss(r)
    BY <1>10, OtherContinueCoins DEF Miss
  <1>11. CASE Symbol(r)
    <2>1. At(r, "symbol") /\ \E l : Continue(r, "decimals", l)
      BY <1>11 DEF Symbol
    <2>2. QED
      BY <2>1, OtherContinueCoins
  <1>12. CASE Decimals(r)
    <2>1. At(r, "decimals") /\ \E l : Continue(r, "log", l)
      BY <1>12 DEF Decimals, MapLog
    <2>2. QED
      BY <2>1, OtherContinueCoins
  <1>13. QED
    BY <1>1, <1>2, <1>3, <1>4, <1>5, <1>6, <1>7, <1>8, <1>9, <1>10, <1>11, <1>12 DEF Block

LEMMA AccountBalanceCoins ==
  ASSUME IInv, AllCoinsInv, NEW r \in Handlers, AccountBalance(r)
  PROVE  AllCoinsInv'
  <1> USE DEF CoinLabels
  <1>1. CASE FetchBalanceHeader(r)
    <2>1. At(r, "latest")
      BY <1>1 DEF FetchBalanceHeader
    <2>2. (Fail(r, "internal") /\ UNCHANGED local) \/ \E l : Continue(r, "nonce", l)
      BY <1>1 DEF FetchBalanceHeader
    <2>3. QED
      BY <2>1, <2>2, FailCoins, OtherContinueCoins
  <1>2. CASE NonceAt(r)
    <2>1. At(r, "nonce") /\ \E l : Continue(r, "balance", l)
      BY <1>2 DEF NonceAt
    <2>2. QED
      BY <2>1, OtherContinueCoins
  <1>3. CASE BalanceAt(r)
    <2>1. At(r, "balance") /\ \E l : Continue(r, "token", l)
      BY <1>3 DEF BalanceAt
    <2>2. QED
      BY <2>1, OtherContinueCoins
  <1>4. CASE CallContract(r)
    <2>1. At(r, "token")
      BY <1>4 DEF CallContract
    <2>2. (Fail(r, "invalid params") /\ UNCHANGED local) \/ \E l : Continue(r, "token", l)
      BY <1>4 DEF CallContract
    <2>3. QED
      BY <2>1, <2>2, FailCoins, OtherContinueCoins
  <1>5. CASE EndOfCurrencies(r)
    <2>1. At(r, "token") /\ (\E a : Reply(r, a)) /\ UNCHANGED local
      BY <1>5 DEF EndOfCurrencies
    <2>2. QED
      BY <2>1, OtherReplyCoins
  <1>6. QED
    BY <1>1, <1>2, <1>3, <1>4, <1>5 DEF AccountBalance

LEMMA NetworkStatusCoins ==
  ASSUME IInv, AllCoinsInv, NEW r \in Handlers, NetworkStatus(r)
  PROVE  AllCoinsInv'
  <1> USE DEF CoinLabels
  <1>1. PICK from \in StatusLabels \cup PStatusLabels : At(r, from)
    BY DEF NetworkStatus, Peers, IsCBootstrapped, IsXBootstrapped, FetchCurrent, FetchFirst,
           PPeers, IsPBootstrapped, ParseCurrentBlock, StatusLabels, PStatusLabels
  <1>2. \/ \E to \in StatusLabels \cup PStatusLabels : \E l : Continue(r, to, l)
        \/ UNCHANGED local /\ \E a : Reply(r, a)
    BY DEF NetworkStatus, Peers, IsCBootstrapped, IsXBootstrapped, FetchCurrent, FetchFirst,
           PPeers, IsPBootstrapped, ParseCurrentBlock, StatusLabels, PStatusLabels
  <1>3. \A label \in StatusLabels \cup PStatusLabels : label \notin CoinLabels \cup {"done"}
    BY DEF StatusLabels, PStatusLabels
  <1>4. QED
    BY <1>1, <1>2, <1>3, OtherContinueCoins, OtherReplyCoins

LEMMA OneReplyCoins ==
  ASSUME IInv, AllCoinsInv, NEW r \in Handlers, Mempool(r) \/ callGetTransactionReceipt(r)
  PROVE  AllCoinsInv'
  <1>1. PICK from \in {"pool", "call"} : At(r, from)
    BY DEF Mempool, callGetTransactionReceipt
  <1>2. UNCHANGED local /\ \E a : Reply(r, a)
    BY DEF Mempool, callGetTransactionReceipt, Fail
  <1>3. QED
    BY <1>1, <1>2, OtherReplyCoins DEF CoinLabels

LEMMA ReceiveCoins ==
  ASSUME TypeInv, IInv, AllCoinsInv, NEW r \in Handlers, NEW q \in session.requests[r], Receive(r, q)
  PROVE  AllCoinsInv'
  <1>1. SharedInv /\ NodeInv
    BY DEF IInv, TypeInv
  <1>2. q \in Request
    BY <1>1, NodeTyped
  <1>3. /\ req'[r] = q /\ since'[r].exported = exported
        /\ \A s \in Handlers \ {r} : Still(s)
        /\ UNCHANGED <<accepted, exported>>
    BY <1>1 DEF Receive, SharedInv, Fail, Reply, Goto, Still, nodeVars
  <1>4. \/ pc'[r] = "done" /\ resp'[r].status \in {"offline", "invalid input"}
        \/ pc'[r] = First[q.kind] /\ resp'[r] = resp[r]
    BY <1>1, ReceiveEnds
  <1>5. resp[r].status # "ok"
    <2>1. pc[r] = "idle" /\ HandlerInv(r)
      BY DEF Receive, IInv
    <2>2. QED
      BY <2>1 DEF HandlerInv, KindInv
  <1>6. /\ First[q.kind] # "done"
        /\ First[q.kind] \in CoinLabels <=> q.kind \in CoinKinds
        /\ First[q.kind] \notin {"utxos", "post"}
    <2>1. q.kind \in {"block", "transaction", "balance", "coins", "atomic", "status", "pstatus",
                      "mempool", "call"}
      BY <1>2 DEF Request
    <2>2. QED
      BY <2>1 DEF First, CoinLabels, CoinKinds
  <1>7. CoinsAnswered(r)'
    BY <1>4, <1>5 DEF CoinsAnswered, Answered
  <1>8. \A src \in Source : since'[r].exported[src] \in 0 .. exported'[src]
    BY <1>1, <1>3 DEF SharedInv
  <1>9. CoinsInv(r)'
    BY <1>3, <1>4, <1>6, <1>7, <1>8 DEF CoinsInv, CoinLabels
  <1>10. QED
    BY <1>3, <1>9, OneMovesCoins, NodeStays

LEMMA FinishCoins ==
  ASSUME IInv, AllCoinsInv, NEW r \in Handlers, Finish(r)
  PROVE  AllCoinsInv'
  <1>1. SharedInv
    BY DEF IInv
  <1>2. /\ pc'[r] = "idle" /\ req'[r] = NoReq /\ since'[r] = NoSince /\ resp'[r] = NoResp
        /\ \A s \in Handlers \ {r} : Still(s)
        /\ UNCHANGED <<accepted, exported>>
    BY <1>1 DEF Finish, SharedInv, Goto, Still, nodeVars
  <1>3. CoinsAnswered(r)'
    BY <1>2, NothingRead DEF CoinsAnswered, Answered
  <1>4. \A src \in Source : since'[r].exported[src] \in 0 .. exported'[src]
    BY <1>1, <1>2 DEF SharedInv, NoSince
  <1>5. pc'[r] \notin CoinLabels /\ req'[r].kind \notin CoinKinds
    BY <1>2 DEF CoinLabels, CoinKinds, NoReq
  <1>6. CoinsInv(r)'
    BY <1>2, <1>3, <1>4, <1>5 DEF CoinsInv
  <1>7. QED
    BY <1>2, <1>6, OneMovesCoins, NodeStays

LEMMA RPCErrorCoins ==
  ASSUME IInv, AllCoinsInv, NEW r \in Handlers, RPCError(r)
  PROVE  AllCoinsInv'
  <1>1. At(r, pc[r]) /\ Fail(r, "rpc") /\ UNCHANGED local
    BY DEF RPCError, At, nodeVars
  <1>2. QED
    BY <1>1, FailCoins

-----------------------------------------------------------------------------
(* The coins: pages *)

LEMMA CoinId == \A coin \in Coin : coin.id \in Nat
  BY DEF Coin

(* Coins, and a page after them *)
Joined(coins, page, all) ==
    /\ all \in Seq(Coin) /\ Len(all) = Len(coins) + Len(page)
    /\ Len(coins) \in Nat /\ Len(page) \in Nat
    /\ \A i \in 1 .. Len(coins) : i \in 1 .. Len(all) /\ all[i] = coins[i]
    /\ \A j \in 1 .. Len(page) : Len(coins) + j \in 1 .. Len(all) /\ all[Len(coins) + j] = page[j]
    /\ \A i \in 1 .. Len(all) :
            i \in 1 .. Len(coins) \/ \E j \in 1 .. Len(page) : i = Len(coins) + j
    /\ IdsOf(all) = IdsOf(coins) \cup IdsOf(page)

LEMMA Appended ==
  ASSUME NEW coins \in Seq(Coin), NEW page \in Seq(Coin), NEW all, all = coins \o page
  PROVE  Joined(coins, page, all)
  <1>1. /\ all \in Seq(Coin) /\ Len(all) = Len(coins) + Len(page)
        /\ Len(coins) \in Nat /\ Len(page) \in Nat
    BY LenProperties, ConcatProperties
  <1>2. \A i \in 1 .. Len(coins) : i \in 1 .. Len(all) /\ all[i] = coins[i]
    BY <1>1
  <1>3. \A j \in 1 .. Len(page) : Len(coins) + j \in 1 .. Len(all)
                                  /\ all[Len(coins) + j] = page[j]
    BY <1>1
  <1>4. ASSUME NEW i \in 1 .. Len(all), i \notin 1 .. Len(coins)
        PROVE  \E j \in 1 .. Len(page) : i = Len(coins) + j
    <2>1. i - Len(coins) \in 1 .. Len(page) /\ i = Len(coins) + (i - Len(coins))
      BY <1>1, <1>4
    <2>2. QED
      BY <2>1
  <1>5. IdsOf(all) = IdsOf(coins) \cup IdsOf(page)
    <2>1. ASSUME NEW id \in IdsOf(all) PROVE id \in IdsOf(coins) \cup IdsOf(page)
      <3>1. PICK i \in 1 .. Len(all) : id = all[i].id
        BY DEF IdsOf
      <3>2. CASE i \in 1 .. Len(coins)
        BY <1>2, <3>1, <3>2 DEF IdsOf
      <3>3. CASE i \notin 1 .. Len(coins)
        <4>1. PICK j \in 1 .. Len(page) : i = Len(coins) + j
          BY <1>4, <3>3
        <4>2. id = page[j].id
          BY <1>3, <3>1, <4>1
        <4>3. QED
          BY <4>2 DEF IdsOf
      <3>4. QED
        BY <3>2, <3>3
    <2>2. ASSUME NEW id \in IdsOf(coins) PROVE id \in IdsOf(all)
      <3>1. PICK i \in 1 .. Len(coins) : id = coins[i].id
        BY DEF IdsOf
      <3>2. i \in 1 .. Len(all) /\ id = all[i].id
        BY <1>2, <3>1
      <3>3. QED
        BY <3>2 DEF IdsOf
    <2>3. ASSUME NEW id \in IdsOf(page) PROVE id \in IdsOf(all)
      <3>1. PICK j \in 1 .. Len(page) : id = page[j].id
        BY DEF IdsOf
      <3>2. Len(coins) + j \in 1 .. Len(all) /\ id = all[Len(coins) + j].id
        BY <1>3, <3>1
      <3>3. QED
        BY <3>2 DEF IdsOf
    <2>4. QED
      BY <2>1, <2>2, <2>3
  <1>6. QED
    BY <1>1, <1>2, <1>3, <1>4, <1>5 DEF Joined

(* What is read from a page on: it starts where the coins end, so only its *)
(* first one can be there already.                                         *)
LEMMA PageOrder ==
  ASSUME NEW src, NEW cursor \in Nat,
         NEW coins \in Seq(Coin), RepeatedNext(coins), BeforeCursor(coins, src, cursor),
         NEW page \in Seq(Coin), IdsOf(page) \subseteq SourceIds(src),
         \A k \in 1 .. Len(page) : cursor <= page[k].id,
         \A k, l \in 1 .. Len(page) : k < l => page[k].id < page[l].id,
         NEW all, all = coins \o page
  PROVE  /\ RepeatedNext(all)
         /\ Len(page) > 1 => BeforeCursor(all, src, page[Len(page)].id)
  <1> DEFINE n == Len(coins)
  <1>1. /\ all \in Seq(Coin) /\ Len(all) = n + Len(page)
        /\ n \in Nat /\ Len(page) \in Nat
        /\ \A i \in 1 .. n : i \in 1 .. Len(all) /\ all[i] = coins[i]
        /\ \A j \in 1 .. Len(page) : n + j \in 1 .. Len(all) /\ all[n + j] = page[j]
        /\ \A i \in 1 .. Len(all) : i \in 1 .. n \/ \E j \in 1 .. Len(page) : i = n + j
    <2>1. Joined(coins, page, all)
      BY Appended
    <2>2. QED
      BY <2>1 DEF Joined
  <1>2. \A j \in 1 .. Len(page) : page[j] \in Coin /\ page[j].id \in Nat
                                  /\ page[j].id \in SourceIds(src)
    BY CoinId DEF IdsOf
  <1>3. ASSUME NEW i \in 1 .. n, NEW j \in 1 .. Len(page), coins[i].id = page[j].id
        PROVE  i = n /\ j = 1
    <2>1. coins[i].id < cursor \/ (coins[i].id = cursor /\ i = n)
      BY <1>2, <1>3 DEF BeforeCursor
    <2>2. PICK x \in Nat : x = page[j].id
      BY <1>2
    <2>3. cursor <= x
      BY <2>2
    <2>4. x = cursor /\ i = n
      BY <1>3, <2>1, <2>2, <2>3
    <2>5. j = 1
      <3>1. SUFFICES ASSUME j # 1 PROVE FALSE
        OBVIOUS
      <3>2. 1 \in 1 .. Len(page) /\ 1 < j
        BY <1>1, <3>1
      <3>3. PICK y \in Nat : y = page[1].id
        BY <1>2, <3>2
      <3>4. y < x /\ cursor <= y
        BY <2>2, <3>2, <3>3
      <3>5. QED
        BY <2>4, <3>4
    <2>6. QED
      BY <2>4, <2>5
  <1>4. RepeatedNext(all)
    <2>1. ASSUME NEW i \in 1 .. Len(all), NEW j \in 1 .. Len(all), i < j, all[i].id = all[j].id
          PROVE  j = i + 1
      <3>1. CASE j \in 1 .. n
        <4>1. i \in 1 .. n
          BY <1>1, <2>1, <3>1
        <4>2. coins[i].id = coins[j].id
          BY <1>1, <2>1, <3>1, <4>1
        <4>3. QED
          BY <2>1, <3>1, <4>1, <4>2 DEF RepeatedNext
      <3>2. CASE j \notin 1 .. n
        <4>1. PICK k \in 1 .. Len(page) : j = n + k
          BY <1>1, <3>2
        <4>2. CASE i \in 1 .. n
          <5>1. coins[i].id = page[k].id
            BY <1>1, <2>1, <4>1, <4>2
          <5>2. i = n /\ k = 1
            BY <1>3, <4>2, <5>1
          <5>3. QED
            BY <1>1, <4>1, <5>2
        <4>3. CASE i \notin 1 .. n
          <5>1. PICK m \in 1 .. Len(page) : i = n + m
            BY <1>1, <4>3
          <5>2. m < k
            BY <1>1, <2>1, <4>1, <5>1
          <5>3. page[m].id < page[k].id
            BY <5>2
          <5>4. page[m].id = page[k].id
            BY <1>1, <2>1, <4>1, <5>1
          <5>5. PICK x \in Nat : x = page[m].id
            BY <1>2
          <5>6. QED
            BY <5>3, <5>4, <5>5
        <4>4. QED
          BY <4>2, <4>3
      <3>3. QED
        BY <3>1, <3>2
    <2>2. QED
      BY <2>1 DEF RepeatedNext
  <1>5. ASSUME Len(page) > 1 PROVE BeforeCursor(all, src, page[Len(page)].id)
    <2>1. PICK z \in 1 .. Len(page) : z = Len(page)
      BY <1>1, <1>5
    <2>2. PICK last \in Nat : last = page[z].id
      BY <1>2
    <2>3. cursor < last
      <3>1. 1 \in 1 .. Len(page) /\ 1 < z
        BY <1>1, <1>5, <2>1
      <3>2. PICK y \in Nat : y = page[1].id
        BY <1>2, <3>1
      <3>3. cursor <= y /\ y < last
        BY <2>2, <3>1, <3>2
      <3>4. QED
        BY <3>3
    <2>4. ASSUME NEW i \in 1 .. Len(all), all[i].id \in SourceIds(src)
          PROVE  all[i].id < last \/ (all[i].id = last /\ i = Len(all))
      <3>1. CASE i \in 1 .. n
        <4>1. PICK x \in Nat : x = coins[i].id
          BY <3>1, CoinId
        <4>2. all[i].id = x
          BY <1>1, <3>1, <4>1
        <4>3. x < cursor \/ x = cursor
          BY <2>4, <3>1, <4>1, <4>2 DEF BeforeCursor
        <4>4. x < last
          BY <2>3, <4>3
        <4>5. QED
          BY <4>2, <4>4
      <3>2. CASE i \notin 1 .. n
        <4>1. PICK k \in 1 .. Len(page) : i = n + k
          BY <1>1, <3>2
        <4>2. all[i].id = page[k].id
          BY <1>1, <4>1
        <4>3. CASE k = z
          BY <1>1, <2>1, <2>2, <4>1, <4>2, <4>3
        <4>4. CASE k # z
          <5>1. k < z
            BY <1>1, <2>1, <4>4
          <5>2. page[k].id < last
            BY <2>2, <5>1
          <5>3. QED
            BY <4>2, <5>2
        <4>5. QED
          BY <4>3, <4>4
      <3>3. QED
        BY <3>1, <3>2
    <2>5. QED
      BY <2>1, <2>2, <2>4 DEF BeforeCursor
  <1>6. QED
    BY <1>4, <1>5

(* All that had been exported of a chain, and all before the cursor, has   *)
(* been read once the page has.                                            *)
LEMMA PageCompletes ==
  ASSUME NodeInv, NEW l, l.coins \in Seq(Coin), l.src \in Source, l.cursor \in Nat,
         accepted = l.block,
         NEW s, \A src \in Source : s.exported[src] \in 0 .. exported[src],
         Complete(l, s, "utxos"),
         NEW page, page = Page(l.src, l.cursor), NEW all, all = l.coins \o page,
         NEW src \in Source, NEW id \in ExportedBy(src, s.exported) \ Imported(l.block),
         \/ src = "P" /\ l.src = "X"
         \/ src = l.src /\ (Len(page) = getUTXOsPageSize => id < page[Len(page)].id)
  PROVE  id \in IdsOf(all)
  <1>1. \A q \in Source : exported[q] \in 0 .. Len(Exports[q])
    BY NodeTyped
  <1>2. /\ page \in Seq(Coin) /\ Len(page) \in Nat
        /\ \A u \in UTXOs(l.src) :
              l.cursor <= u.id /\ (Len(page) = getUTXOsPageSize => u.id < page[Len(page)].id) =>
                  \E k \in 1 .. Len(page) : page[k].id = u.id
    <2>1. PICK p \in Source, c \in Nat : p = l.src /\ c = l.cursor
      OBVIOUS
    <2>2. page = Page(p, c) /\ exported[p] \in 0 .. Len(Exports[p])
      BY <1>1, <2>1
    <2>3. /\ page \in Seq(Coin) /\ Len(page) \in Nat
          /\ \A u \in UTXOs(p) :
                c <= u.id /\ (Len(page) = getUTXOsPageSize => u.id < page[Len(page)].id) =>
                    \E k \in 1 .. Len(page) : page[k].id = u.id
      BY <2>2, PageIs
    <2>4. QED
      BY <2>1, <2>3
  <1>3. IdsOf(all) = IdsOf(l.coins) \cup IdsOf(page)
    <2>1. Joined(l.coins, page, all)
      BY <1>2, Appended
    <2>2. QED
      BY <2>1 DEF Joined
  <1>4. CASE src = "P" /\ l.src = "X"
    BY <1>3, <1>4 DEF Complete
  <1>5. CASE src = l.src /\ (Len(page) = getUTXOsPageSize => id < page[Len(page)].id)
    <2>1. CASE id < l.cursor
      BY <1>3, <1>5, <2>1 DEF Complete
    <2>2. CASE ~(id < l.cursor)
      <3>1. id \in ExportedBy(src, exported) \ Imported(accepted)
        <4>1. PICK i \in 1 .. s.exported[src] : id = Exports[src][i].id
          BY DEF ExportedBy
        <4>2. i \in 1 .. exported[src]
          BY <1>1
        <4>3. QED
          BY <4>1, <4>2 DEF ExportedBy
      <3>2. exported[src] \in 0 .. Len(Exports[src])
        BY <1>1
      <3>3. PICK u \in UTXOs(src) : u.id = id /\ u.id \in Nat
        BY <3>1, <3>2, UTXOsAre
      <3>4. l.cursor <= u.id
        BY <2>2, <3>3
      <3>5. PICK k \in 1 .. Len(page) : page[k].id = u.id
        BY <1>2, <1>5, <3>3, <3>4
      <3>6. id \in IdsOf(page)
        BY <3>3, <3>5 DEF IdsOf
      <3>7. QED
        BY <1>3, <3>6
    <2>3. QED
      BY <2>1, <2>2
  <1>6. QED
    BY <1>4, <1>5

(* What a page has is in shared memory, follows what was read, and is of   *)
(* the chain it was read from.                                             *)
LEMMA PageReads ==
  ASSUME NodeInv, NEW l, Read(l), Paging(l),
         NEW page, page = Page(l.src, l.cursor), NEW k, k.coins = l.coins \o page, k.block = l.block
  PROVE  /\ Read(k)
         /\ l.src = "P" => IdsOf(k.coins) \subseteq SourceIds("P")
         /\ Len(page) = getUTXOsPageSize => /\ page[Len(page)].id \in Nat
                                            /\ BeforeCursor(k.coins, l.src, page[Len(page)].id)
  <1>1. PICK src \in Source, cursor \in Nat, coins \in Seq(Coin) :
            src = l.src /\ cursor = l.cursor /\ coins = l.coins
    BY DEF Read, Paging
  <1>2. exported[src] \in 0 .. Len(Exports[src]) /\ page = Page(src, cursor)
    BY <1>1, NodeTyped
  <1>3. /\ page \in Seq(Coin) /\ Len(page) \in Nat
        /\ \A i \in DOMAIN page : page[i] \in UTXOs(src) /\ cursor <= page[i].id
        /\ \A i, j \in 1 .. Len(page) : i < j => page[i].id < page[j].id
    <2>1. /\ page \in Seq(Coin) /\ Len(page) \in Nat
          /\ \A i \in 1 .. Len(page) : page[i] \in UTXOs(src) /\ cursor <= page[i].id
          /\ \A i, j \in 1 .. Len(page) : i < j => page[i].id < page[j].id
      BY <1>2, PageIs
    <2>2. QED
      BY <2>1
  <1>4. \A i \in 1 .. Len(page) :
            /\ page[i].id \in SourceIds(src) /\ page[i].id \in Nat
            /\ page[i].id \in ExportedBy(src, exported) \ Imported(accepted)
    BY <1>2, <1>3, UTXOsAre
  <1>5. /\ IdsOf(page) \subseteq SourceIds(src)
        /\ IdsOf(page) \subseteq Exported(exported) \ Imported(accepted)
    BY <1>4, ExportedIs DEF IdsOf
  <1>6. RepeatedNext(coins) /\ BeforeCursor(coins, src, cursor)
    BY <1>1 DEF Read, Paging
  <1>7. PICK all : all = k.coins /\ all = coins \o page
    BY <1>1
  <1>8. /\ RepeatedNext(all)
        /\ Len(page) > 1 => BeforeCursor(all, src, page[Len(page)].id)
    <2>1. \A i \in 1 .. Len(page) : cursor <= page[i].id
      BY <1>3
    <2>2. \A i, j \in 1 .. Len(page) : i < j => page[i].id < page[j].id
      BY <1>3
    <2>3. QED
      BY <1>3, <1>5, <1>6, <1>7, <2>1, <2>2, PageOrder
  <1>9. all \in Seq(Coin) /\ IdsOf(all) = IdsOf(coins) \cup IdsOf(page)
    <2>1. Joined(coins, page, all)
      BY <1>3, <1>7, Appended
    <2>2. QED
      BY <2>1 DEF Joined
  <1>10. Read(k)
    BY <1>1, <1>5, <1>7, <1>8, <1>9 DEF Read
  <1>11. l.src = "P" => IdsOf(all) \subseteq SourceIds("P")
    BY <1>1, <1>5, <1>9 DEF Paging
  <1>12. Len(page) = getUTXOsPageSize =>
            page[Len(page)].id \in Nat /\ BeforeCursor(all, src, page[Len(page)].id)
    <2>1. getUTXOsPageSize \in Nat /\ getUTXOsPageSize > 1
      BY ConstantsAssumption
    <2>2. Len(page) = getUTXOsPageSize => Len(page) > 1 /\ Len(page) \in 1 .. Len(page)
      BY <1>3, <2>1
    <2>3. QED
      BY <1>4, <1>8, <2>2
  <1>13. QED
    BY <1>1, <1>7, <1>10, <1>11, <1>12

(* A handler goes on with what it has read. *)
LEMMA ReadsOn ==
  ASSUME IInv, AllCoinsInv, NEW r \in Handlers, NEW from \in CoinLabels, NEW to \in {"utxos", "post"},
         NEW k, At(r, from), Continue(r, to, k),
         k.block \in Nat, k.block <= accepted, Read(k),
         accepted = k.block => Complete(k, since[r], to), to = "utxos" => Paging(k)
  PROVE  AllCoinsInv'
  <1>1. /\ Act(r) /\ pc[r] = from /\ pc'[r] = to /\ local'[r] = k /\ resp'[r] = resp[r]
    BY ContinueAct DEF IInv
  <1>2. CoinsInv(r) /\ since'[r] = since[r] /\ req'[r] = req[r] /\ UNCHANGED <<accepted, exported>>
    BY <1>1 DEF AllCoinsInv, Act
  <1>3. Read(k)' <=> Read(k)
    BY <1>2 DEF Read
  <1>4. Paging(k)' <=> Paging(k)
    BY DEF Paging
  <1>5. Reading(r)'
    <2>1. Complete(local'[r], since'[r], pc'[r]) <=> Complete(k, since[r], to)
      BY <1>1, <1>2
    <2>2. QED
      BY <1>1, <1>2, <1>3, <1>4, <2>1 DEF Reading
  <1>6. CoinsAnswered(r)'
    BY <1>1, <1>2 DEF CoinsInv, CoinsAnswered, Answered
  <1>7. pc'[r] \in CoinLabels <=> (req'[r].kind \in CoinKinds /\ pc'[r] # "done")
    BY <1>1, <1>2 DEF CoinsInv, CoinLabels
  <1>8. \A src \in Source : since'[r].exported[src] \in 0 .. exported'[src]
    BY <1>2 DEF CoinsInv
  <1>9. CoinsInv(r)'
    BY <1>5, <1>6, <1>7, <1>8 DEF CoinsInv
  <1>10. QED
    BY <1>1, <1>2, <1>9, OneMovesCoins, NodeStays DEF Act

LEMMA PreHeaderCoins ==
  ASSUME TypeInv, IInv, AllCoinsInv, NEW r \in Handlers, PreHeader(r)
  PROVE  AllCoinsInv'
  <1> DEFINE k == [NoLocal EXCEPT !.block = accepted]
  <1>1. At(r, "pre") /\ Continue(r, "utxos", k)
    BY DEF PreHeader
  <1>2. k.block = accepted /\ k.coins = <<>> /\ k.src = "P" /\ k.cursor = 0
    BY DEF NoLocal
  <1> HIDE DEF k
  <1>3. accepted \in Nat
    BY DEF IInv, SharedInv
  <1>4. k.coins \in Seq(Coin) /\ Len(k.coins) = 0
    BY <1>2, EmptySeq
  <1>5. IdsOf(k.coins) = {}
    BY <1>4 DEF IdsOf
  <1>6. Read(k)
    BY <1>4, <1>5 DEF Read, RepeatedNext
  <1>7. Paging(k)
    BY <1>2, <1>4, <1>5 DEF Paging, BeforeCursor, Source
  <1>8. Complete(k, since[r], "utxos")
    <2>1. ASSUME NEW src \in Source, NEW id \in ExportedBy(src, since[r].exported), id < 0
          PROVE  FALSE
      <3>1. PICK i \in 1 .. since[r].exported[src] : id = Exports[src][i].id
        BY DEF ExportedBy
      <3>2. since[r].exported[src] \in 0 .. exported[src]
        BY DEF AllCoinsInv, CoinsInv
      <3>3. exported[src] \in 0 .. Len(Exports[src])
        BY NodeTyped DEF TypeInv
      <3>4. Len(Exports[src]) \in Nat /\ DOMAIN Exports[src] = 1 .. Len(Exports[src])
        BY ExportsType
      <3>5. i \in DOMAIN Exports[src]
        BY <3>2, <3>3, <3>4
      <3>6. PICK x \in Nat : x = Exports[src][i].id
        BY <3>5, ExportsType
      <3>7. QED
        BY <2>1, <3>1, <3>6
    <2>2. QED
      BY <1>2, <2>1 DEF Complete
  <1>9. QED
    BY <1>1, <1>2, <1>3, <1>6, <1>7, <1>8, ReadsOn DEF CoinLabels

LEMMA FetchPageCoins ==
  ASSUME TypeInv, IInv, AllCoinsInv, NEW r \in Handlers, FetchPage(r)
  PROVE  AllCoinsInv'
  <1>1. PICK l : l = local[r]
    OBVIOUS
  <1>2. PICK page : page = Page(l.src, l.cursor)
    OBVIOUS
  <1> DEFINE got == [l EXCEPT !.coins = @ \o page]
             more == [got EXCEPT !.cursor = page[Len(page)].id]
             other == [got EXCEPT !.src = "X", !.cursor = 0]
             all == l.coins \o page
  <1>3. At(r, "utxos") /\ pc[r] = "utxos"
    BY DEF FetchPage, At
  <1>4. \/ Len(page) = getUTXOsPageSize /\ Continue(r, "utxos", more)
        \/ Len(page) # getUTXOsPageSize /\ l.src = "P" /\ Continue(r, "utxos", other)
        \/ Len(page) # getUTXOsPageSize /\ l.src # "P" /\ Continue(r, "post", got)
    BY <1>1, <1>2 DEF FetchPage, Last
  <1>5. DOMAIN l = Fields
    BY <1>1, LocalFields
  <1>6. /\ DOMAIN got = Fields
        /\ got.coins = all /\ got.block = l.block /\ got.src = l.src /\ got.cursor = l.cursor
    BY <1>5 DEF Fields
  <1> HIDE DEF got
  <1>7. more.coins = all /\ more.block = l.block /\ more.src = l.src
        /\ more.cursor = page[Len(page)].id
    BY <1>6 DEF Fields
  <1>8. other.coins = all /\ other.block = l.block /\ other.src = "X" /\ other.cursor = 0
    BY <1>6 DEF Fields
  <1> HIDE DEF more, other, all
  <1>9. NodeInv /\ CoinsInv(r) /\ Reading(r)
    BY <1>3 DEF TypeInv, AllCoinsInv, CoinsInv
  <1>10. /\ l.block \in Nat /\ l.block <= accepted /\ Read(l) /\ Paging(l)
         /\ accepted = l.block => Complete(l, since[r], "utxos")
    BY <1>1, <1>3, <1>9 DEF Reading
  <1>11. \A src \in Source : since[r].exported[src] \in 0 .. exported[src]
    BY <1>9 DEF CoinsInv
  <1>12. ASSUME NEW k, k.coins = all, k.block = l.block
         PROVE  /\ Read(k)
                /\ l.src = "P" => IdsOf(k.coins) \subseteq SourceIds("P")
                /\ Len(page) = getUTXOsPageSize =>
                        /\ page[Len(page)].id \in Nat
                        /\ BeforeCursor(k.coins, l.src, page[Len(page)].id)
    BY <1>2, <1>9, <1>10, <1>12, PageReads DEF all
  <1>13. ASSUME accepted = l.block, NEW src \in Source,
                NEW id \in ExportedBy(src, since[r].exported) \ Imported(l.block),
                \/ src = "P" /\ l.src = "X"
                \/ src = l.src /\ (Len(page) = getUTXOsPageSize => id < page[Len(page)].id)
         PROVE  id \in IdsOf(all)
    <2>1. l.coins \in Seq(Coin) /\ l.src \in Source /\ l.cursor \in Nat
      BY <1>10 DEF Read, Paging
    <2>2. PICK s : s = since[r]
      OBVIOUS
    <2>3. /\ \A q \in Source : s.exported[q] \in 0 .. exported[q]
          /\ Complete(l, s, "utxos")
          /\ id \in ExportedBy(src, s.exported) \ Imported(l.block)
      BY <1>10, <1>11, <1>13, <2>2
    <2>4. all = l.coins \o page
      BY DEF all
    <2>5. QED
      BY <1>2, <1>9, <1>13, <2>1, <2>3, <2>4, PageCompletes
  <1>14. CASE Len(page) = getUTXOsPageSize /\ Continue(r, "utxos", more)
    <2>1. Read(more)
      BY <1>7, <1>12
    <2>2. Paging(more)
      BY <1>7, <1>10, <1>12, <1>14 DEF Paging
    <2>3. accepted = more.block => Complete(more, since[r], "utxos")
      BY <1>7, <1>13 DEF Complete
    <2>4. QED
      BY <1>3, <1>7, <1>10, <1>14, <2>1, <2>2, <2>3, ReadsOn DEF CoinLabels
  <1>15. CASE Len(page) # getUTXOsPageSize /\ l.src = "P" /\ Continue(r, "utxos", other)
    <2>1. Read(other)
      BY <1>8, <1>12
    <2>2. Paging(other)
      <3>1. IdsOf(all) \subseteq SourceIds("P")
        BY <1>8, <1>12, <1>15
      <3>2. ASSUME NEW id \in SourceIds("P"), id \in SourceIds("X") PROVE FALSE
        <4>1. PICK i \in DOMAIN Exports["P"] : id = Exports["P"][i].id
          BY DEF SourceIds
        <4>2. PICK j \in DOMAIN Exports["X"] : id = Exports["X"][j].id
          BY <3>2 DEF SourceIds
        <4>3. QED
          BY <4>1, <4>2, ConstantsAssumption DEF Source
      <3>3. \A i \in 1 .. Len(all) : all[i].id \notin SourceIds("X")
        BY <3>1, <3>2 DEF IdsOf
      <3>4. QED
        BY <1>8, <3>3 DEF Paging, BeforeCursor, Source
    <2>3. accepted = other.block => Complete(other, since[r], "utxos")
      <3>1. SUFFICES ASSUME accepted = l.block, NEW src \in Source,
                            NEW id \in ExportedBy(src, since[r].exported) \ Imported(l.block),
                            src = "P" \/ (src = "X" /\ id < 0)
                     PROVE  id \in IdsOf(all)
        BY <1>8 DEF Complete
      <3>2. CASE src = "P"
        BY <1>13, <1>15, <3>1, <3>2
      <3>3. CASE src = "X" /\ id < 0
        <4>1. PICK i \in 1 .. since[r].exported[src] : id = Exports[src][i].id
          BY DEF ExportedBy
        <4>2. exported[src] \in 0 .. Len(Exports[src])
          BY <1>9, NodeTyped
        <4>3. Len(Exports[src]) \in Nat /\ DOMAIN Exports[src] = 1 .. Len(Exports[src])
          BY ExportsType
        <4>4. i \in DOMAIN Exports[src]
          BY <1>11, <4>2, <4>3
        <4>5. PICK x \in Nat : x = Exports[src][i].id
          BY <4>4, ExportsType
        <4>6. QED
          BY <3>3, <4>1, <4>5
      <3>4. QED
        BY <3>1, <3>2, <3>3
    <2>4. QED
      BY <1>3, <1>8, <1>10, <1>15, <2>1, <2>2, <2>3, ReadsOn DEF CoinLabels
  <1>16. CASE Len(page) # getUTXOsPageSize /\ l.src # "P" /\ Continue(r, "post", got)
    <2>1. Read(got)
      BY <1>6, <1>12
    <2>2. l.src = "X"
      BY <1>10, <1>16 DEF Paging, Source
    <2>3. accepted = got.block => Complete(got, since[r], "post")
      <3>1. SUFFICES ASSUME accepted = l.block, NEW src \in Source,
                            NEW id \in ExportedBy(src, since[r].exported) \ Imported(l.block)
                     PROVE  id \in IdsOf(all)
        BY <1>6 DEF Complete
      <3>2. (src = "P" /\ l.src = "X") \/ src = l.src
        BY <2>2 DEF Source
      <3>3. QED
        BY <1>13, <1>16, <3>1, <3>2
    <2>4. QED
      BY <1>3, <1>6, <1>10, <1>16, <2>1, <2>3, ReadsOn DEF CoinLabels
  <1>17. QED
    BY <1>4, <1>14, <1>15, <1>16

(* Sorted, coins are the same UTXOs, and each is listed once. *)
LEMMA SortUniqueIs ==
  ASSUME NEW coins \in Seq(Coin), NEW sorted, sorted = SortUnique(coins)
  PROVE  /\ sorted \in Seq(Coin) /\ IdsOf(sorted) = IdsOf(coins)
         /\ \A i, j \in 1 .. Len(sorted) : i < j => sorted[i].id # sorted[j].id
  <1>1. PICK S : S = Range(coins)
    OBVIOUS
  <1>2. Len(coins) \in Nat /\ DOMAIN coins = 1 .. Len(coins)
        /\ \A i \in 1 .. Len(coins) : coins[i] \in Coin
    OBVIOUS
  <1>3. /\ \A i \in 1 .. Len(coins) : coins[i] \in S
        /\ \A u \in S : \E i \in 1 .. Len(coins) : u = coins[i]
    BY <1>1, <1>2 DEF Range
  <1>4. \A u \in S : u \in Coin /\ u.id \in Nat
    BY <1>2, <1>3, CoinId
  <1>5. IsFiniteSet(S)
    <2>1. coins \in [1 .. Len(coins) -> S]
      BY <1>2, <1>3
    <2>2. coins \in Surjection(1 .. Len(coins), S)
      BY <1>3, <2>1 DEF Surjection
    <2>3. IsFiniteSet(1 .. Len(coins))
      BY <1>2, FS_Interval
    <2>4. QED
      BY <2>2, <2>3, FS_Surjection DEF ExistsSurjection
  <1>6. sorted = ById(S)
    BY <1>1 DEF SortUnique
  <1>7. /\ sorted \in Seq(S)
        /\ \A k \in 1 .. Len(sorted) : sorted[k] \in S
        /\ \A k, l \in 1 .. Len(sorted) : k < l => sorted[k].id < sorted[l].id
        /\ \A u \in S : \E k \in 1 .. Len(sorted) : sorted[k].id = u.id
    <2>1. Sorted(S, sorted)
      BY <1>4, <1>5, <1>6, ByIdSorts
    <2>2. QED
      BY <2>1 DEF Sorted
  <1>8. sorted \in Seq(Coin)
    BY <1>4, <1>7
  <1>9. IdsOf(sorted) = IdsOf(coins)
    <2>1. ASSUME NEW id \in IdsOf(sorted) PROVE id \in IdsOf(coins)
      <3>1. PICK k \in 1 .. Len(sorted) : id = sorted[k].id
        BY DEF IdsOf
      <3>2. PICK i \in 1 .. Len(coins) : sorted[k] = coins[i]
        BY <1>3, <1>7
      <3>3. QED
        BY <3>1, <3>2 DEF IdsOf
    <2>2. ASSUME NEW id \in IdsOf(coins) PROVE id \in IdsOf(sorted)
      <3>1. PICK i \in 1 .. Len(coins) : id = coins[i].id
        BY DEF IdsOf
      <3>2. PICK k \in 1 .. Len(sorted) : sorted[k].id = coins[i].id
        BY <1>3, <1>7
      <3>3. QED
        BY <3>1, <3>2 DEF IdsOf
    <2>3. QED
      BY <2>1, <2>2
  <1>10. ASSUME NEW i \in 1 .. Len(sorted), NEW j \in 1 .. Len(sorted), i < j
         PROVE  sorted[i].id # sorted[j].id
    <2>1. PICK x \in Nat : x = sorted[i].id
      BY <1>4, <1>7
    <2>2. sorted[i].id < sorted[j].id
      BY <1>7, <1>10
    <2>3. QED
      BY <2>1, <2>2
  <1>11. QED
    BY <1>8, <1>9, <1>10

LEMMA PostHeaderCoins ==
  ASSUME TypeInv, IInv, AllCoinsInv, NEW r \in Handlers, PostHeader(r)
  PROVE  AllCoinsInv'
  <1>1. At(r, "post") /\ pc[r] = "post" /\ UNCHANGED local
    BY DEF PostHeader, At, NewBlockReceived
  <1>2. CASE ~SameHeader(r)
    <2>1. Fail(r, "internal")
      BY <1>2 DEF PostHeader, NewBlockReceived
    <2>2. QED
      BY <1>1, <2>1, FailCoins
  <1>3. CASE SameHeader(r)
    <2>1. PICK coins : coins = IF req[r].kind = "coins" THEN SortUnique(local[r].coins)
                               ELSE local[r].coins
      OBVIOUS
    <2> DEFINE a == [Ok EXCEPT !.block = accepted, !.coins = coins]
    <2>2. Reply(r, a)
      BY <1>3, <2>1 DEF PostHeader
    <2>3. a.block = accepted /\ a.coins = coins
      BY DEF Ok, NoResp
    <2> HIDE DEF a
    <2>4. CoinsInv(r) /\ Reading(r)
      BY <1>1 DEF AllCoinsInv, CoinsInv
    <2>5. PICK l : l = local[r]
      OBVIOUS
    <2>6. /\ l.coins \in Seq(Coin) /\ RepeatedNext(l.coins)
          /\ IdsOf(l.coins) \subseteq Exported(exported)
          /\ IdsOf(l.coins) \cap Imported(accepted) = {}
          /\ \A src \in Source : \A id \in ExportedBy(src, since[r].exported) \ Imported(accepted) :
                id \in IdsOf(l.coins)
      BY <1>1, <1>3, <2>4, <2>5 DEF Reading, Read, Complete, SameHeader
    <2>7. Exported(since[r].exported) \ Imported(accepted) \subseteq IdsOf(l.coins)
      BY <2>6, ExportedIs
    <2>8. /\ coins \in Seq(Coin) /\ IdsOf(coins) = IdsOf(l.coins) /\ RepeatedNext(coins)
          /\ req[r].kind = "coins" =>
                \A i, j \in 1 .. Len(coins) : i < j => coins[i].id # coins[j].id
      <3>1. CASE req[r].kind = "coins"
        <4>1. /\ coins \in Seq(Coin) /\ IdsOf(coins) = IdsOf(l.coins)
              /\ \A i, j \in 1 .. Len(coins) : i < j => coins[i].id # coins[j].id
          BY <2>1, <2>5, <2>6, <3>1, SortUniqueIs
        <4>2. RepeatedNext(coins)
          BY <4>1 DEF RepeatedNext
        <4>3. QED
          BY <4>1, <4>2
      <3>2. CASE req[r].kind # "coins"
        BY <2>1, <2>5, <2>6, <3>2
      <3>3. QED
        BY <3>1, <3>2
    <2>9. /\ Act(r) /\ pc'[r] = "done" /\ resp'[r] = a
      BY <1>1, <2>2, ReplyAct DEF IInv
    <2>10. req'[r] = req[r] /\ since'[r] = since[r] /\ UNCHANGED <<accepted, exported>>
      BY <2>9 DEF Act
    <2>11. CoinsAnswered(r)'
      <3>1. resp'[r].coins = coins /\ resp'[r].block = accepted
        BY <2>3, <2>9
      <3>2. QED
        BY <2>6, <2>7, <2>8, <2>10, <3>1 DEF CoinsAnswered
    <2>12. CoinsInv(r)'
      BY <2>4, <2>9, <2>10, <2>11 DEF CoinsInv, CoinLabels
    <2>13. QED
      BY <2>9, <2>10, <2>12, OneMovesCoins, NodeStays DEF Act
  <1>4. QED
    BY <1>2, <1>3

LEMMA NodeStepCoins ==
  ASSUME AllCoinsInv, NodeGrows, UNCHANGED <<pc, req, since, local, resp>>
  PROVE  AllCoinsInv'
  <1>1. ASSUME NEW q \in Handlers PROVE CoinsInv(q)'
    BY CoinsStay DEF AllCoinsInv, Still
  <1>2. QED
    BY <1>1 DEF AllCoinsInv

LEMMA NextCoinsInv == IInv /\ TypeInv /\ AllCoinsInv /\ [Next]_vars => AllCoinsInv'
  <1> SUFFICES ASSUME IInv, TypeInv, AllCoinsInv, [Next]_vars PROVE AllCoinsInv'
    OBVIOUS
  <1>1. SharedInv
    BY DEF IInv
  <1>2. ASSUME NEW r \in Handlers, NEW q \in session.requests[r], Receive(r, q) PROVE AllCoinsInv'
    BY <1>2, ReceiveCoins
  <1>3. ASSUME NEW r \in Handlers, Serve(r) PROVE AllCoinsInv'
    BY <1>3, BlockCoins, AccountBalanceCoins, PreHeaderCoins, FetchPageCoins, PostHeaderCoins,
       NetworkStatusCoins, OneReplyCoins, FinishCoins
    DEF Serve, getAccountCoins
  <1>4. ASSUME NEW r \in Handlers, RPCError(r) PROVE AllCoinsInv'
    BY <1>4, RPCErrorCoins
  <1>5. CASE AcceptBlock
    <2>1. NodeGrows
      BY <1>1, <1>5 DEF AcceptBlock, SharedInv, NodeGrows
    <2>2. QED
      BY <1>5, <2>1, NodeStepCoins DEF AcceptBlock
  <1>6. ASSUME NEW chain \in {"C", "X", "P"}, FinishBootstrap(chain) PROVE AllCoinsInv'
    <2>1. NodeGrows
      BY <1>1, <1>6 DEF FinishBootstrap, SharedInv, NodeGrows
    <2>2. QED
      BY <1>6, <2>1, NodeStepCoins DEF FinishBootstrap
  <1>7. ASSUME NEW src \in Source, Export(src) PROVE AllCoinsInv'
    <2>1. exported' = [exported EXCEPT ![src] = @ + 1] /\ exported \in [Source -> Nat]
          /\ accepted' = accepted /\ accepted \in Nat
      BY <1>1, <1>7 DEF Export, SharedInv
    <2>2. \A s \in Source : exported[s] \in Nat /\ exported'[s] \in Nat /\ exported[s] <= exported'[s]
      BY <2>1
    <2>3. NodeGrows
      BY <2>1, <2>2 DEF NodeGrows
    <2>4. QED
      BY <1>7, <2>3, NodeStepCoins DEF Export
  <1>8. CASE UNCHANGED vars
    <2>1. NodeGrows
      BY <1>1, <1>8 DEF vars, nodeVars, SharedInv, NodeGrows
    <2>2. QED
      BY <1>8, <2>1, NodeStepCoins DEF vars
  <1>9. QED
    BY <1>2, <1>3, <1>4, <1>5, <1>6, <1>7, <1>8 DEF Next

LEMMA InitCoinsInv == Init => AllCoinsInv
  <1> SUFFICES ASSUME Init, NEW r \in Handlers PROVE CoinsInv(r)
    BY DEF AllCoinsInv
  <1>1. pc[r] = "idle" /\ req[r].kind = "mempool" /\ since[r] = NoSince /\ resp[r].status = "none"
    BY DEF Init, NoReq, NoResp
  <1>2. SharedInv
    BY InitIInv DEF IInv
  <1>3. \A src \in Source : since[r].exported[src] \in 0 .. exported[src]
    BY <1>1, <1>2 DEF SharedInv, NoSince
  <1>4. CoinsAnswered(r)
    BY <1>1 DEF CoinsAnswered, Answered
  <1>5. QED
    BY <1>1, <1>3, <1>4 DEF CoinsInv, CoinLabels, CoinKinds

LEMMA CoinsInvCoins == AllCoinsInv => CoinsOfTheirBlock
  <1> SUFFICES ASSUME AllCoinsInv, NEW r \in Handlers, Answered(r, {"coins", "atomic"})
      PROVE  /\ {coin.id : coin \in Range(resp[r].coins)} \cap Imported(resp[r].block) = {}
             /\ Exported(since[r].exported) \ Imported(resp[r].block)
                    \subseteq {coin.id : coin \in Range(resp[r].coins)}
             /\ {coin.id : coin \in Range(resp[r].coins)} \subseteq Exported(exported)
             /\ \A i, j \in DOMAIN resp[r].coins :
                  i < j /\ resp[r].coins[i].id = resp[r].coins[j].id =>
                      req[r].kind = "atomic" /\ j = i + 1
    BY DEF CoinsOfTheirBlock
  <1>1. PICK coins : coins = resp[r].coins
    OBVIOUS
  <1>2. /\ coins \in Seq(Coin)
        /\ IdsOf(coins) \cap Imported(resp[r].block) = {}
        /\ Exported(since[r].exported) \ Imported(resp[r].block) \subseteq IdsOf(coins)
        /\ IdsOf(coins) \subseteq Exported(exported)
        /\ RepeatedNext(coins)
        /\ req[r].kind = "coins" =>
            \A i, j \in 1 .. Len(coins) : i < j => coins[i].id # coins[j].id
    BY <1>1 DEF AllCoinsInv, CoinsInv, CoinsAnswered, CoinKinds
  <1>3. DOMAIN coins = 1 .. Len(coins)
    BY <1>2
  <1>4. {coin.id : coin \in Range(coins)} = IdsOf(coins)
    BY <1>3 DEF Range, IdsOf
  <1>5. \A i, j \in DOMAIN coins :
          i < j /\ coins[i].id = coins[j].id => req[r].kind = "atomic" /\ j = i + 1
    BY <1>2, <1>3 DEF RepeatedNext, Answered
  <1>6. QED
    BY <1>1, <1>2, <1>4, <1>5

-----------------------------------------------------------------------------
LEMMA CoinsInvHolds == Spec => [](IInv /\ TypeInv /\ AllCoinsInv)
  <1>1. IInv /\ TypeInv /\ AllCoinsInv /\ [Next]_vars => (IInv /\ TypeInv /\ AllCoinsInv)'
    BY NextIInv, NextTypeInv, NextCoinsInv
  <1>2. QED
    BY InitIInv, InitTypeInv, InitCoinsInv, <1>1, PTL DEF Spec

(* The coins and the balance of a Bech32 address are those at the block    *)
(* they name: no UTXO that was imported up to it, every other one that was *)
(* exported when the request arrived, and no other counted twice than the  *)
(* one a page repeats, however many pages there are and blocks are         *)
(* accepted between them.                                                  *)
THEOREM CoinsCorrect == Spec => []CoinsOfTheirBlock
  BY CoinsInvHolds, CoinsInvCoins, PTL

-----------------------------------------------------------------------------
(* The operations: the blocks of the chain *)

LEMMA TxsAre ==
  /\ \A n \in 1 .. Len(Chain) :
        /\ DOMAIN Chain[n].txs = 1 .. Len(Chain[n].txs) /\ Len(Chain[n].txs) \in Nat
        /\ \A i \in 1 .. Len(Chain[n].txs) : Chain[n].txs[i] \in Txs
        /\ DOMAIN Chain[n].atomic = 1 .. Len(Chain[n].atomic) /\ Len(Chain[n].atomic) \in Nat
        /\ \A i \in 1 .. Len(Chain[n].atomic) :
            /\ Chain[n].atomic[i].type \in {"IMPORT", "EXPORT"}
            /\ HasAmounts(Chain[n].atomic[i].ins) /\ HasAmounts(Chain[n].atomic[i].outs)
  /\ \A tx \in Txs : /\ tx.id \in TxIds /\ TxOf(tx.id) = tx
                     /\ tx.logs \in Seq(EventLog) /\ HasPrice(tx)
  /\ \A id \in TxIds : TxOf(id) \in Txs /\ TxOf(id).id = id
  <1>1. PICK B : B = {block \in Range(Chain) : WellFormed(block)}
    OBVIOUS
  <1>2. Chain \in Seq(B) /\ \A b \in B : WellFormed(b)
    BY <1>1, ConstantsAssumption
  <1>3. /\ Len(Chain) \in Nat /\ DOMAIN Chain = 1 .. Len(Chain)
        /\ \A n \in 1 .. Len(Chain) : WellFormed(Chain[n])
    BY <1>2
  <1>4. ASSUME NEW n \in 1 .. Len(Chain)
        PROVE  /\ DOMAIN Chain[n].txs = 1 .. Len(Chain[n].txs) /\ Len(Chain[n].txs) \in Nat
               /\ \A i \in 1 .. Len(Chain[n].txs) : Chain[n].txs[i] \in Txs
    <2>1. PICK txs : txs = Chain[n].txs
      OBVIOUS
    <2>2. PICK T : T = {tx \in Range(txs) :
                            tx.id \in Nat /\ tx.logs \in Seq(EventLog) /\ HasPrice(tx)}
      OBVIOUS
    <2>3. txs \in Seq(T)
      BY <1>3, <2>1, <2>2 DEF WellFormed
    <2>4. DOMAIN txs = 1 .. Len(txs) /\ Len(txs) \in Nat /\ \A i \in 1 .. Len(txs) : txs[i] \in T
      BY <2>3
    <2>5. \A i \in 1 .. Len(txs) : txs[i] \in Txs
      BY <1>3, <2>1, <2>2, <2>4 DEF Txs
    <2>6. QED
      BY <2>1, <2>4, <2>5
  <1>5. ASSUME NEW n \in 1 .. Len(Chain)
        PROVE  /\ DOMAIN Chain[n].atomic = 1 .. Len(Chain[n].atomic) /\ Len(Chain[n].atomic) \in Nat
               /\ \A i \in 1 .. Len(Chain[n].atomic) :
                   /\ Chain[n].atomic[i].type \in {"IMPORT", "EXPORT"}
                   /\ HasAmounts(Chain[n].atomic[i].ins) /\ HasAmounts(Chain[n].atomic[i].outs)
    <2>1. PICK s : s = Chain[n].atomic
      OBVIOUS
    <2>2. PICK T : T = {tx \in Range(s) :
            tx.type \in {"IMPORT", "EXPORT"} /\ HasAmounts(tx.ins) /\ HasAmounts(tx.outs)}
      OBVIOUS
    <2>3. s \in Seq(T)
      BY <1>3, <2>1, <2>2 DEF WellFormed
    <2>4. DOMAIN s = 1 .. Len(s) /\ Len(s) \in Nat /\ \A i \in 1 .. Len(s) : s[i] \in T
      BY <2>3
    <2>5. QED
      BY <2>1, <2>2, <2>4
  <1>6. \A tx \in Txs : tx.id \in TxIds
    BY DEF TxIds
  <1>7. ASSUME NEW id \in TxIds PROVE TxOf(id) \in Txs /\ TxOf(id).id = id
    <2>1. \E tx \in Txs : tx.id = id
      BY DEF TxIds
    <2>2. QED
      BY <2>1 DEF TxOf
  <1>8. ASSUME NEW tx \in Txs PROVE TxOf(tx.id) = tx
    BY <1>6, <1>7, ChainAssumption
  <1>9. ASSUME NEW tx \in Txs PROVE HasPrice(tx)
    <2>1. PICK n \in 1 .. Len(Chain) : tx \in Range(Chain[n].txs)
      BY <1>3 DEF Txs
    <2>2. PICK txs : txs = Chain[n].txs
      OBVIOUS
    <2>3. PICK i \in DOMAIN txs : tx = txs[i]
      BY <2>1, <2>2 DEF Range
    <2>4. PICK T : T = {t \in Range(txs) : t.id \in Nat /\ t.logs \in Seq(EventLog) /\ HasPrice(t)}
      OBVIOUS
    <2>5. txs \in Seq(T)
      BY <1>3, <2>2, <2>4 DEF WellFormed
    <2>6. tx \in T
      BY <2>3, <2>5
    <2>7. QED
      BY <2>4, <2>6
  <1>10. QED
    BY <1>4, <1>5, <1>6, <1>7, <1>8, <1>9, ChainType

LEMMA Zero == zeroAddress \notin Account /\ zeroAddress \notin Token
  BY ConstantsAssumption

(* Currencies: the one of a token is none of the two others. *)
LEMMA CurrenciesAre ==
  /\ FlareCurrency \in OpCurrency /\ NoCurrency \in OpCurrency /\ FlareCurrency # NoCurrency
  /\ FlareCurrency.contract = zeroAddress /\ NoCurrency.contract = zeroAddress
  /\ \A symbol \in Symbols : \A decimals \in Nat : \A token \in Token :
        /\ ToCurrency(symbol, decimals, token) \in OpCurrency
        /\ ToCurrency(symbol, decimals, token).contract = token
  <1>1. FlareCurrency = [symbol |-> "FLR", decimals |-> 18, contract |-> zeroAddress]
    BY DEF FlareCurrency, ToCurrency
  <1>2. NoCurrency = [symbol |-> "", decimals |-> 0, contract |-> zeroAddress]
    BY DEF NoCurrency, ToCurrency
  <1>3. FlareCurrency.decimals = 18 /\ NoCurrency.decimals = 0
    BY <1>1, <1>2
  <1>4. FlareCurrency # NoCurrency
    BY <1>3
  <1>5. \A symbol \in Symbols : \A decimals \in Nat : \A token \in Token :
          /\ ToCurrency(symbol, decimals, token) \in OpCurrency
          /\ ToCurrency(symbol, decimals, token).contract = token
    BY DEF ToCurrency, OpCurrency
  <1>6. FlareCurrency \in OpCurrency /\ NoCurrency \in OpCurrency
    <2>1. "" \in Symbols
      BY DEF Symbols
    <2>2. QED
      BY <1>1, <1>2, <2>1 DEF OpCurrency
  <1>7. QED
    BY <1>1, <1>2, <1>4, <1>5, <1>6

LEMMA NamedIs ==
  ASSUME NEW token \in Token
  PROVE  /\ Info[token].decimals \in Nat
         /\ Named(token) \in OpCurrency /\ Named(token).contract = token
         /\ Named(token) # FlareCurrency /\ Named(token) # NoCurrency
         /\ KnownSymbol(token) \in Symbols
  <1>1. Info[token].symbol \in Symbols /\ Info[token].decimals \in Nat
    BY ConstantsAssumption DEF Symbols
  <1>2. PICK symbol : symbol = IF Info[token].symbol = "" THEN UnknownERC20Symbol ELSE Info[token].symbol
    OBVIOUS
  <1>3. symbol \in Symbols
    BY <1>1, <1>2 DEF Symbols
  <1>4. Named(token) = ToCurrency(symbol, Info[token].decimals, token)
    BY <1>2 DEF Named
  <1>5. KnownSymbol(token) \in Symbols
    BY <1>1 DEF KnownSymbol, UnknownSymbol, Symbols
  <1>6. Named(token) \in OpCurrency /\ Named(token).contract = token
    BY <1>1, <1>3, <1>4, CurrenciesAre
  <1>7. QED
    BY <1>1, <1>5, <1>6, Zero, CurrenciesAre

-----------------------------------------------------------------------------
(* The operations: what they add up to *)

LEMMA AddsType ==
  ASSUME NEW os \in Seq(AnyOp), NEW acct, NEW cur
  PROVE  /\ Adding(os, acct, cur) \in Seq(Int) /\ Len(Adding(os, acct, cur)) = Len(os)
         /\ \A n \in 1 .. Len(os) : Adding(os, acct, cur)[n] = Adds(os[n], acct, cur)
  <1>1. Len(os) \in Nat /\ DOMAIN os = 1 .. Len(os) /\ \A n \in 1 .. Len(os) : os[n] \in AnyOp
    OBVIOUS
  <1>2. \A n \in 1 .. Len(os) : Adds(os[n], acct, cur) \in Int
    BY <1>1 DEF Adds, AnyOp
  <1>3. Adding(os, acct, cur) = [n \in 1 .. Len(os) |-> Adds(os[n], acct, cur)]
    BY <1>1 DEF Adding
  <1>4. QED
    BY <1>1, <1>2, <1>3

LEMMA AppliedEmpty ==
  ASSUME NEW acct, NEW cur PROVE Applied(<<>>, acct, cur) = 0
  <1>1. Adding(<<>>, acct, cur) = <<>>
    BY DEF Adding
  <1>2. QED
    BY <1>1, TotalEmpty DEF Applied

LEMMA AppliedType ==
  ASSUME NEW os \in Seq(AnyOp), NEW acct, NEW cur PROVE Applied(os, acct, cur) \in Int
  BY AddsType, TotalType DEF Applied

LEMMA AppliedConcat ==
  ASSUME NEW os \in Seq(AnyOp), NEW ps \in Seq(AnyOp), NEW acct, NEW cur
  PROVE  Applied(os \o ps, acct, cur) = Applied(os, acct, cur) + Applied(ps, acct, cur)
  <1>1. PICK a, b, c : /\ a = Adding(os, acct, cur) /\ b = Adding(ps, acct, cur)
                       /\ c = Adding(os \o ps, acct, cur)
    OBVIOUS
  <1>2. PICK both : both = os \o ps
    OBVIOUS
  <1>3. /\ both \in Seq(AnyOp) /\ Len(both) = Len(os) + Len(ps)
        /\ \A n \in 1 .. Len(os) + Len(ps) : both[n] = IF n <= Len(os) THEN os[n] ELSE ps[n - Len(os)]
    BY <1>2, ConcatProperties
  <1>4. a \in Seq(Int) /\ Len(a) = Len(os) /\ \A n \in 1 .. Len(os) : a[n] = Adds(os[n], acct, cur)
    BY <1>1, AddsType
  <1>5. b \in Seq(Int) /\ Len(b) = Len(ps) /\ \A n \in 1 .. Len(ps) : b[n] = Adds(ps[n], acct, cur)
    BY <1>1, AddsType
  <1>6. /\ c \in Seq(Int) /\ Len(c) = Len(both)
        /\ \A n \in 1 .. Len(both) : c[n] = Adds(both[n], acct, cur)
    <2>1. c = Adding(both, acct, cur)
      BY <1>1, <1>2
    <2>2. both \in Seq(AnyOp)
      BY <1>3
    <2>3. QED
      BY <2>1, <2>2, AddsType
  <1>7. Len(os) \in Nat /\ Len(ps) \in Nat
    OBVIOUS
  <1>8. ASSUME NEW n \in 1 .. Len(a) PROVE c[n] = a[n]
    <2>1. n \in 1 .. Len(both) /\ n \in 1 .. Len(os) /\ both[n] = os[n]
      BY <1>3, <1>4, <1>7
    <2>2. QED
      BY <1>4, <1>6, <2>1
  <1>9. ASSUME NEW n \in 1 .. Len(b) PROVE c[Len(a) + n] = b[n]
    <2>1. PICK i : i = Len(os) + n
      OBVIOUS
    <2>2. i \in 1 .. Len(both) /\ n \in 1 .. Len(ps) /\ i - Len(os) = n /\ ~(i <= Len(os))
      BY <1>3, <1>5, <1>7, <2>1
    <2>3. both[i] = ps[n]
      BY <1>3, <2>2
    <2>4. QED
      BY <1>4, <1>5, <1>6, <2>1, <2>2, <2>3
  <1>10. c = a \o b
    <2>1. Len(c) = Len(a) + Len(b)
      BY <1>3, <1>4, <1>5, <1>6
    <2>2. QED
      BY <1>4, <1>5, <1>6, <1>8, <1>9, <2>1, ConcatIs
  <1>11. TotalOf(c) = TotalOf(a) + TotalOf(b)
    BY <1>4, <1>5, <1>10, TotalConcat
  <1>12. QED
    BY <1>1, <1>11 DEF Applied

LEMMA AppliedOne ==
  ASSUME NEW op \in AnyOp, NEW acct, NEW cur PROVE Applied(<<op>>, acct, cur) = Adds(op, acct, cur)
  <1>1. Adding(<<op>>, acct, cur) = <<Adds(op, acct, cur)>>
    BY DEF Adding
  <1>2. Adds(op, acct, cur) \in Int
    BY DEF Adds, AnyOp
  <1>3. QED
    BY <1>1, <1>2, TotalOne DEF Applied

LEMMA AppliedTwo ==
  ASSUME NEW op \in AnyOp, NEW other \in AnyOp, NEW acct, NEW cur
  PROVE  Applied(<<op, other>>, acct, cur) = Adds(op, acct, cur) + Adds(other, acct, cur)
  <1>1. Adding(<<op, other>>, acct, cur) = <<Adds(op, acct, cur), Adds(other, acct, cur)>>
    BY DEF Adding
  <1>2. Adds(op, acct, cur) \in Int /\ Adds(other, acct, cur) \in Int
    BY DEF Adds, AnyOp
  <1>3. QED
    BY <1>1, <1>2, TotalTwo DEF Applied

(* Operations of which none is of a currency add nothing to it. *)
LEMMA AppliedNothing ==
  ASSUME NEW os \in Seq(AnyOp), NEW acct, NEW cur, \A i \in 1 .. Len(os) : os[i].cur # cur
  PROVE  Applied(os, acct, cur) = 0
  <1>1. PICK s : s = Adding(os, acct, cur)
    OBVIOUS
  <1>2. s \in Seq(Int) /\ Len(s) = Len(os)
    BY <1>1, AddsType
  <1>3. \A n \in 1 .. Len(s) : s[n] = 0 * s[n]
    <2>1. \A n \in 1 .. Len(os) : s[n] = Adds(os[n], acct, cur)
      BY <1>1, AddsType
    <2>2. \A n \in 1 .. Len(os) : s[n] = 0
      BY <2>1 DEF Adds
    <2>3. QED
      BY <1>2, <2>2
  <1>4. TotalOf(s) = 0 * TotalOf(s) /\ TotalOf(s) \in Int
    BY <1>2, <1>3, TotalScaled, TotalType
  <1>5. QED
    BY <1>1, <1>4 DEF Applied

LEMMA FlareOpsAre == \A os \in Seq(FlareOp) : os \in Seq(AnyOp)
  <1>1. FlareOp \subseteq AnyOp
    BY CurrenciesAre DEF FlareOp, AnyOp
  <1>2. QED
    BY <1>1

-----------------------------------------------------------------------------
(* The operations: what logs move *)

MovesIn(logs, token, acct) == [n \in DOMAIN logs |-> TokenMove(logs[n], token, acct)]

LEMMA MovesType ==
  ASSUME NEW logs \in Seq(EventLog), NEW token, NEW acct
  PROVE  /\ MovesIn(logs, token, acct) \in Seq(Int)
         /\ Len(MovesIn(logs, token, acct)) = Len(logs)
         /\ TokenMoves(logs, token, acct) = TotalOf(MovesIn(logs, token, acct))
         /\ TokenMoves(logs, token, acct) \in Int
  <1>1. Len(logs) \in Nat /\ DOMAIN logs = 1 .. Len(logs) /\ \A n \in 1 .. Len(logs) : logs[n] \in EventLog
    OBVIOUS
  <1>2. \A log \in EventLog : TokenMove(log, token, acct) \in Int
    BY DEF EventLog, TokenMove
  <1>3. MovesIn(logs, token, acct) = [n \in 1 .. Len(logs) |-> TokenMove(logs[n], token, acct)]
    BY <1>1 DEF MovesIn
  <1>4. MovesIn(logs, token, acct) \in Seq(Int) /\ Len(MovesIn(logs, token, acct)) = Len(logs)
    BY <1>1, <1>2, <1>3
  <1>5. TokenMoves(logs, token, acct) = TotalOf(MovesIn(logs, token, acct))
    BY DEF TokenMoves, MovesIn
  <1>6. QED
    BY <1>4, <1>5, TotalType

LEMMA MovesEmpty == ASSUME NEW token, NEW acct PROVE TokenMoves(<<>>, token, acct) = 0
  <1>1. MovesIn(<<>>, token, acct) = <<>>
    BY DEF MovesIn
  <1>2. QED
    BY <1>1, TotalEmpty DEF TokenMoves, MovesIn

LEMMA MovesTail ==
  ASSUME NEW logs \in Seq(EventLog), logs # <<>>, NEW token, NEW acct
  PROVE  /\ TokenMoves(logs, token, acct) = TokenMove(Head(logs), token, acct)
                                            + TokenMoves(Tail(logs), token, acct)
         /\ TokenMove(Head(logs), token, acct) \in Int
  <1>1. /\ Len(logs) \in Nat /\ Len(logs) >= 1 /\ DOMAIN logs = 1 .. Len(logs)
        /\ Head(logs) = logs[1] /\ Head(logs) \in EventLog
    OBVIOUS
  <1>0. PICK t : t = Tail(logs)
    OBVIOUS
  <1>2. t \in Seq(EventLog) /\ Len(t) = Len(logs) - 1 /\ \A n \in 1 .. Len(t) : t[n] = logs[n + 1]
    BY <1>1, <1>0
  <1>3. PICK s : s = MovesIn(logs, token, acct)
    OBVIOUS
  <1>4. PICK u : u = MovesIn(t, token, acct)
    OBVIOUS
  <1>5. /\ s \in Seq(Int) /\ Len(s) = Len(logs) /\ TokenMoves(logs, token, acct) = TotalOf(s)
        /\ u \in Seq(Int) /\ Len(u) = Len(t) /\ TokenMoves(t, token, acct) = TotalOf(u)
    BY <1>2, <1>3, <1>4, MovesType
  <1>6. s # <<>> /\ s[1] = TokenMove(Head(logs), token, acct)
    BY <1>1, <1>3, <1>5 DEF MovesIn
  <1>7. u = Tail(s)
    <2>0. PICK v : v = Tail(s)
      OBVIOUS
    <2>1. v \in Seq(Int) /\ Len(v) = Len(s) - 1 /\ \A n \in 1 .. Len(v) : v[n] = s[n + 1]
      BY <1>1, <1>5, <2>0
    <2>2. ASSUME NEW n \in 1 .. Len(v) PROVE u[n] = v[n]
      <3>1. n \in 1 .. Len(t) /\ n + 1 \in 1 .. Len(logs) /\ n \in DOMAIN t
        BY <1>1, <1>2, <1>5, <2>1
      <3>2. u[n] = TokenMove(t[n], token, acct) /\ s[n + 1] = TokenMove(logs[n + 1], token, acct)
        BY <1>1, <1>3, <1>4, <3>1 DEF MovesIn
      <3>3. QED
        BY <1>2, <2>1, <3>1, <3>2
    <2>3. Len(u) = Len(v)
      BY <1>2, <1>5, <2>1
    <2>4. QED
      BY <1>5, <2>0, <2>1, <2>2, <2>3, SeqEqual
  <1>8. TotalOf(s) = s[1] + TotalOf(Tail(s))
    BY <1>5, <1>6, TotalTail
  <1>9. s[1] \in Int
    BY <1>1, <1>5
  <1>10. QED
    BY <1>0, <1>5, <1>6, <1>7, <1>8, <1>9

(* The logs of a token that are left out move nothing, unless the token is *)
(* not listed.                                                             *)
KeptLogs(logs) == Where(logs, LAMBDA log : Selected(log, isAnalyticsMode, TokenWhiteList))

LEMMA KeptLogsAre ==
  ASSUME NEW logs \in Seq(EventLog)
  PROVE  /\ KeptLogs(logs) \in Seq(EventLog)
         /\ \A j \in DOMAIN KeptLogs(logs) :
                /\ Selected(KeptLogs(logs)[j], isAnalyticsMode, TokenWhiteList)
                /\ \E i \in DOMAIN logs : KeptLogs(logs)[j] = logs[i]
         /\ \A token : isAnalyticsMode \/ token \in TokenWhiteList =>
                \A acct : TokenMoves(KeptLogs(logs), token, acct) = TokenMoves(logs, token, acct)
  <1> DEFINE P == {i \in DOMAIN logs : Selected(logs[i], isAnalyticsMode, TokenWhiteList)}
  <1>1. KeptLogs(logs) = [k \in DOMAIN Increasing(P) |-> logs[Increasing(P)[k]]]
    BY DEF KeptLogs, Where, Positions
  <1>2. Len(logs) \in Nat /\ DOMAIN logs = 1 .. Len(logs) /\ P \in SUBSET (1 .. Len(logs))
        /\ P \in SUBSET DOMAIN logs
    OBVIOUS
  <1>3. \A i \in P : Selected(logs[i], isAnalyticsMode, TokenWhiteList)
    OBVIOUS
  <1>4. \A i \in DOMAIN logs : i \notin P => ~Selected(logs[i], isAnalyticsMode, TokenWhiteList)
    OBVIOUS
  <1> HIDE DEF P
  <1>5. PICK kept \in Seq(EventLog) :
            /\ kept = [k \in DOMAIN Increasing(P) |-> logs[Increasing(P)[k]]]
            /\ \A k \in DOMAIN kept : Increasing(P)[k] \in P /\ kept[k] = logs[Increasing(P)[k]]
    <2>1. P \in SUBSET DOMAIN logs
      BY <1>2
    <2>2. QED
      BY <2>1, KeptSequence
  <1>6. \A j \in DOMAIN kept : /\ Selected(kept[j], isAnalyticsMode, TokenWhiteList)
                               /\ \E i \in DOMAIN logs : kept[j] = logs[i]
    BY <1>2, <1>3, <1>5
  <1>7. ASSUME NEW token, isAnalyticsMode \/ token \in TokenWhiteList, NEW acct
        PROVE  TokenMoves(kept, token, acct) = TokenMoves(logs, token, acct)
    <2>1. PICK F : F = MovesIn(logs, token, acct)
      OBVIOUS
    <2>2. F \in [1 .. Len(logs) -> Int] /\ TokenMoves(logs, token, acct) = TotalOf(F)
      BY <1>2, <2>1, MovesType
    <2>3. ASSUME NEW i \in 1 .. Len(logs), i \notin P PROVE F[i] = 0
      <3>1. F[i] = TokenMove(logs[i], token, acct) /\ ~Selected(logs[i], isAnalyticsMode, TokenWhiteList)
        BY <1>2, <1>4, <2>1, <2>3 DEF MovesIn
      <3>2. ~logs[i].transfer \/ logs[i].token # token \/ logs[i].topics # 3
        BY <1>7, <3>1 DEF Selected
      <3>3. QED
        BY <3>1, <3>2 DEF TokenMove
    <2>4. F = [i \in 1 .. Len(logs) |-> IF i \in P THEN F[i] ELSE 0]
      BY <2>2, <2>3
    <2>5. MovesIn(kept, token, acct) = [k \in DOMAIN Increasing(P) |-> F[Increasing(P)[k]]]
      <3>1. DOMAIN kept = DOMAIN Increasing(P)
        BY <1>5
      <3>2. ASSUME NEW k \in DOMAIN kept
            PROVE  TokenMove(kept[k], token, acct) = F[Increasing(P)[k]]
        <4>1. Increasing(P)[k] \in DOMAIN logs /\ kept[k] = logs[Increasing(P)[k]]
          BY <1>2, <1>5
        <4>2. QED
          BY <2>1, <4>1 DEF MovesIn
      <3>3. QED
        BY <3>1, <3>2 DEF MovesIn
    <2>6. TotalOf([k \in DOMAIN Increasing(P) |-> F[Increasing(P)[k]]])
            = TotalOf([i \in 1 .. Len(logs) |-> IF i \in P THEN F[i] ELSE 0])
      BY <1>2, <2>2, TotalKept
    <2>7. TokenMoves(kept, token, acct) = TotalOf(MovesIn(kept, token, acct))
      BY MovesType
    <2>8. QED
      BY <2>2, <2>4, <2>5, <2>6, <2>7
  <1>8. KeptLogs(logs) = kept
    BY <1>1, <1>5
  <1>9. QED
    BY <1>6, <1>7, <1>8

(* One log: it is mapped to at most two operations, which move what it     *)
(* moves in the currency they are given.                                   *)
Party == Account \cup {zeroAddress}
Gives(op, acct, cur, val) == \A x, c : Adds(op, x, c) = IF acct = x /\ cur = c THEN val ELSE 0

LEMMA TokenOpIs ==
  ASSUME NEW index \in Nat, NEW type \in MappedTypes, NEW acct \in Party,
         NEW val \in Int, NEW cur \in OpCurrency, NEW related \in Int, NEW op,
         op = TokenOp(index, type, acct, val, cur, related)
  PROVE  op \in AnyOp /\ op.index = index /\ op.cur = cur /\ Gives(op, acct, cur, val)
  <1>1. PICK o : o = Op(index, type, acct, val, TRUE, related)
    OBVIOUS
  <1>2. o = [index |-> index, type |-> type, acct |-> acct, val |-> val, cur |-> FlareCurrency,
             ok |-> TRUE, related |-> related]
    BY <1>1 DEF Op
  <1>3. o \in AnyOp
    BY <1>2, CurrenciesAre DEF AnyOp, Party
  <1>4. op = [o EXCEPT !.cur = cur]
    BY <1>1 DEF TokenOp
  <1>6. op \in AnyOp /\ op.index = o.index /\ op.acct = o.acct /\ op.val = o.val /\ op.ok = o.ok
        /\ op.cur = cur
    BY <1>3, <1>4 DEF AnyOp
  <1>7. op.index = index /\ op.acct = acct /\ op.val = val /\ op.ok
    BY <1>2, <1>6
  <1>8. Gives(op, acct, cur, val)
    BY <1>6, <1>7 DEF Adds, Gives
  <1>9. QED
    BY <1>6, <1>7, <1>8

Numbered(os, from, cur) ==
    /\ os \in Seq(AnyOp)
    /\ \A i \in 1 .. Len(os) : os[i].index = from + i - 1 /\ os[i].cur = cur

LEMMA OneOp ==
  ASSUME NEW from \in Nat, NEW cur \in OpCurrency, NEW op \in AnyOp, op.index = from, op.cur = cur
  PROVE  Numbered(<<op>>, from, cur)
  <1>1. PICK os : os = <<op>>
    OBVIOUS
  <1>2. os \in Seq(AnyOp) /\ Len(os) = 1 /\ os[1] = op
    BY <1>1
  <1>3. QED
    BY <1>1, <1>2 DEF Numbered

LEMMA TwoOps ==
  ASSUME NEW from \in Nat, NEW cur \in OpCurrency, NEW op \in AnyOp, op.index = from, op.cur = cur,
         NEW other \in AnyOp, other.index = from + 1, other.cur = cur
  PROVE  Numbered(<<op, other>>, from, cur)
  <1>1. PICK os : os = <<op, other>>
    OBVIOUS
  <1>2. os \in Seq(AnyOp) /\ Len(os) = 2 /\ os[1] = op /\ os[2] = other
    BY <1>1
  <1>3. \A i \in 1 .. Len(os) : i = 1 \/ i = 2
    BY <1>2
  <1>4. QED
    BY <1>1, <1>2, <1>3 DEF Numbered

LEMMA Erc20OpsAre ==
  ASSUME NEW log \in EventLog, NEW cur \in OpCurrency, NEW from \in Nat
  PROVE  /\ Numbered(erc20Ops(log, cur, from), from, cur)
         /\ log.transfer /\ log.topics = 3 => \A acct \in Account :
                Applied(erc20Ops(log, cur, from), acct, cur) = TokenMove(log, log.token, acct)
  <1>1. /\ log.from \in Party /\ log.to \in Party
        /\ log.val \in Nat /\ log.val \in Int
        /\ from \in Int /\ from + 1 \in Nat
    BY DEF EventLog, Party
  <1>2. PICK mint \in MappedTypes, burn \in MappedTypes, transfer \in MappedTypes :
            mint = "ERC20_MINT" /\ burn = "ERC20_BURN" /\ transfer = "ERC20_TRANSFER"
    BY DEF MappedTypes
  <1>n. PICK minus \in Int, none \in Int : minus = -log.val /\ none = -1
    BY <1>1
  <1>a. ASSUME NEW index \in Nat, NEW type \in MappedTypes, NEW acct \in Party, NEW val \in Int,
               NEW related \in Int, NEW op, op = TokenOp(index, type, acct, val, cur, related)
        PROVE  op \in AnyOp /\ op.index = index /\ op.cur = cur /\ Gives(op, acct, cur, val)
    BY <1>a, TokenOpIs
  <1>3. CASE log.from = zeroAddress
    <2>1. PICK op : op = TokenOp(from, mint, log.to, log.val, cur, none)
      OBVIOUS
    <2>2. op \in AnyOp /\ op.index = from /\ op.cur = cur /\ Gives(op, log.to, cur, log.val)
      <3>1. from \in Nat /\ mint \in MappedTypes /\ log.to \in Party
        BY <1>1, <1>2
      <3>2. log.val \in Int /\ none \in Int
        BY <1>1, <1>n
      <3>3. QED
        BY <2>1, <3>1, <3>2, <1>a
    <2>3. erc20Ops(log, cur, from) = <<op>>
      BY <1>2, <1>n, <1>3, <2>1 DEF erc20Ops
    <2>4. ASSUME NEW acct \in Account, log.transfer, log.topics = 3
          PROVE  Applied(<<op>>, acct, cur) = TokenMove(log, log.token, acct)
      <3>1. Applied(<<op>>, acct, cur) = IF log.to = acct THEN log.val ELSE 0
        BY <2>2, AppliedOne DEF Gives
      <3>2. TokenMove(log, log.token, acct) = IF log.to = acct THEN log.val ELSE 0
        BY <1>3, <2>4, Zero DEF TokenMove
      <3>3. QED
        BY <3>1, <3>2
    <2>5. QED
      BY <2>2, <2>3, <2>4, OneOp
  <1>4. CASE log.from # zeroAddress /\ log.to = zeroAddress
    <2>1. PICK op : op = TokenOp(from, burn, log.from, minus, cur, none)
      OBVIOUS
    <2>2. op \in AnyOp /\ op.index = from /\ op.cur = cur /\ Gives(op, log.from, cur, minus)
      <3>1. from \in Nat /\ burn \in MappedTypes /\ log.from \in Party
        BY <1>1, <1>2
      <3>2. minus \in Int /\ none \in Int
        BY <1>1, <1>n
      <3>3. QED
        BY <2>1, <3>1, <3>2, <1>a
    <2>3. erc20Ops(log, cur, from) = <<op>>
      BY <1>2, <1>n, <1>4, <2>1 DEF erc20Ops
    <2>4. ASSUME NEW acct \in Account, log.transfer, log.topics = 3
          PROVE  Applied(<<op>>, acct, cur) = TokenMove(log, log.token, acct)
      <3>1. Applied(<<op>>, acct, cur) = IF log.from = acct THEN minus ELSE 0
        BY <2>2, AppliedOne DEF Gives
      <3>2. TokenMove(log, log.token, acct) = IF log.from = acct THEN minus ELSE 0
        BY <1>n, <1>4, <2>4, Zero DEF TokenMove
      <3>3. QED
        BY <3>1, <3>2
    <2>5. QED
      BY <2>2, <2>3, <2>4, OneOp
  <1>5. CASE log.from # zeroAddress /\ log.to # zeroAddress
    <2>1. PICK op : op = TokenOp(from, transfer, log.from, minus, cur, none)
      OBVIOUS
    <2>2. PICK other : other = TokenOp(from + 1, transfer, log.to, log.val, cur, from)
      OBVIOUS
    <2>3. op \in AnyOp /\ op.index = from /\ op.cur = cur /\ Gives(op, log.from, cur, minus)
      <3>1. from \in Nat /\ transfer \in MappedTypes /\ log.from \in Party
        BY <1>1, <1>2
      <3>2. minus \in Int /\ none \in Int
        BY <1>1, <1>n
      <3>3. QED
        BY <2>1, <3>1, <3>2, <1>a
    <2>4. other \in AnyOp /\ other.index = from + 1 /\ other.cur = cur /\ Gives(other, log.to, cur, log.val)
      <3>1. from + 1 \in Nat /\ transfer \in MappedTypes /\ log.to \in Party
        BY <1>1, <1>2
      <3>2. log.val \in Int /\ from \in Int
        BY <1>1, <1>n
      <3>3. QED
        BY <2>2, <3>1, <3>2, <1>a
    <2>5. erc20Ops(log, cur, from) = <<op, other>>
      BY <1>2, <1>n, <1>5, <2>1, <2>2 DEF erc20Ops
    <2>6. ASSUME NEW acct \in Account, log.transfer, log.topics = 3
          PROVE  Applied(<<op, other>>, acct, cur) = TokenMove(log, log.token, acct)
      <3>1. Applied(<<op, other>>, acct, cur) =
                (IF log.from = acct THEN minus ELSE 0) + (IF log.to = acct THEN log.val ELSE 0)
        BY <2>3, <2>4, AppliedTwo DEF Gives
      <3>2. TokenMove(log, log.token, acct) =
                (IF log.from = acct THEN minus ELSE 0) + (IF log.to = acct THEN log.val ELSE 0)
        BY <1>1, <1>n, <2>6 DEF TokenMove
      <3>3. QED
        BY <3>1, <3>2
    <2>7. QED
      BY <2>3, <2>4, <2>5, <2>6, TwoOps
  <1>6. QED
    BY <1>3, <1>4, <1>5

(* Tokens that are not fungible have no amounts. *)
LEMMA Erc721OpsAre ==
  ASSUME NEW log \in EventLog, NEW from \in Nat
  PROVE  /\ Numbered(erc721Ops(log, from), from, NoCurrency)
         /\ \A acct, cur : Applied(erc721Ops(log, from), acct, cur) = 0
  <1>1. /\ log.from \in Party /\ log.to \in Party
        /\ from \in Int /\ from + 1 \in Nat /\ 0 \in Int
    BY DEF EventLog, Party
  <1>2. PICK mint \in MappedTypes, burn \in MappedTypes, sender \in MappedTypes, receive \in MappedTypes :
            /\ mint = "ERC721_MINT" /\ burn = "ERC721_BURN"
            /\ sender = "ERC721_SENDER" /\ receive = "ERC721_RECEIVE"
    BY DEF MappedTypes
  <1>n. PICK none \in Int : none = -1
    OBVIOUS
  <1> DEFINE Moveless(op) == \A x, c : Adds(op, x, c) = 0
  <1>3. ASSUME NEW index \in Nat, NEW type \in MappedTypes, NEW acct \in Party,
               NEW related \in Int, NEW op, op = TokenOp(index, type, acct, 0, NoCurrency, related)
        PROVE  op \in AnyOp /\ op.index = index /\ op.cur = NoCurrency /\ Moveless(op)
    <2>1. PICK cur, val : cur = NoCurrency /\ val = 0
      OBVIOUS
    <2>2. cur \in OpCurrency /\ val \in Int
      BY <2>1, CurrenciesAre
    <2>3. op = TokenOp(index, type, acct, val, cur, related)
      BY <1>3, <2>1
    <2>4. op \in AnyOp /\ op.index = index /\ op.cur = cur /\ Gives(op, acct, cur, val)
      BY <2>2, <2>3, TokenOpIs
    <2>5. QED
      BY <2>1, <2>4 DEF Gives, Moveless
  <1>4. ASSUME NEW op \in AnyOp, op.index = from, op.cur = NoCurrency, Moveless(op)
        PROVE  Numbered(<<op>>, from, NoCurrency) /\ \A x, c : Applied(<<op>>, x, c) = 0
    BY <1>4, OneOp, AppliedOne, CurrenciesAre
  <1>a. \A op \in AnyOp, other \in AnyOp : Moveless(op) /\ Moveless(other) =>
            \A acct, cur : Applied(<<op, other>>, acct, cur) = 0
    BY AppliedTwo
  <1> HIDE DEF Moveless
  <1>5. CASE log.from = zeroAddress
    <2>1. PICK op : op = TokenOp(from, mint, log.to, 0, NoCurrency, none)
      OBVIOUS
    <2>2. erc721Ops(log, from) = <<op>>
      BY <1>2, <1>n, <1>5, <2>1 DEF erc721Ops
    <2>3. op \in AnyOp /\ op.index = from /\ op.cur = NoCurrency /\ Moveless(op)
      BY <1>1, <1>2, <1>n, <1>3, <2>1
    <2>4. QED
      BY <1>4, <2>2, <2>3
  <1>6. CASE log.from # zeroAddress /\ log.to = zeroAddress
    <2>1. PICK op : op = TokenOp(from, burn, log.from, 0, NoCurrency, none)
      OBVIOUS
    <2>2. erc721Ops(log, from) = <<op>>
      BY <1>2, <1>n, <1>6, <2>1 DEF erc721Ops
    <2>3. op \in AnyOp /\ op.index = from /\ op.cur = NoCurrency /\ Moveless(op)
      BY <1>1, <1>2, <1>n, <1>3, <2>1
    <2>4. QED
      BY <1>4, <2>2, <2>3
  <1>7. CASE log.from # zeroAddress /\ log.to # zeroAddress
    <2>1. PICK op : op = TokenOp(from, sender, log.from, 0, NoCurrency, none)
      OBVIOUS
    <2>2. PICK other : other = TokenOp(from + 1, receive, log.to, 0, NoCurrency, from)
      OBVIOUS
    <2>3. erc721Ops(log, from) = <<op, other>>
      BY <1>2, <1>n, <1>7, <2>1, <2>2 DEF erc721Ops
    <2>4. op \in AnyOp /\ op.index = from /\ op.cur = NoCurrency /\ Moveless(op)
      BY <1>1, <1>2, <1>n, <1>3, <2>1
    <2>5. other \in AnyOp /\ other.index = from + 1 /\ other.cur = NoCurrency /\ Moveless(other)
      BY <1>1, <1>2, <1>n, <1>3, <2>2
    <2>6. \A acct, cur : Applied(<<op, other>>, acct, cur) = 0
      BY <1>a, <2>4, <2>5
    <2>7. Numbered(<<op, other>>, from, NoCurrency)
      BY <2>4, <2>5, TwoOps, CurrenciesAre
    <2>8. QED
      BY <2>3, <2>6, <2>7
  <1>8. QED
    BY <1>5, <1>6, <1>7

LEMMA TokenOpsAre ==
  ASSUME NEW log \in EventLog, Selected(log, isAnalyticsMode, TokenWhiteList),
         NEW info, info.symbol \in Symbols, info.decimals \in Nat, NEW from \in Nat, NEW os,
         os = tokenOps(log, info, from, IndexUnknownTokens),
         NEW cur, cur = ToCurrency(info.symbol, info.decimals, log.token)
  PROVE  /\ os \in Seq(AnyOp)
         /\ \A i \in 1 .. Len(os) : os[i].index = from + i - 1
         /\ \A i \in 1 .. Len(os) : os[i].cur = NoCurrency \/ (os[i].cur = cur /\ log.topics = 3)
         /\ \A acct, c : c # cur => Applied(os, acct, c) = 0
         /\ \A acct \in Account : Applied(os, acct, cur) =
                IF log.topics # 3 \/ (info.symbol = UnknownERC20Symbol /\ ~IndexUnknownTokens) THEN 0
                ELSE TokenMove(log, log.token, acct)
  <1>1. cur \in OpCurrency /\ log.token \in Token
    BY CurrenciesAre DEF EventLog
  <1>2. log.transfer /\ log.topics \in {3, 4}
    BY DEF Selected
  <1>3. CASE os = <<>>
    <2>1. \A acct, c : Applied(os, acct, c) = 0
      BY <1>3, AppliedEmpty
    <2>2. os \in Seq(AnyOp) /\ Len(os) = 0
      BY <1>3
    <2>3. log.topics # 3 \/ (info.symbol = UnknownERC20Symbol /\ ~IndexUnknownTokens)
      <3>1. SUFFICES ASSUME log.topics = 3, ~(info.symbol = UnknownERC20Symbol /\ ~IndexUnknownTokens)
                     PROVE  FALSE
        OBVIOUS
      <3>2. os = erc20Ops(log, cur, from)
        BY <3>1 DEF tokenOps, IsErc20, UnknownSymbol
      <3>3. QED
        BY <1>3, <3>2 DEF erc20Ops
    <2>4. QED
      BY <2>1, <2>2, <2>3
  <1>4. CASE os # <<>> /\ log.topics = 3
    <2>1. os = erc20Ops(log, cur, from) /\ ~(info.symbol = UnknownERC20Symbol /\ ~IndexUnknownTokens)
      BY <1>4 DEF tokenOps, IsErc20, UnknownSymbol
    <2>2. /\ Numbered(os, from, cur)
          /\ \A acct \in Account : Applied(os, acct, cur) = TokenMove(log, log.token, acct)
      BY <1>1, <1>2, <1>4, <2>1, Erc20OpsAre
    <2>3. os \in Seq(AnyOp) /\ \A i \in 1 .. Len(os) : os[i].index = from + i - 1 /\ os[i].cur = cur
      BY <2>2 DEF Numbered
    <2>4. ASSUME NEW acct, NEW c, c # cur PROVE Applied(os, acct, c) = 0
      BY <2>3, <2>4, AppliedNothing
    <2>5. QED
      BY <1>4, <2>1, <2>2, <2>3, <2>4
  <1>5. CASE os # <<>> /\ log.topics = 4
    <2>1. os = erc721Ops(log, from)
      BY <1>5 DEF tokenOps, IsErc20
    <2>2. Numbered(os, from, NoCurrency) /\ \A acct, c : Applied(os, acct, c) = 0
      BY <2>1, Erc721OpsAre
    <2>3. /\ os \in Seq(AnyOp)
          /\ \A i \in 1 .. Len(os) : os[i].index = from + i - 1 /\ os[i].cur = NoCurrency
      BY <2>2 DEF Numbered
    <2>4. QED
      BY <1>5, <2>2, <2>3
  <1>6. QED
    BY <1>2, <1>3, <1>4, <1>5

(* Mapping a log keeps what is said of the operations, if its contract is  *)
(* known for what it is, or spoilt.                                        *)
LEMMA MapLogMaps ==
  ASSUME NEW tx, NEW b, NEW ops, NEW logs \in Seq(EventLog), logs # <<>>, NEW spoilt,
         Mapped(tx, b, ops, logs, spoilt), LogsLeft(logs),
         NEW info, info.symbol \in Symbols, info.decimals \in Nat,
         Head(logs).token \notin spoilt =>
            /\ info.symbol = KnownSymbol(Head(logs).token)
            /\ info.decimals = Info[Head(logs).token].decimals
  PROVE  /\ Mapped(tx, b, ops \o tokenOps(Head(logs), info, Len(ops), IndexUnknownTokens),
                   Tail(logs), spoilt)
         /\ LogsLeft(Tail(logs))
  <1>1. PICK log \in EventLog : log = Head(logs) /\ log = logs[1]
    OBVIOUS
  <1>2. PICK left : left = Tail(logs)
    OBVIOUS
  <1>3. /\ Len(logs) \in Nat /\ Len(logs) >= 1 /\ DOMAIN logs = 1 .. Len(logs)
        /\ left \in Seq(EventLog) /\ Len(left) = Len(logs) - 1
        /\ \A n \in 1 .. Len(left) : left[n] = logs[n + 1]
    BY <1>2
  <1>4. Selected(log, isAnalyticsMode, TokenWhiteList) /\ Logged(log.token, log.topics)
    BY <1>1, <1>3 DEF LogsLeft
  <1>5. log.topics \in {3, 4} /\ (isAnalyticsMode \/ log.token \in TokenWhiteList) /\ log.token \in Token
    BY <1>4 DEF Selected, EventLog
  <1>6. LogsLeft(left)
    <2>1. \A n \in DOMAIN left : n + 1 \in DOMAIN logs /\ left[n] = logs[n + 1]
      BY <1>3
    <2>2. QED
      BY <2>1 DEF LogsLeft
  <1>7. ops \in Seq(AnyOp) /\ Len(ops) \in Nat
    BY DEF Mapped
  <1>8. PICK os : os = tokenOps(log, info, Len(ops), IndexUnknownTokens)
    OBVIOUS
  <1>9. PICK cur : cur = ToCurrency(info.symbol, info.decimals, log.token)
    OBVIOUS
  <1>o. \A i \in 1 .. Len(os) : os[i].index = Len(ops) + i - 1
    BY <1>4, <1>7, <1>8, <1>9, TokenOpsAre
  <1>10. /\ os \in Seq(AnyOp)
         /\ \A i \in 1 .. Len(os) : os[i].cur = NoCurrency \/ (os[i].cur = cur /\ log.topics = 3)
         /\ \A acct, c : c # cur => Applied(os, acct, c) = 0
         /\ \A acct \in Account : Applied(os, acct, cur) =
                IF log.topics # 3 \/ (info.symbol = UnknownERC20Symbol /\ ~IndexUnknownTokens) THEN 0
                ELSE TokenMove(log, log.token, acct)
    BY <1>4, <1>7, <1>8, <1>9, TokenOpsAre
  <1>11. cur.contract = log.token /\ cur.symbol = info.symbol
    BY <1>9 DEF ToCurrency
  <1>12. log.token \notin spoilt /\ log.topics = 3 => cur = Named(log.token)
    <2>1. SUFFICES ASSUME log.token \notin spoilt, log.topics = 3 PROVE cur = Named(log.token)
      OBVIOUS
    <2>2. info.symbol = KnownSymbol(log.token) /\ info.decimals = Info[log.token].decimals
      BY <1>1, <2>1
    <2>3. Logged(log.token, 3)
      BY <1>4, <2>1
    <2>4. QED
      BY <1>9, <2>2, <2>3 DEF KnownSymbol, Named, UnknownSymbol
  <1>13. PICK all : all = ops \o os
    OBVIOUS
  <1>14. /\ all \in Seq(AnyOp) /\ Len(all) = Len(ops) + Len(os) /\ DOMAIN all = 1 .. Len(all)
         /\ \A acct, c : Applied(all, acct, c) = Applied(ops, acct, c) + Applied(os, acct, c)
    BY <1>7, <1>10, <1>13, AppliedConcat
  <1>15. \A acct, c : Applied(ops, acct, c) \in Int /\ Applied(os, acct, c) \in Int
    BY <1>7, <1>10, AppliedType
  <1>16. FlareRight(tx, all, b)
    <2>1. \A acct : Applied(os, acct, FlareCurrency) = 0
      BY <1>5, <1>10, <1>11, CurrenciesAre, Zero
    <2>2. \A acct : Applied(all, acct, FlareCurrency) = Applied(ops, acct, FlareCurrency)
      BY <1>14, <1>15, <2>1
    <2>3. FlareRight(tx, ops, b)
      BY DEF Mapped
    <2>4. QED
      BY <2>2, <2>3 DEF FlareRight
  <1>17. ASSUME NEW token \in Token \ spoilt, NEW acct \in Account
         PROVE  IF Shown(token)
                THEN Applied(all, acct, Named(token)) + TokenMoves(left, token, acct)
                        = TokenEffect(tx, token, acct)
                ELSE Applied(all, acct, Named(token)) = 0
    <2>1. IF Shown(token)
          THEN Applied(ops, acct, Named(token)) + TokenMoves(logs, token, acct) = TokenEffect(tx, token, acct)
          ELSE Applied(ops, acct, Named(token)) = 0
      BY DEF Mapped
    <2>2. /\ TokenMoves(logs, token, acct) = TokenMove(log, token, acct) + TokenMoves(left, token, acct)
          /\ TokenMove(log, token, acct) \in Int /\ TokenMoves(left, token, acct) \in Int
      <3>1. /\ TokenMoves(logs, token, acct) = TokenMove(Head(logs), token, acct)
                                              + TokenMoves(Tail(logs), token, acct)
            /\ TokenMove(Head(logs), token, acct) \in Int
        BY MovesTail
      <3>2. TokenMoves(left, token, acct) \in Int
        BY <1>3, MovesType
      <3>3. QED
        BY <1>1, <1>2, <3>1, <3>2
    <2>3. Named(token).contract = token
      BY NamedIs
    <2>4. IF Shown(token) THEN Applied(os, acct, Named(token)) = TokenMove(log, token, acct)
          ELSE Applied(os, acct, Named(token)) = 0
      <3>1. CASE token # log.token
        <4>1. Applied(os, acct, Named(token)) = 0
          BY <1>10, <1>11, <2>3, <3>1
        <4>2. TokenMove(log, token, acct) = 0
          BY <3>1 DEF TokenMove
        <4>3. QED
          BY <4>1, <4>2
      <3>2. CASE token = log.token /\ log.topics # 3
        <4>1. Applied(os, acct, Named(token)) = 0
          BY <1>10, <3>2
        <4>2. TokenMove(log, token, acct) = 0
          BY <3>2 DEF TokenMove
        <4>3. QED
          BY <4>1, <4>2
      <3>3. CASE token = log.token /\ log.topics = 3
        <4>1. cur = Named(token) /\ Named(token).symbol = info.symbol
          BY <1>11, <1>12, <3>3
        <4>2. Shown(token) <=> ~(info.symbol = UnknownERC20Symbol /\ ~IndexUnknownTokens)
          BY <1>5, <3>3, <4>1 DEF Shown
        <4>3. QED
          BY <1>10, <3>3, <4>1, <4>2
      <3>4. QED
        BY <3>1, <3>2, <3>3
    <2>5. /\ Applied(all, acct, Named(token)) = Applied(ops, acct, Named(token))
                                                    + Applied(os, acct, Named(token))
          /\ Applied(ops, acct, Named(token)) \in Int /\ Applied(os, acct, Named(token)) \in Int
      BY <1>14, <1>15
    <2>6. QED
      BY <2>1, <2>2, <2>4, <2>5
  <1>18. ASSUME NEW i \in DOMAIN all
         PROVE  /\ all[i].index = i - 1
                /\ all[i].cur.contract \in spoilt \cup {zeroAddress}
                   \/ all[i].cur = Named(all[i].cur.contract)
    <2>1. Len(os) \in Nat /\ i \in 1 .. Len(ops) + Len(os)
      BY <1>10, <1>14
    <2>2. CASE i <= Len(ops)
      <3>1. all[i] = ops[i] /\ i \in DOMAIN ops
        BY <1>7, <1>10, <1>13, <2>1, <2>2
      <3>2. QED
        BY <3>1 DEF Mapped
    <2>3. CASE i > Len(ops)
      <3>1. PICK j \in 1 .. Len(os) : j = i - Len(ops)
        BY <1>7, <2>1, <2>3
      <3>2. all[i] = os[j]
        BY <1>7, <1>10, <1>13, <2>1, <2>3, <3>1
      <3>3. all[i].index = i - 1
        <4>1. os[j].index = Len(ops) + j - 1
          BY <1>o, <3>1
        <4>2. QED
          BY <1>7, <2>1, <3>1, <3>2, <4>1
      <3>4. all[i].cur.contract \in spoilt \cup {zeroAddress} \/ all[i].cur = Named(all[i].cur.contract)
        <4>1. CASE os[j].cur = NoCurrency
          BY <3>2, <4>1, CurrenciesAre
        <4>2. CASE os[j].cur = cur /\ log.topics = 3
          BY <1>11, <1>12, <3>2, <4>2
        <4>3. QED
          BY <1>10, <4>1, <4>2
      <3>5. QED
        BY <3>3, <3>4
    <2>4. QED
      BY <1>7, <2>1, <2>2, <2>3
  <1>19. Mapped(tx, b, all, left, spoilt)
    BY <1>14, <1>16, <1>17, <1>18 DEF Mapped
  <1>20. QED
    BY <1>1, <1>2, <1>6, <1>8, <1>13, <1>19

(* What a transaction pays under the header of a block, and the operations *)
(* of that fee: they take it from the one and give it to the burn address. *)
FeeUnder(tx, b) == txFee(tx, tx.gasUsed * GasPrice(tx, b), tx.ftsoTxFee)
FeeTo(tx, fee, acct) == (IF acct = tx.from THEN -fee ELSE 0) + (IF acct = burnAddress THEN fee ELSE 0)

LEMMA FeeIs ==
  ASSUME NEW tx \in Txs, NEW b \in Height
  PROVE  FeeUnder(tx, b) \in Nat /\ tx.from \in Account
  <1>1. HasPrice(tx)
    BY TxsAre
  <1>2. /\ tx.gasUsed \in Nat /\ tx.feeCap \in Nat /\ tx.tip \in Nat /\ tx.ftsoTxFee \in Nat
        /\ tx.from \in Account
    BY <1>1 DEF HasPrice
  <1>3. BaseFee[b] \in Nat \cup {None}
    BY ConstantsAssumption
  <1>4. GasPrice(tx, b) \in Nat
    BY <1>2, <1>3 DEF GasPrice
  <1>5. \A used \in Nat, price \in Nat : used * price \in Nat
    OBVIOUS
  <1>6. tx.gasUsed * GasPrice(tx, b) \in Nat
    BY <1>2, <1>4, <1>5
  <1>7. QED
    BY <1>2, <1>6 DEF FeeUnder, txFee

LEMMA FeeOpsAre ==
  ASSUME NEW tx \in Txs, NEW fee \in Nat
  PROVE  /\ feeOps(tx.from, fee) \in Seq(AnyOp) /\ Len(feeOps(tx.from, fee)) = 2
         /\ \A i \in 1 .. 2 : /\ feeOps(tx.from, fee)[i].index = i - 1
                            /\ feeOps(tx.from, fee)[i].cur = FlareCurrency
         /\ \A acct : Applied(feeOps(tx.from, fee), acct, FlareCurrency) = FeeTo(tx, fee, acct)
  <1>1. PICK type \in MappedTypes : type = "FEE"
    BY DEF MappedTypes
  <1>2. PICK minus \in Int, none \in Int : minus = -fee /\ none = -1
    OBVIOUS
  <1>3. PICK from, to : from = Op(0, type, tx.from, minus, TRUE, none)
                        /\ to = Op(1, type, burnAddress, fee, TRUE, 0)
    OBVIOUS
  <1>4. feeOps(tx.from, fee) = <<from, to>>
    BY <1>1, <1>2, <1>3 DEF feeOps
  <1>5. tx.from \in Account /\ burnAddress \in Account
    BY TxsAre, ConstantsAssumption DEF HasPrice
  <1>6. /\ from = [index |-> 0, type |-> type, acct |-> tx.from, val |-> minus,
                   cur |-> FlareCurrency, ok |-> TRUE, related |-> none]
        /\ to = [index |-> 1, type |-> type, acct |-> burnAddress, val |-> fee,
                 cur |-> FlareCurrency, ok |-> TRUE, related |-> 0]
    BY <1>3 DEF Op
  <1>7. from \in AnyOp /\ to \in AnyOp
    BY <1>5, <1>6, CurrenciesAre DEF AnyOp
  <1>8. PICK ops : ops = <<from, to>>
    OBVIOUS
  <1>9. ops \in Seq(AnyOp) /\ Len(ops) = 2 /\ ops[1] = from /\ ops[2] = to
    BY <1>7, <1>8
  <1>10. \A i \in 1 .. 2 : ops[i].index = i - 1 /\ ops[i].cur = FlareCurrency
    <2>1. \A i \in 1 .. 2 : i = 1 \/ i = 2
      OBVIOUS
    <2>2. from.index = 0 /\ from.cur = FlareCurrency /\ to.index = 1 /\ to.cur = FlareCurrency
      BY <1>6
    <2>3. QED
      BY <1>9, <2>1, <2>2
  <1>11. ASSUME NEW acct PROVE Applied(ops, acct, FlareCurrency) = FeeTo(tx, fee, acct)
    <2>1. Applied(ops, acct, FlareCurrency) = Adds(from, acct, FlareCurrency) + Adds(to, acct, FlareCurrency)
      BY <1>7, <1>8, AppliedTwo
    <2>2. /\ Adds(from, acct, FlareCurrency) = IF acct = tx.from THEN minus ELSE 0
          /\ Adds(to, acct, FlareCurrency) = IF acct = burnAddress THEN fee ELSE 0
      BY <1>6 DEF Adds
    <2>3. QED
      BY <1>2, <2>1, <2>2 DEF FeeTo
  <1>12. QED
    BY <1>4, <1>8, <1>9, <1>10, <1>11

(* The operations of a transaction under a header: those of the fee, and   *)
(* those of the trace, which do not depend on it                           *)
LEMMA MinedIs ==
  ASSUME NEW tx \in Txs, NEW b \in Height, NEW rest, rest = traceOps(init(tx.trace), 2)
  PROVE  /\ rest \in Seq(AnyOp)
         /\ MinedOps(tx, b) \in Seq(AnyOp)
         /\ \A i \in DOMAIN MinedOps(tx, b) : /\ MinedOps(tx, b)[i].index = i - 1
                                             /\ MinedOps(tx, b)[i].cur = FlareCurrency
         /\ \A acct : Applied(MinedOps(tx, b), acct, FlareCurrency)
                         = FeeTo(tx, FeeUnder(tx, b), acct) + Applied(rest, acct, FlareCurrency)
  <1>1. PICK fee \in Nat : fee = FeeUnder(tx, b)
    BY FeeIs
  <1>2. PICK fees : fees = feeOps(tx.from, fee)
    OBVIOUS
  <1>3. /\ fees \in Seq(AnyOp) /\ Len(fees) = 2
        /\ \A i \in 1 .. 2 : fees[i].index = i - 1 /\ fees[i].cur = FlareCurrency
        /\ \A acct : Applied(fees, acct, FlareCurrency) = FeeTo(tx, fee, acct)
    BY <1>2, FeeOpsAre
  <1>4. rest \in Seq(FlareOp) /\ \A i \in DOMAIN rest : rest[i].index = i + 1
    BY ChainAssumption
  <1>5. rest \in Seq(AnyOp) /\ Len(rest) \in Nat /\ DOMAIN rest = 1 .. Len(rest)
    BY <1>4, FlareOpsAre
  <1>6. \A i \in 1 .. Len(rest) : rest[i].index = i + 1 /\ rest[i].cur = FlareCurrency
    <2>1. \A op \in FlareOp : op.cur = FlareCurrency
      BY DEF FlareOp
    <2>2. QED
      BY <1>4, <1>5, <2>1
  <1>7. PICK all : all = fees \o rest
    OBVIOUS
  <1>A. fees \in Seq(AnyOp) /\ rest \in Seq(AnyOp)
    BY <1>3, <1>5
  <1>B. /\ all \in Seq(AnyOp) /\ Len(all) = Len(fees) + Len(rest)
         /\ \A i \in 1 .. Len(fees) + Len(rest) :
                all[i] = IF i <= Len(fees) THEN fees[i] ELSE rest[i - Len(fees)]
    BY <1>7, <1>A, ConcatProperties
  <1>C. Len(fees) = 2
    BY <1>3
  <1>8. /\ all \in Seq(AnyOp) /\ Len(all) = 2 + Len(rest) /\ DOMAIN all = 1 .. Len(all)
        /\ \A acct : Applied(all, acct, FlareCurrency)
                        = Applied(fees, acct, FlareCurrency) + Applied(rest, acct, FlareCurrency)
    <2>1. all \in Seq(AnyOp) /\ Len(all) = 2 + Len(rest)
      BY <1>B, <1>C
    <2>2. DOMAIN all = 1 .. Len(all)
      BY <2>1
    <2>3. ASSUME NEW acct
          PROVE  Applied(all, acct, FlareCurrency)
                    = Applied(fees, acct, FlareCurrency) + Applied(rest, acct, FlareCurrency)
      BY <1>7, <1>A, AppliedConcat
    <2>4. QED
      BY <2>1, <2>2, <2>3
  <1>9. \A i \in 1 .. 2 + Len(rest) : all[i] = IF i <= 2 THEN fees[i] ELSE rest[i - 2]
    BY <1>B, <1>C
  <1>10. ASSUME NEW i \in DOMAIN all PROVE all[i].index = i - 1 /\ all[i].cur = FlareCurrency
    <2>1. CASE i <= 2
      <3>1. i \in 1 .. 2 /\ all[i] = fees[i]
        BY <1>5, <1>8, <1>9, <2>1
      <3>2. QED
        BY <1>3, <3>1
    <2>2. CASE ~(i <= 2)
      <3>1. PICK j \in 1 .. Len(rest) : j = i - 2
        BY <1>5, <1>8, <2>2
      <3>2. all[i] = rest[j] /\ j + 1 = i - 1
        BY <1>5, <1>8, <1>9, <2>2, <3>1
      <3>3. QED
        BY <1>6, <3>2
    <2>3. QED
      BY <2>1, <2>2
  <1>11. MinedOps(tx, b) = all
    BY <1>1, <1>2, <1>7 DEF MinedOps, NativeOps, FeeUnder
  <1>12. QED
    BY <1>1, <1>3, <1>5, <1>8, <1>10, <1>11

(* Under the header of its own block they are right; under any other, but  *)
(* for what the payer paid and was burnt.                                  *)
LEMMA MinedRight ==
  ASSUME NEW tx \in Txs, NEW b \in Height
  PROVE  FlareRight(tx, MinedOps(tx, b), b)
  <1>1. PICK m \in DOMAIN Chain : tx \in Range(Chain[m].txs)
    BY DEF Txs
  <1>2. m \in Height
    BY ChainType DEF Height
  <1>3. PICK rest : rest = traceOps(init(tx.trace), 2)
    OBVIOUS
  <1>4. PICK fee \in Nat, own \in Nat : fee = FeeUnder(tx, b) /\ own = FeeUnder(tx, m)
    BY <1>2, FeeIs
  <1>5. PICK R : R = [acct \in Account |-> Applied(rest, acct, FlareCurrency)]
    OBVIOUS
  <1>6. \A acct \in Account : R[acct] \in Int
    BY <1>3, <1>5, MinedIs, AppliedType
  <1>7. PICK ops : ops = MinedOps(tx, b)
    OBVIOUS
  <1>8. \A acct \in Account : Applied(ops, acct, FlareCurrency) = FeeTo(tx, fee, acct) + R[acct]
    BY <1>3, <1>4, <1>5, <1>7, MinedIs
  <1>9. \A acct \in Account : NativeEffect(tx, acct) = FeeTo(tx, own, acct) + R[acct]
    BY <1>1, <1>2, <1>3, <1>4, <1>5, MinedIs, ChainAssumption
  <1>10. tx.from \in Account /\ burnAddress \in Account
    BY <1>2, FeeIs, ConstantsAssumption
  <1>11. ASSUME NEW acct \in Account, OfBlock(tx, b) \/ acct \notin {tx.from, burnAddress}
         PROVE  Applied(ops, acct, FlareCurrency) = NativeEffect(tx, acct)
    <2>1. CASE OfBlock(tx, b)
      BY <1>7, <2>1, ChainAssumption DEF OfBlock
    <2>2. CASE acct \notin {tx.from, burnAddress}
      BY <1>6, <1>8, <1>9, <2>2 DEF FeeTo
    <2>3. QED
      BY <1>11, <2>1, <2>2
  <1>12. PICK x \in Account : x = tx.from
    BY <1>10
  <1>13. FeeTo(tx, fee, x) + FeeTo(tx, fee, burnAddress) = 0
    BY <1>12 DEF FeeTo
  <1>14. FeeTo(tx, own, x) + FeeTo(tx, own, burnAddress) = 0
    BY <1>12 DEF FeeTo
  <1>15. \A acct \in Account : FeeTo(tx, fee, acct) \in Int /\ FeeTo(tx, own, acct) \in Int
    BY DEF FeeTo
  <1>16. Applied(ops, x, FlareCurrency) + Applied(ops, burnAddress, FlareCurrency)
          = NativeEffect(tx, x) + NativeEffect(tx, burnAddress)
    BY <1>6, <1>8, <1>9, <1>10, <1>13, <1>14, <1>15
  <1>17. QED
    BY <1>7, <1>11, <1>12, <1>16 DEF FlareRight

(* The operations before those of logs, and after *)
LEMMA MinedMaps ==
  ASSUME NEW tx \in Txs, NEW b \in Height, NEW spoilt
  PROVE  Mapped(tx, b, MinedOps(tx, b), KeptLogs(tx.logs), spoilt) /\ LogsLeft(KeptLogs(tx.logs))
  <1>1. PICK ops : ops = MinedOps(tx, b)
    OBVIOUS
  <1>2. \A i \in DOMAIN ops : ops[i].index = i - 1 /\ ops[i].cur = FlareCurrency
    BY <1>1, MinedIs
  <1>3. ops \in Seq(AnyOp)
    BY <1>1, MinedIs
  <1>4. \A i \in 1 .. Len(ops) : ops[i].cur = FlareCurrency
    BY <1>2, <1>3
  <1>r. FlareRight(tx, ops, b)
    BY <1>1, MinedRight
  <1>5. PICK logs : logs = tx.logs
    OBVIOUS
  <1>6. logs \in Seq(EventLog)
    BY <1>5, TxsAre
  <1>7. PICK kept : kept = KeptLogs(logs)
    OBVIOUS
  <1>8. /\ kept \in Seq(EventLog)
        /\ \A j \in DOMAIN kept : /\ Selected(kept[j], isAnalyticsMode, TokenWhiteList)
                                  /\ \E i \in DOMAIN logs : kept[j] = logs[i]
        /\ \A token : isAnalyticsMode \/ token \in TokenWhiteList =>
               \A acct : TokenMoves(kept, token, acct) = TokenMoves(logs, token, acct)
    BY <1>6, <1>7, KeptLogsAre
  <1>9. LogsLeft(kept)
    <2>1. ASSUME NEW j \in DOMAIN kept PROVE Logged(kept[j].token, kept[j].topics)
      BY <1>5, <1>8 DEF Logged, Selected
    <2>2. QED
      BY <1>8, <2>1 DEF LogsLeft
  <1>10. ASSUME NEW token \in Token \ spoilt, NEW acct \in Account
         PROVE  IF Shown(token)
                THEN Applied(ops, acct, Named(token)) + TokenMoves(kept, token, acct)
                        = TokenEffect(tx, token, acct)
                ELSE Applied(ops, acct, Named(token)) = 0
    <2>1. \A i \in 1 .. Len(ops) : ops[i].cur # Named(token)
      BY <1>4, NamedIs
    <2>2. Applied(ops, acct, Named(token)) = 0
      BY <1>3, <2>1, AppliedNothing
    <2>3. TokenEffect(tx, token, acct) = TokenMoves(logs, token, acct)
          /\ TokenMoves(logs, token, acct) \in Int
      BY <1>5, <1>6, MovesType DEF TokenEffect
    <2>4. Shown(token) => TokenMoves(kept, token, acct) = TokenMoves(logs, token, acct)
      BY <1>8 DEF Shown
    <2>5. QED
      BY <2>2, <2>3, <2>4
  <1>11. ASSUME NEW i \in DOMAIN ops
         PROVE  ops[i].index = i - 1 /\ ops[i].cur.contract \in spoilt \cup {zeroAddress}
    BY <1>2, <1>3, <1>4, CurrenciesAre
  <1>12. Mapped(tx, b, ops, kept, spoilt)
    BY <1>3, <1>10, <1>11, <1>r DEF Mapped
  <1>13. QED
    BY <1>1, <1>5, <1>7, <1>9, <1>12

LEMMA MappedEnds ==
  ASSUME NEW tx, NEW b, NEW ops, Mapped(tx, b, ops, <<>>, Misnamed)
  PROVE  TransactionRight(tx, ops, b) /\ ops \in Seq(AnyOp)
  <1> DEFINE Flare == FlareRight(tx, ops, b)
             Tokens == \A token \in Token \ (misread \cup Ambiguous) :
                \A acct \in Account : Applied(ops, acct, Named(token)) =
                    IF Shown(token) THEN TokenEffect(tx, token, acct) ELSE 0
             InOrder == \A i \in DOMAIN ops :
                /\ ops[i].index = i - 1
                /\ ops[i].cur.contract \in misread \cup Ambiguous \cup {zeroAddress}
                   \/ ops[i].cur = Named(ops[i].cur.contract)
  <1>1. ops \in Seq(AnyOp)
    BY DEF Mapped
  <1>2. ASSUME NEW token \in Token \ Misnamed, NEW acct \in Account
        PROVE  Applied(ops, acct, Named(token)) = IF Shown(token) THEN TokenEffect(tx, token, acct) ELSE 0
    <2>1. IF Shown(token)
          THEN Applied(ops, acct, Named(token)) + TokenMoves(<<>>, token, acct) = TokenEffect(tx, token, acct)
          ELSE Applied(ops, acct, Named(token)) = 0
      BY DEF Mapped
    <2>2. TokenMoves(<<>>, token, acct) = 0 /\ Applied(ops, acct, Named(token)) \in Int
      BY <1>1, MovesEmpty, AppliedType
    <2>3. QED
      BY <2>1, <2>2
  <1>3. Flare
    BY DEF Mapped
  <1>4. InOrder
    BY DEF Mapped, Misnamed
  <1>5. Tokens
    BY <1>2 DEF Misnamed
  <1>6. Flare /\ Tokens /\ InOrder => TransactionRight(tx, ops, b)
    BY DEF TransactionRight
  <1> HIDE DEF Flare, Tokens, InOrder
  <1>7. QED
    BY <1>1, <1>3, <1>4, <1>5, <1>6

LEMMA MappedMore ==
  ASSUME NEW tx, NEW b, NEW ops, NEW logs, NEW spoilt, NEW more, spoilt \subseteq more,
         Mapped(tx, b, ops, logs, spoilt)
  PROVE  Mapped(tx, b, ops, logs, more)
  BY DEF Mapped

-----------------------------------------------------------------------------
(* The operations: cross-chain transactions *)

LEMMA AmountsAre ==
  ASSUME NEW s, HasAmounts(s)
  PROVE  Len(s) \in Nat /\ DOMAIN s = 1 .. Len(s) /\ \A n \in 1 .. Len(s) : s[n].amount \in Nat
  <1>1. PICK T : T = {x \in Range(s) : x.amount \in Nat /\ x.flr \in BOOLEAN}
    OBVIOUS
  <1>2. s \in Seq(T)
    BY <1>1 DEF HasAmounts
  <1>3. \A n \in 1 .. Len(s) : s[n] \in T
    BY <1>2
  <1>4. QED
    BY <1>1, <1>2, <1>3

(* What is in FLR has amounts. *)
LEMMA InFLRIs ==
  ASSUME NEW s, HasAmounts(s), NEW n \in DOMAIN InFLR(s)
  PROVE  InFLR(s)[n].amount \in Nat
  <1> DEFINE P == {i \in DOMAIN s : s[i].flr}
             p == Increasing(P)
  <1>1. Len(s) \in Nat /\ DOMAIN s = 1 .. Len(s) /\ \A i \in 1 .. Len(s) : s[i].amount \in Nat
    BY AmountsAre
  <1>2. InFLR(s) = [k \in DOMAIN p |-> s[p[k]]]
    BY DEF InFLR, Where, Positions
  <1>3. P \in SUBSET (1 .. Len(s))
    BY <1>1
  <1> HIDE DEF P
  <1>4. PICK m \in 0 .. Len(s) : DOMAIN p = 1 .. m /\ \A k \in 1 .. m : p[k] \in P
    BY <1>1, <1>3, KeptPositions
  <1>5. QED
    BY <1>1, <1>2, <1>3, <1>4

(* Operations that give each account of what is in FLR c times its amount *)
LEMMA MovesScaled ==
  ASSUME NEW s, HasAmounts(s), NEW c \in Int, NEW acct, NEW os, DOMAIN os = DOMAIN InFLR(s),
         \A n \in DOMAIN InFLR(s) : Adds(os[n], acct, FlareCurrency) =
             IF InFLR(s)[n].acct = acct THEN c * InFLR(s)[n].amount ELSE 0
  PROVE  /\ Applied(os, acct, FlareCurrency) = c * AtomicMoves(s, acct)
         /\ AtomicMoves(s, acct) \in Int
  <1> DEFINE P == {i \in DOMAIN s : s[i].flr}
             p == Increasing(P)
             N == Len(s)
             F == [i \in 1 .. N |-> IF s[i].acct = acct THEN s[i].amount ELSE 0]
             v == [k \in DOMAIN p |-> F[p[k]]]
             w == [i \in 1 .. N |-> IF i \in P THEN F[i] ELSE 0]
             t == Adding(os, acct, FlareCurrency)
  <1>1. N \in Nat /\ DOMAIN s = 1 .. N /\ \A n \in 1 .. N : s[n].amount \in Nat
    BY AmountsAre
  <1>2. InFLR(s) = [k \in DOMAIN p |-> s[p[k]]]
    BY DEF InFLR, Where, Positions
  <1>3. P \in SUBSET (1 .. N) /\ F \in [1 .. N -> Int]
    BY <1>1
  <1>4. AtomicMoves(s, acct) = TotalOf(w)
    <2>1. \A i \in DOMAIN s :
            (IF s[i].flr /\ s[i].acct = acct THEN s[i].amount ELSE 0) = w[i]
      BY <1>1
    <2>2. [n \in DOMAIN s |-> IF s[n].flr /\ s[n].acct = acct THEN s[n].amount ELSE 0] = w
      BY <1>1, <2>1
    <2>3. QED
      BY <2>2 DEF AtomicMoves
  <1>5. w \in Seq(Int)
    BY <1>1, <1>3
  <1>6. \A i \in 1 .. N : F[i] = IF s[i].acct = acct THEN s[i].amount ELSE 0
    OBVIOUS
  <1> HIDE DEF P, F, w
  <1>7. PICK m \in 0 .. N : DOMAIN p = 1 .. m /\ \A k \in 1 .. m : p[k] \in P
    BY <1>1, <1>3, KeptPositions
  <1> HIDE DEF p
  <1>8. v \in Seq(Int) /\ Len(v) = m
    <2>1. \A k \in 1 .. m : F[p[k]] \in Int
      BY <1>3, <1>7
    <2>2. v \in [1 .. m -> Int] /\ m \in Nat
      BY <1>1, <1>7, <2>1
    <2>3. QED
      BY <2>2, SeqDef, LenProperties
  <1>9. TotalOf(v) = TotalOf(w)
    BY <1>1, <1>3, TotalKept DEF v, p, w
  <1>10. DOMAIN os = 1 .. m
    BY <1>2, <1>7
  <1>11. ASSUME NEW k \in 1 .. m PROVE t[k] = c * v[k] /\ t[k] \in Int
    <2>1. k \in DOMAIN InFLR(s) /\ InFLR(s)[k] = s[p[k]]
      BY <1>2, <1>7
    <2>2. p[k] \in 1 .. N
      BY <1>3, <1>7
    <2>3. t[k] = IF s[p[k]].acct = acct THEN c * s[p[k]].amount ELSE 0
      BY <1>10, <2>1 DEF Adding
    <2>4. v[k] = IF s[p[k]].acct = acct THEN s[p[k]].amount ELSE 0
      BY <1>6, <1>7, <2>2
    <2>5. PICK a \in Nat : a = s[p[k]].amount
      BY <1>1, <2>2
    <2> HIDE DEF v, t
    <2>6. CASE s[p[k]].acct = acct
      <3>1. t[k] = c * a /\ v[k] = a
        BY <2>3, <2>4, <2>5, <2>6
      <3>2. c * a \in Int
        OBVIOUS
      <3>3. QED
        BY <3>1, <3>2
    <2>7. CASE s[p[k]].acct # acct
      BY <2>3, <2>4, <2>7
    <2>8. QED
      BY <2>6, <2>7
  <1>12. t \in Seq(Int) /\ Len(t) = m
    <2>1. DOMAIN t = 1 .. m /\ t = [n \in 1 .. m |-> Adds(os[n], acct, FlareCurrency)]
      BY <1>10 DEF Adding
    <2>2. t \in [1 .. m -> Int] /\ m \in Nat
      BY <1>1, <1>7, <1>11, <2>1
    <2>3. QED
      BY <2>2, SeqDef, LenProperties
  <1> HIDE DEF v, t
  <1>13. TotalOf(t) = c * TotalOf(v)
    BY <1>8, <1>11, <1>12, TotalScaled
  <1>14. TotalOf(w) \in Int
    BY <1>5, TotalType
  <1>15. QED
    BY <1>4, <1>9, <1>13, <1>14 DEF Applied, t

LEMMA TotalIs == ASSUME NEW s, HasAmounts(s) PROVE Total(s) \in Int
  <1>1. Len(s) \in Nat /\ DOMAIN s = 1 .. Len(s) /\ \A n \in 1 .. Len(s) : s[n].amount \in Nat
    BY AmountsAre
  <1>2. PICK t : t = [n \in 1 .. Len(s) |-> s[n].amount]
    OBVIOUS
  <1>3. t \in Seq(Int)
    BY <1>1, <1>2
  <1>4. Total(s) = TotalOf(t)
    BY <1>1, <1>2 DEF Total
  <1>5. QED
    BY <1>3, <1>4, TotalType

LEMMA ImportIs ==
  ASSUME NEW tx, tx.type = "IMPORT", HasAmounts(tx.ins), HasAmounts(tx.outs)
  PROVE  CrossChainRight(tx, importOps(tx))
  <1>1. PICK a : a = importOps(tx)
    OBVIOUS
  <1>2. PICK outs : outs = InFLR(tx.outs)
    OBVIOUS
  <1>3. /\ a.ops = [n \in DOMAIN outs |->
                     Op(n - 1, "IMPORT", outs[n].acct, outs[n].amount * X2crate, TRUE, -1)]
        /\ a.fee = TotalOf([n \in DOMAIN tx.ins |-> AsInt64(tx.ins[n].amount)]) - Total(outs)
    BY <1>1, <1>2 DEF importOps
  <1>4. ASSUME NEW acct \in Account PROVE Applied(a.ops, acct, FlareCurrency) = AtomicEffect(tx, acct)
    <2>1. PICK os : os = a.ops
      OBVIOUS
    <2>2. DOMAIN os = DOMAIN InFLR(tx.outs)
      BY <1>2, <1>3, <2>1
    <2>3. PICK c \in Int : c = X2crate
      BY AmountsAssumption
    <2>4. ASSUME NEW n \in DOMAIN InFLR(tx.outs)
          PROVE  Adds(os[n], acct, FlareCurrency) =
                    IF InFLR(tx.outs)[n].acct = acct THEN c * InFLR(tx.outs)[n].amount ELSE 0
      <3>1. InFLR(tx.outs)[n].amount \in Nat
        BY <2>4, InFLRIs
      <3>2. os[n] = Op(n - 1, "IMPORT", outs[n].acct, outs[n].amount * X2crate, TRUE, -1)
        BY <1>2, <1>3, <2>1
      <3>3. Adds(os[n], acct, FlareCurrency) = IF outs[n].acct = acct THEN outs[n].amount * X2crate ELSE 0
        BY <3>2 DEF Adds, Op
      <3>4. QED
        BY <1>2, <2>3, <3>1, <3>3
    <2>5. Applied(os, acct, FlareCurrency) = c * AtomicMoves(tx.outs, acct)
      BY <2>2, <2>4, MovesScaled
    <2>6. QED
      BY <2>1, <2>3, <2>5 DEF AtomicEffect
  <1>5. ASSUME LookedAtOnce(tx), InFLR(tx.ins) = tx.ins, InFLR(tx.outs) = tx.outs
        PROVE  a.fee = Total(tx.ins) - Total(tx.outs)
    <2>1. \A n \in DOMAIN tx.ins : tx.ins[n].amount <= MaxInt64 /\ tx.ins[n].amount \in Nat
      BY <1>5, AmountsAre DEF LookedAtOnce
    <2>2. \A n \in DOMAIN tx.ins : AsInt64(tx.ins[n].amount) = tx.ins[n].amount
      BY <2>1, AmountsAssumption DEF AsInt64
    <2>3. [n \in DOMAIN tx.ins |-> AsInt64(tx.ins[n].amount)] = [n \in DOMAIN tx.ins |-> tx.ins[n].amount]
      BY <2>2
    <2>4. QED
      BY <1>2, <1>3, <1>5, <2>3 DEF Total
  <1>6. QED
    BY <1>1, <1>4, <1>5 DEF CrossChainRight

LEMMA ExportIs ==
  ASSUME NEW tx, tx.type = "EXPORT", HasAmounts(tx.ins), HasAmounts(tx.outs)
  PROVE  CrossChainRight(tx, exportOps(tx))
  <1>1. PICK a : a = exportOps(tx)
    OBVIOUS
  <1>2. PICK ins : ins = InFLR(tx.ins)
    OBVIOUS
  <1>3. /\ a.ops = [n \in DOMAIN ins |->
                     Op(n - 1, "EXPORT", ins[n].acct, -(ins[n].amount * X2crate), TRUE, -1)]
        /\ a.fee = Total(ins) - (IF tx.toPChain THEN Len(ins) ELSE 0) * Total(tx.outs)
    BY <1>1, <1>2 DEF exportOps
  <1>4. ASSUME NEW acct \in Account PROVE Applied(a.ops, acct, FlareCurrency) = AtomicEffect(tx, acct)
    <2>1. PICK os : os = a.ops
      OBVIOUS
    <2>2. DOMAIN os = DOMAIN InFLR(tx.ins)
      BY <1>2, <1>3, <2>1
    <2>3. PICK c \in Int : c = -X2crate
      BY AmountsAssumption
    <2>4. ASSUME NEW n \in DOMAIN InFLR(tx.ins)
          PROVE  Adds(os[n], acct, FlareCurrency) =
                    IF InFLR(tx.ins)[n].acct = acct THEN c * InFLR(tx.ins)[n].amount ELSE 0
      <3>1. PICK x \in Nat : x = InFLR(tx.ins)[n].amount
        BY <2>4, InFLRIs
      <3>2. os[n] = Op(n - 1, "EXPORT", ins[n].acct, -(ins[n].amount * X2crate), TRUE, -1)
        BY <1>2, <1>3, <2>1
      <3>3. Adds(os[n], acct, FlareCurrency) = IF ins[n].acct = acct THEN -(ins[n].amount * X2crate) ELSE 0
        BY <3>2 DEF Adds, Op
      <3>4. -(x * X2crate) = c * x
        BY <2>3, AmountsAssumption
      <3>5. QED
        BY <1>2, <3>1, <3>3, <3>4
    <2>5. Applied(os, acct, FlareCurrency) = c * AtomicMoves(tx.ins, acct)
          /\ AtomicMoves(tx.ins, acct) \in Int
      BY <2>2, <2>4, MovesScaled
    <2>6. PICK x \in Int : x = AtomicMoves(tx.ins, acct)
      BY <2>5
    <2>7. AtomicEffect(tx, acct) = X2crate * (-x)
      BY <2>6 DEF AtomicEffect
    <2>8. c * x = X2crate * (-x)
      BY <2>3, AmountsAssumption
    <2>9. QED
      BY <2>1, <2>5, <2>6, <2>7, <2>8
  <1>5. ASSUME LookedAtOnce(tx), InFLR(tx.ins) = tx.ins, InFLR(tx.outs) = tx.outs
        PROVE  a.fee = Total(tx.ins) - Total(tx.outs)
    <2>1. tx.toPChain /\ Len(tx.ins) = 1
      BY <1>5 DEF LookedAtOnce
    <2>2. a.fee = Total(tx.ins) - 1 * Total(tx.outs)
      BY <1>2, <1>3, <1>5, <2>1
    <2>3. QED
      BY <2>2, TotalIs
  <1>6. QED
    BY <1>1, <1>4, <1>5 DEF CrossChainRight

(* The answer has the operations of each under its identifier. *)
LEMMA CrossIs ==
  ASSUME NEW tx, tx.type \in {"IMPORT", "EXPORT"}, HasAmounts(tx.ins), HasAmounts(tx.outs),
         NEW c, c = crossChainTransaction(tx),
         NEW a, a = [id |-> tx.id, ops |-> c.ops, exported |-> c.exported, fee |-> c.fee]
  PROVE  a.id = tx.id /\ a.ops = c.ops /\ CrossChainRight(tx, a)
  <1>1. CrossChainRight(tx, c)
    BY ImportIs, ExportIs DEF crossChainTransaction
  <1>2. a.id = tx.id /\ a.ops = c.ops /\ a.fee = c.fee
    OBVIOUS
  <1>3. QED
    BY <1>1, <1>2 DEF CrossChainRight

LEMMA TransactionsAre ==
  ASSUME NEW n \in 1 .. Len(Chain), NEW s, s = Chain[n].atomic
  PROVE  /\ Len(Transactions(s)) \in Nat /\ Len(Moving(s)) = Len(Transactions(s))
         /\ Transactions(s) \in Seq(Range(Transactions(s)))
         /\ DOMAIN Moving(s) = 1 .. Len(Moving(s))
         /\ \A i \in 1 .. Len(Moving(s)) :
                /\ Transactions(s)[i].id = Moving(s)[i].id
                /\ CrossChainRight(Moving(s)[i], Transactions(s)[i])
  <1> DEFINE C == CrossChainTransactions(s)
             P == {i \in DOMAIN s : crossChainTransaction(s[i]).ops # <<>>}
             p == Increasing(P)
             t == Transactions(s)
             u == Moving(s)
  <1>1. /\ Len(s) \in Nat /\ DOMAIN s = 1 .. Len(s)
        /\ \A i \in 1 .. Len(s) : /\ s[i].type \in {"IMPORT", "EXPORT"}
                                 /\ HasAmounts(s[i].ins) /\ HasAmounts(s[i].outs)
    BY TxsAre
  <1>2. DOMAIN C = DOMAIN s
        /\ \A i \in DOMAIN s : C[i] = [id |-> s[i].id, ops |-> crossChainTransaction(s[i]).ops,
                                       exported |-> crossChainTransaction(s[i]).exported,
                                       fee |-> crossChainTransaction(s[i]).fee]
    BY DEF CrossChainTransactions
  <1> HIDE DEF C
  <1>3. ASSUME NEW i \in DOMAIN s
        PROVE  /\ C[i].id = s[i].id /\ C[i].ops = crossChainTransaction(s[i]).ops
               /\ CrossChainRight(s[i], C[i])
    <2>1. PICK tx : tx = s[i]
      OBVIOUS
    <2>2. PICK a : a = C[i]
      OBVIOUS
    <2>3. tx.type \in {"IMPORT", "EXPORT"} /\ HasAmounts(tx.ins) /\ HasAmounts(tx.outs)
      BY <1>1, <2>1
    <2>4. PICK c : c = crossChainTransaction(tx)
      OBVIOUS
    <2>5. a = [id |-> tx.id, ops |-> c.ops, exported |-> c.exported, fee |-> c.fee]
      BY <1>2, <2>1, <2>2, <2>4
    <2>6. a.id = tx.id /\ a.ops = c.ops /\ CrossChainRight(tx, a)
      BY <2>3, <2>4, <2>5, CrossIs
    <2>7. QED
      BY <2>1, <2>2, <2>4, <2>6
  <1>4. {i \in DOMAIN C : C[i].ops # <<>>} = P
    BY <1>2, <1>3
  <1>5. t = [k \in DOMAIN p |-> C[p[k]]]
    BY <1>4 DEF Transactions, Where, Positions, C
  <1>6. u = [k \in DOMAIN p |-> s[p[k]]]
    BY DEF Moving, Where, Positions
  <1>7. P \in SUBSET (1 .. Len(s))
    BY <1>1
  <1> HIDE DEF P, t, u
  <1>8. PICK m \in 0 .. Len(s) : DOMAIN p = 1 .. m /\ \A k \in 1 .. m : p[k] \in P
    BY <1>1, <1>7, KeptPositions
  <1> HIDE DEF p
  <1>9. m \in Nat /\ DOMAIN t = 1 .. m /\ DOMAIN u = 1 .. m
    BY <1>1, <1>5, <1>6, <1>8
  <1>10. t \in [1 .. m -> Range(t)] /\ u \in [1 .. m -> Range(u)]
    BY <1>5, <1>6, <1>9 DEF Range
  <1>11. t \in Seq(Range(t)) /\ Len(t) = m /\ u \in Seq(Range(u)) /\ Len(u) = m
    BY <1>9, <1>10, SeqDef, LenProperties
  <1>12. ASSUME NEW i \in 1 .. m PROVE t[i].id = u[i].id /\ CrossChainRight(u[i], t[i])
    <2>1. p[i] \in DOMAIN s /\ t[i] = C[p[i]] /\ u[i] = s[p[i]]
      BY <1>1, <1>5, <1>6, <1>7, <1>8
    <2>2. QED
      BY <1>3, <2>1
  <1>13. QED
    BY <1>9, <1>11, <1>12 DEF t, u

-----------------------------------------------------------------------------
(* The operations: answers *)

(* When all transactions have been mapped, the answer is right. *)
LEMMA TransactionAnswer ==
  ASSUME NEW q, NEW l, Progress(q, l), l.txs = <<>>, q.kind = "transaction",
         NEW a, a.block = l.block, a.txs = l.done
  PROVE  AnswerMatches(q, a)
  <1>1. PICK tx : tx = TxOf(q.tx)
    OBVIOUS
  <1>2. Plain(q, l.block) = <<tx>>
    BY <1>1 DEF Plain
  <1>3. PICK done : done = l.done
    OBVIOUS
  <1>4. /\ done \in Seq(DoneTx) /\ Len(done) + Len(l.txs) = Len(Plain(q, l.block))
        /\ \A i \in 1 .. Len(done) : /\ done[i].id = Plain(q, l.block)[i].id
                                    /\ TransactionRight(Plain(q, l.block)[i], done[i].ops, l.block)
    BY <1>3 DEF Progress
  <1>5. Len(done) = 1
    <2>1. Len(done) + Len(l.txs) = 1
      <3>1. Len(<<tx>>) = 1
        OBVIOUS
      <3>2. QED
        BY <1>2, <1>4, <3>1
    <2>2. Len(l.txs) = 0 /\ Len(done) \in Nat
      BY <1>4
    <2>3. QED
      BY <2>1, <2>2
  <1>6. done[1].id = tx.id /\ TransactionRight(tx, done[1].ops, l.block)
    BY <1>2, <1>4, <1>5
  <1>7. a.txs = done
    BY <1>3
  <1>8. done # <<>>
    <2>1. Len(<<>>) = 0 /\ 0 # 1
      OBVIOUS
    <2>2. QED
      BY <1>5, <2>1, Zenon
  <1>9. QED
    BY <1>1, <1>5, <1>6, <1>7, <1>8 DEF AnswerMatches

LEMMA BlockAnswer ==
  ASSUME NEW q, NEW l, Progress(q, l), l.txs = <<>>, q.kind = "block",
         Wanted(q) \in {q.n, q.h},
         NEW a, a.block = l.block, a.txs = l.done \o Transactions(Chain[l.block].atomic)
  PROVE  AnswerMatches(q, a)
  <1>1. PICK b : b = l.block
    OBVIOUS
  <1>2. b \in 1 .. Len(Chain) /\ b \in {q.n, q.h} /\ b # 0
    BY <1>1, ChainType DEF Progress
  <1>3. PICK txs : txs = Chain[b].txs
    OBVIOUS
  <1>4. Plain(q, b) = txs
    BY <1>3 DEF Plain
  <1>5. PICK done : done = l.done
    OBVIOUS
  <1>6. PICK cross : cross = Transactions(Chain[b].atomic)
    OBVIOUS
  <1>7. PICK moving : moving = Moving(Chain[b].atomic)
    OBVIOUS
  <1>8. /\ Len(cross) \in Nat /\ Len(moving) = Len(cross) /\ cross \in Seq(Range(cross))
        /\ DOMAIN moving = 1 .. Len(moving)
        /\ \A i \in 1 .. Len(moving) : cross[i].id = moving[i].id /\ CrossChainRight(moving[i], cross[i])
    BY <1>2, <1>6, <1>7, TransactionsAre
  <1>9. /\ done \in Seq(DoneTx) /\ Len(done) + Len(l.txs) = Len(txs)
        /\ \A i \in 1 .. Len(done) : done[i].id = txs[i].id /\ TransactionRight(txs[i], done[i].ops, b)
    BY <1>1, <1>4, <1>5 DEF Progress
  <1>10. Len(txs) \in Nat /\ DOMAIN txs = 1 .. Len(txs)
    BY <1>2, <1>3, TxsAre
  <1>11. Len(done) = Len(txs)
    BY <1>9, <1>10
  <1>12. PICK all : all = done \o cross
    OBVIOUS
  <1>13. a.txs = all /\ a.block = b
    BY <1>1, <1>5, <1>6, <1>12
  <1>14. /\ Len(all) = Len(txs) + Len(moving)
         /\ \A i \in 1 .. Len(txs) : all[i] = done[i]
         /\ \A i \in 1 .. Len(moving) : all[Len(txs) + i] = cross[i]
    <2>1. PICK D : D = Range(cross)
      OBVIOUS
    <2>2. cross \in Seq(D) /\ done \in Seq(DoneTx)
      BY <1>8, <1>9, <2>1
    <2>3. /\ Len(all) = Len(done) + Len(cross)
          /\ \A i \in 1 .. Len(done) : all[i] = done[i]
          /\ \A i \in 1 .. Len(cross) : all[Len(done) + i] = cross[i]
      <3>1. \A S : \A s, t \in Seq(S) :
                /\ Len(s \o t) = Len(s) + Len(t)
                /\ \A i \in 1 .. Len(s) : (s \o t)[i] = s[i]
                /\ \A i \in 1 .. Len(t) : (s \o t)[Len(s) + i] = t[i]
        OBVIOUS
      <3>2. cross \in Seq(D \cup DoneTx) /\ done \in Seq(D \cup DoneTx)
        BY <2>2
      <3>3. QED
        BY <1>12, <3>1, <3>2
    <2>4. QED
      BY <1>8, <1>11, <2>3
  <1>15. \A i \in DOMAIN txs : all[i].id = txs[i].id /\ TransactionRight(txs[i], all[i].ops, b)
    BY <1>9, <1>10, <1>11, <1>14
  <1>16. \A i \in DOMAIN moving : /\ all[Len(txs) + i].id = moving[i].id
                                 /\ CrossChainRight(moving[i], all[Len(txs) + i])
    BY <1>8, <1>14
  <1>17. AnswerMatches(q, a) <=>
            /\ b \in {q.n, q.h}
            /\ Len(all) = Len(txs) + Len(moving)
            /\ \A i \in DOMAIN txs : all[i].id = txs[i].id /\ TransactionRight(txs[i], all[i].ops, b)
            /\ \A i \in DOMAIN moving : /\ all[Len(txs) + i].id = moving[i].id
                                       /\ CrossChainRight(moving[i], all[Len(txs) + i])
    BY <1>2, <1>3, <1>7, <1>13 DEF AnswerMatches
  <1>18. QED
    BY <1>2, <1>14, <1>15, <1>16, <1>17

-----------------------------------------------------------------------------
(* The operations: what is right stays right when more is misread *)

LEMMA TransactionStays ==
  ASSUME misread \subseteq misread', NEW tx, NEW ops, NEW b, TransactionRight(tx, ops, b)
  PROVE  TransactionRight(tx, ops, b)'
  <1> DEFINE Flare == FlareRight(tx, ops, b)
             Tokens(S) == \A token \in Token \ S :
                \A acct \in Account : Applied(ops, acct, Named(token)) =
                    IF Shown(token) THEN TokenEffect(tx, token, acct) ELSE 0
             InOrder(S) == \A i \in DOMAIN ops :
                /\ ops[i].index = i - 1
                /\ ops[i].cur.contract \in S \cup {zeroAddress}
                   \/ ops[i].cur = Named(ops[i].cur.contract)
  <1>1. Flare /\ Tokens(misread \cup Ambiguous) /\ InOrder(misread \cup Ambiguous)
    BY DEF TransactionRight
  <1>2. Flare /\ Tokens(misread' \cup Ambiguous) /\ InOrder(misread' \cup Ambiguous)
         => TransactionRight(tx, ops, b)'
    BY DEF TransactionRight
  <1>3. ASSUME NEW S, NEW M, S \subseteq M, Tokens(S) PROVE Tokens(M)
    BY <1>3
  <1>4. ASSUME NEW S, NEW M, S \subseteq M, InOrder(S) PROVE InOrder(M)
    BY <1>4
  <1>5. misread \cup Ambiguous \subseteq misread' \cup Ambiguous
    OBVIOUS
  <1> HIDE DEF Flare, Tokens, InOrder
  <1>6. QED
    BY <1>1, <1>2, <1>3, <1>4, <1>5

LEMMA ProgressStays ==
  ASSUME misread \subseteq misread', NEW q, NEW l, Progress(q, l)
  PROVE  Progress(q, l)'
  <1>1. \A tx, ops, n : TransactionRight(tx, ops, n) => TransactionRight(tx, ops, n)'
    BY TransactionStays
  <1>2. /\ q.kind = "block" => l.block = Wanted(q) /\ l.block \in 1 .. Len(Chain)
        /\ q.kind = "transaction" => q.tx \in TxIds /\ l.block \in Height
        /\ l.done \in Seq(DoneTx)
        /\ Len(l.done) + Len(l.txs) = Len(Plain(q, l.block))
    BY DEF Progress
  <1>3. \A i \in 1 .. Len(l.done) : /\ l.done[i].id = Plain(q, l.block)[i].id
                                   /\ TransactionRight(Plain(q, l.block)[i], l.done[i].ops, l.block)'
    BY <1>1 DEF Progress
  <1>4. \A i \in 1 .. Len(l.txs) : l.txs[i] = Plain(q, l.block)[Len(l.done) + i].id
    BY DEF Progress
  <1>5. QED
    BY <1>2, <1>3, <1>4 DEF Progress

LEMMA AnswerStays ==
  ASSUME misread \subseteq misread', NEW q, NEW a, AnswerMatches(q, a)
  PROVE  AnswerMatches(q, a)'
  <1>1. \A tx, ops, n : TransactionRight(tx, ops, n) => TransactionRight(tx, ops, n)'
    BY TransactionStays
  <1>2. QED
    BY <1>1 DEF AnswerMatches

LEMMA ReachedStays ==
  ASSUME misread \subseteq misread', NEW q, NEW label, NEW l, Reached(q, label, l)
  PROVE  Reached(q, label, l)'
  <1>1. Progress(q, l) => Progress(q, l)'
    BY ProgressStays
  <1>2. PICK S, M : S = Misnamed /\ M = Misnamed'
    OBVIOUS
  <1>3. S \subseteq M
    BY <1>2 DEF Misnamed
  <1>4. Mapped(TxOf(Head(l.txs)), l.block, l.ops, l.logs, S)
        => Mapped(TxOf(Head(l.txs)), l.block, l.ops, l.logs, M)
    BY <1>3, MappedMore
  <1>5. QED
    BY <1>1, <1>2, <1>3, <1>4 DEF Reached

(* A handler that does not move *)
LEMMA OpsStay ==
  ASSUME misread \subseteq misread', NEW r \in Handlers, OpsInv(r), Still(r)
  PROVE  OpsInv(r)'
  <1>1. PICK q, label, l, a : q = req[r] /\ label = pc[r] /\ l = local[r] /\ a = resp[r]
    OBVIOUS
  <1>2. q = req'[r] /\ label = pc'[r] /\ l = local'[r] /\ a = resp'[r]
    BY <1>1 DEF Still
  <1>3. BlockKind(label, q.kind) /\ Reached(q, label, l)
        /\ (q.kind \in {"block", "transaction"} /\ a.status = "ok" => AnswerMatches(q, a))
    BY <1>1 DEF OpsInv, Answered
  <1>4. Reached(q, label, l)' /\ (AnswerMatches(q, a) => AnswerMatches(q, a)')
    BY <1>3, ReachedStays, AnswerStays
  <1>5. QED
    BY <1>2, <1>3, <1>4 DEF OpsInv, Answered

LEMMA OneMovesOps ==
  ASSUME AllOpsInv, misread \subseteq misread', CacheRight', NEW r \in Handlers,
         \A q \in Handlers \ {r} : Still(q), OpsInv(r)'
  PROVE  AllOpsInv'
  <1>1. ASSUME NEW q \in Handlers PROVE OpsInv(q)'
    <2>1. CASE q = r
      BY <2>1
    <2>2. CASE q # r
      BY <2>2, OpsStay DEF AllOpsInv
    <2>3. QED
      BY <2>1, <2>2
  <1>2. QED
    BY <1>1 DEF AllOpsInv

LEMMA CacheStays ==
  ASSUME CacheRight, misread \subseteq misread', UNCHANGED cache
  PROVE  CacheRight'
  BY DEF CacheRight, Misnamed

(* A handler that serves another request *)
FreeLabels == BalanceLabels \cup StatusLabels \cup PStatusLabels
                  \cup {"pre", "utxos", "post", "pool", "call"}

LEMMA FreeOf ==
  ASSUME NEW label \in FreeLabels \cup {"idle", "done"}, NEW kind, NEW q, NEW l
  PROVE  /\ label \notin {"block", "parent", "header", "tx"} \cup WorkLabels
         /\ Reached(q, label, l)
         /\ kind \notin {"block", "transaction"} \/ label \in {"idle", "done"} => BlockKind(label, kind)
  <1>1. label \notin {"block", "parent", "header", "tx"} \cup WorkLabels
    BY DEF FreeLabels, BalanceLabels, StatusLabels, PStatusLabels, WorkLabels
  <1>2. QED
    BY <1>1 DEF Reached, BlockKind, WorkLabels

LEMMA OtherActOps ==
  ASSUME IInv, AllOpsInv, UNCHANGED <<misread, cache>>, NEW r \in Handlers, Act(r),
         pc[r] \in FreeLabels, pc'[r] \in FreeLabels \cup {"done"}
  PROVE  AllOpsInv'
  <1>1. req[r].kind \notin {"block", "transaction"}
    BY DEF AllOpsInv, OpsInv, BlockKind, IInv, HandlerInv, KindInv, FreeLabels, BalanceLabels,
           StatusLabels, PStatusLabels
  <1>2. req'[r] = req[r]
    BY DEF Act
  <1>3. PICK q, label, l : q = req'[r] /\ label = pc'[r] /\ l = local'[r]
    OBVIOUS
  <1>4. Reached(q, label, l)' /\ BlockKind(label, q.kind)
    BY <1>1, <1>2, <1>3, FreeOf, ReachedStays
  <1>5. OpsInv(r)'
    BY <1>1, <1>2, <1>3, <1>4 DEF OpsInv, Answered
  <1>6. CacheRight'
    BY CacheStays DEF AllOpsInv
  <1>7. QED
    BY <1>5, <1>6, OneMovesOps DEF Act

(* A handler that goes on, at one of the steps that read a block; one that *)
(* answers, and one that fails                                             *)
LEMMA BlockContinues ==
  ASSUME IInv, AllOpsInv, misread \subseteq misread', CacheRight', NEW r \in Handlers,
         NEW from, NEW to, NEW l, At(r, from), Continue(r, to, l), from # "done",
         NEW q, q = req[r], BlockKind(to, q.kind), Reached(q, to, l)'
  PROVE  AllOpsInv'
  <1>1. /\ Act(r) /\ pc[r] = from /\ pc'[r] = to /\ local'[r] = l /\ resp'[r] = resp[r]
    BY ContinueAct DEF IInv
  <1>2. req'[r] = q /\ resp[r].status # "ok"
    BY <1>1 DEF Act, IInv, HandlerInv, KindInv
  <1>3. OpsInv(r)'
    BY <1>1, <1>2 DEF OpsInv, Answered
  <1>4. QED
    BY <1>1, <1>3, OneMovesOps DEF Act

LEMMA BlockReplies ==
  ASSUME IInv, AllOpsInv, UNCHANGED <<misread, cache>>, NEW r \in Handlers,
         NEW from, NEW a, NEW l, At(r, from), Reply(r, a), UNCHANGED local \/ Set(r, l),
         NEW q, q = req[r], q.kind \in {"block", "transaction"} /\ a.status = "ok" => AnswerMatches(q, a)
  PROVE  AllOpsInv'
  <1>1. Act(r) /\ pc[r] = from /\ pc'[r] = "done" /\ resp'[r] = a
    BY DEF IInv, SharedInv, At, Reply, Goto, Set, Act, Still, nodeVars
  <1>2. PICK k : k = local'[r]
    OBVIOUS
  <1>3. req'[r] = q
    BY <1>1 DEF Act
  <1>4. Reached(q, "done", k)' /\ BlockKind("done", q.kind)
    BY FreeOf, ReachedStays
  <1>5. AnswerMatches(q, a) => AnswerMatches(q, a)'
    BY AnswerStays
  <1>6. OpsInv(r)'
    BY <1>1, <1>2, <1>3, <1>4, <1>5 DEF OpsInv, Answered
  <1>7. CacheRight'
    BY CacheStays DEF AllOpsInv
  <1>8. QED
    BY <1>1, <1>6, <1>7, OneMovesOps DEF Act

LEMMA FailOps ==
  ASSUME IInv, AllOpsInv, UNCHANGED <<misread, cache>>, NEW r \in Handlers,
         NEW from, NEW err, err # "ok", At(r, from), Fail(r, err), UNCHANGED local
  PROVE  AllOpsInv'
  <1>1. PICK a : a = [NoResp EXCEPT !.status = err]
    OBVIOUS
  <1>2. a.status = err /\ Reply(r, a)
    BY <1>1 DEF Fail, NoResp
  <1>3. PICK q : q = req[r]
    OBVIOUS
  <1>4. QED
    BY <1>2, <1>3, BlockReplies

LEMMA OtherContinueOps ==
  ASSUME IInv, AllOpsInv, Quiet, NEW r \in Handlers,
         NEW from \in FreeLabels, NEW to \in FreeLabels, NEW l, At(r, from), Continue(r, to, l)
  PROVE  AllOpsInv'
  <1>1. Act(r) /\ pc[r] = from /\ pc'[r] = to
    BY ContinueAct DEF IInv
  <1>2. QED
    BY <1>1, OtherActOps DEF Quiet

LEMMA OtherReplyOps ==
  ASSUME IInv, AllOpsInv, Quiet, NEW r \in Handlers,
         NEW from \in FreeLabels, NEW a, At(r, from), Reply(r, a), UNCHANGED local
  PROVE  AllOpsInv'
  <1>1. Act(r) /\ pc[r] = from /\ pc'[r] = "done"
    BY ReplyAct DEF IInv
  <1>2. QED
    BY <1>1, OtherActOps DEF Quiet

LEMMA AccountBalanceOps ==
  ASSUME IInv, AllOpsInv, NEW r \in Handlers, AccountBalance(r)
  PROVE  AllOpsInv'
  <1>1. PICK from \in BalanceLabels : At(r, from)
    BY DEF AccountBalance, FetchBalanceHeader, NonceAt, BalanceAt, CallContract, EndOfCurrencies,
           BalanceLabels
  <1>2. Quiet
    BY DEF AccountBalance, FetchBalanceHeader, NonceAt, BalanceAt, CallContract, EndOfCurrencies
  <1>3. \/ \E to \in BalanceLabels : \E l : Continue(r, to, l)
        \/ UNCHANGED local /\ \E a : Reply(r, a)
    BY DEF AccountBalance, FetchBalanceHeader, NonceAt, BalanceAt, CallContract, EndOfCurrencies,
           BalanceLabels, Fail
  <1>4. QED
    BY <1>1, <1>2, <1>3, OtherContinueOps, OtherReplyOps DEF FreeLabels

LEMMA getAccountCoinsOps ==
  ASSUME IInv, AllOpsInv, NEW r \in Handlers, getAccountCoins(r)
  PROVE  AllOpsInv'
  <1>1. PICK from \in {"pre", "utxos", "post"} : At(r, from)
    BY DEF getAccountCoins, PreHeader, FetchPage, PostHeader
  <1>2. Quiet
    BY DEF getAccountCoins, PreHeader, FetchPage, PostHeader
  <1>3. \/ \E to \in {"utxos", "post"} : \E l : Continue(r, to, l)
        \/ UNCHANGED local /\ \E a : Reply(r, a)
    BY DEF getAccountCoins, PreHeader, FetchPage, PostHeader, NewBlockReceived, Fail
  <1>4. QED
    BY <1>1, <1>2, <1>3, OtherContinueOps, OtherReplyOps DEF FreeLabels

LEMMA NetworkStatusOps ==
  ASSUME IInv, AllOpsInv, NEW r \in Handlers, NetworkStatus(r)
  PROVE  AllOpsInv'
  <1>1. PICK from \in StatusLabels \cup PStatusLabels : At(r, from)
    BY DEF NetworkStatus, Peers, IsCBootstrapped, IsXBootstrapped, FetchCurrent, FetchFirst,
           PPeers, IsPBootstrapped, ParseCurrentBlock, StatusLabels, PStatusLabels
  <1>2. Quiet
    BY DEF NetworkStatus, Peers, IsCBootstrapped, IsXBootstrapped, FetchCurrent, FetchFirst,
           PPeers, IsPBootstrapped, ParseCurrentBlock
  <1>3. \/ \E to \in StatusLabels \cup PStatusLabels : \E l : Continue(r, to, l)
        \/ UNCHANGED local /\ \E a : Reply(r, a)
    BY DEF NetworkStatus, Peers, IsCBootstrapped, IsXBootstrapped, FetchCurrent, FetchFirst,
           PPeers, IsPBootstrapped, ParseCurrentBlock, StatusLabels, PStatusLabels
  <1>4. QED
    BY <1>1, <1>2, <1>3, OtherContinueOps, OtherReplyOps DEF FreeLabels

LEMMA OneReplyOps ==
  ASSUME IInv, AllOpsInv, NEW r \in Handlers, Mempool(r) \/ callGetTransactionReceipt(r)
  PROVE  AllOpsInv'
  <1>1. PICK from \in {"pool", "call"} : At(r, from)
    BY DEF Mempool, callGetTransactionReceipt
  <1>2. UNCHANGED local /\ Quiet /\ \E a : Reply(r, a)
    BY DEF Mempool, callGetTransactionReceipt, Fail
  <1>3. QED
    BY <1>1, <1>2, OtherReplyOps DEF FreeLabels

LEMMA ReceiveOps ==
  ASSUME TypeInv, IInv, AllOpsInv, NEW r \in Handlers, NEW q \in session.requests[r], Receive(r, q)
  PROVE  AllOpsInv'
  <1>1. SharedInv /\ NodeInv
    BY DEF IInv, TypeInv
  <1>2. q \in Request
    BY <1>1, NodeTyped
  <1>3. /\ req'[r] = q /\ UNCHANGED <<misread, cache>>
        /\ \A s \in Handlers \ {r} : Still(s)
    BY <1>1 DEF Receive, SharedInv, Fail, Reply, Goto, Still
  <1>4. \/ pc'[r] = "done" /\ resp'[r].status \in {"offline", "invalid input"}
        \/ pc'[r] = First[q.kind] /\ resp'[r] = resp[r]
    BY <1>1, ReceiveEnds
  <1>5. resp[r].status # "ok"
    <2>1. pc[r] = "idle" /\ HandlerInv(r)
      BY DEF Receive, IInv
    <2>2. QED
      BY <2>1 DEF HandlerInv, KindInv
  <1>6. PICK to, l : to = pc'[r] /\ l = local'[r]
    OBVIOUS
  <1>7. to \notin {"parent", "tx"} \cup WorkLabels /\ BlockKind(to, q.kind)
    <2>1. q.kind \in {"block", "transaction", "balance", "coins", "atomic", "status", "pstatus",
                      "mempool", "call"}
      BY <1>2 DEF Request
    <2>2. to = "done" \/ to = First[q.kind]
      BY <1>4, <1>6
    <2>3. QED
      BY <2>1, <2>2 DEF First, WorkLabels, BlockKind
  <1>8. Reached(q, to, l)'
    BY <1>7 DEF Reached, WorkLabels
  <1>9. resp'[r].status # "ok"
    BY <1>4, <1>5
  <1>10. OpsInv(r)'
    BY <1>3, <1>6, <1>7, <1>8, <1>9 DEF OpsInv, Answered
  <1>11. CacheRight'
    BY <1>3, CacheStays DEF AllOpsInv
  <1>12. QED
    BY <1>3, <1>10, <1>11, OneMovesOps

LEMMA FinishOps ==
  ASSUME IInv, AllOpsInv, NEW r \in Handlers, Finish(r)
  PROVE  AllOpsInv'
  <1>1. SharedInv
    BY DEF IInv
  <1>2. /\ pc'[r] = "idle" /\ resp'[r] = NoResp /\ UNCHANGED <<misread, cache>>
        /\ \A s \in Handlers \ {r} : Still(s)
    BY <1>1 DEF Finish, SharedInv, Goto, Still
  <1>3. PICK q, l : q = req'[r] /\ l = local'[r]
    OBVIOUS
  <1>4. Reached(q, "idle", l)' /\ BlockKind("idle", q.kind)
    BY <1>2, FreeOf, ReachedStays
  <1>5. OpsInv(r)'
    BY <1>2, <1>3, <1>4, NothingRead DEF OpsInv, Answered
  <1>6. CacheRight'
    BY <1>2, CacheStays DEF AllOpsInv
  <1>7. QED
    BY <1>2, <1>5, <1>6, OneMovesOps

LEMMA RPCErrorOps ==
  ASSUME IInv, AllOpsInv, NEW r \in Handlers, RPCError(r)
  PROVE  AllOpsInv'
  <1>1. At(r, pc[r]) /\ Fail(r, "rpc") /\ UNCHANGED <<local, misread, cache>>
    BY DEF RPCError, At, nodeVars
  <1>2. QED
    BY <1>1, FailOps

LEMMA NodeStepOps ==
  ASSUME AllOpsInv, UNCHANGED <<misread, cache, pc, req, since, local, resp>>
  PROVE  AllOpsInv'
  <1>1. ASSUME NEW q \in Handlers PROVE OpsInv(q)'
    BY OpsStay DEF AllOpsInv, Still
  <1>2. CacheRight'
    BY CacheStays DEF AllOpsInv
  <1>3. QED
    BY <1>1, <1>2 DEF AllOpsInv

-----------------------------------------------------------------------------
(* The operations: the steps of a block *)

(* What is put into the cache is right, or of a contract that is misnamed. *)
LEMMA PutRight ==
  ASSUME CacheInv, CacheRight, misread \subseteq misread', NEW e \in CacheEntry, Put(e),
         e.token \notin Misnamed' =>
            e.symbol = KnownSymbol(e.token) /\ e.decimals = Info[e.token].decimals
  PROVE  CacheRight'
  <1> DEFINE Right(x) == x.token \notin Misnamed' =>
                x.symbol = KnownSymbol(x.token) /\ x.decimals = Info[x.token].decimals
             P == {i \in DOMAIN cache : cache[i].token # e.token}
  <1>1. cache \in Seq(CacheEntry) /\ \A i \in DOMAIN cache : Right(cache[i])
    <2>1. Misnamed \subseteq Misnamed'
      BY DEF Misnamed
    <2>2. QED
      BY <2>1 DEF CacheInv, CacheEntry, CacheRight
  <1>2. Right(e)
    OBVIOUS
  <1>3. (\A i \in DOMAIN cache' : Right(cache'[i])) => CacheRight'
    BY DEF CacheRight
  <1>4. P \in SUBSET DOMAIN cache
    OBVIOUS
  <1>5. Others(e.token) = [k \in DOMAIN Increasing(P) |-> cache[Increasing(P)[k]]]
    BY DEF Others, Where, Positions
  <1> HIDE DEF P, Right
  <1>6. PICK t \in Seq(CacheEntry) :
            /\ t = [k \in DOMAIN Increasing(P) |-> cache[Increasing(P)[k]]]
            /\ Len(t) <= Len(cache)
            /\ \A k \in DOMAIN t : Increasing(P)[k] \in P /\ t[k] = cache[Increasing(P)[k]]
    BY <1>1, <1>4, KeptSequence
  <1>7. \A k \in DOMAIN t : Right(t[k])
    BY <1>1, <1>4, <1>6
  <1>8. PICK u : u = IF Len(t) < CacheSize THEN t ELSE Tail(t)
    OBVIOUS
  <1>9. cache' = Append(u, e)
    BY <1>5, <1>6, <1>8 DEF Put
  <1>10. CacheSize \in Nat /\ CacheSize # 0 /\ Len(t) \in Nat
    BY ConstantsAssumption
  <1>11. u \in Seq(CacheEntry) /\ \A k \in DOMAIN u : Right(u[k])
    <2>1. CASE Len(t) < CacheSize
      BY <1>7, <1>8, <2>1
    <2>2. CASE ~(Len(t) < CacheSize)
      <3>1. t # <<>> /\ u = Tail(t)
        BY <1>8, <1>10, <2>2
      <3>2. /\ u \in Seq(CacheEntry) /\ Len(u) = Len(t) - 1
            /\ \A k \in 1 .. Len(u) : u[k] = t[k + 1]
        BY <3>1
      <3>3. \A k \in DOMAIN u : k + 1 \in DOMAIN t /\ u[k] = t[k + 1]
        BY <1>10, <3>2
      <3>4. QED
        BY <1>7, <3>2, <3>3
    <2>3. QED
      BY <2>1, <2>2
  <1>12. PICK c : c = cache'
    OBVIOUS
  <1>13. /\ DOMAIN c = 1 .. Len(u) + 1 /\ DOMAIN u = 1 .. Len(u) /\ Len(u) \in Nat
         /\ \A k \in DOMAIN u : c[k] = u[k]
         /\ c[Len(u) + 1] = e
    BY <1>9, <1>11, <1>12, AppendProperties
  <1>14. \A k \in DOMAIN c : k \in DOMAIN u \/ k = Len(u) + 1
    BY <1>13
  <1>15. \A k \in DOMAIN c : Right(c[k])
    BY <1>2, <1>11, <1>13, <1>14
  <1>16. QED
    BY <1>3, <1>12, <1>15

(* Transactions are mapped from the first to the last. *)
LEMMA ProgressStarts ==
  ASSUME NEW q, q.kind = "block", NEW n, n \in 1 .. Len(Chain), n = Wanted(q),
         NEW l, l.block = n, l.done = <<>>, l.txs = Ids(Chain[n].txs)
  PROVE  Progress(q, l)
  <1>1. PICK txs : txs = Chain[n].txs
    OBVIOUS
  <1>2. DOMAIN txs = 1 .. Len(txs) /\ Len(txs) \in Nat
    BY <1>1, TxsAre
  <1>3. PICK ids : ids = Ids(txs)
    OBVIOUS
  <1>4. ids = [i \in 1 .. Len(txs) |-> txs[i].id]
    BY <1>2, <1>3 DEF Ids
  <1>5. Len(ids) = Len(txs)
    BY <1>2, <1>4
  <1>6. l.txs = ids /\ Plain(q, l.block) = txs
    BY <1>1, <1>3 DEF Plain
  <1>7. PICK done : done = l.done
    OBVIOUS
  <1>8. done = <<>> /\ Len(done) = 0 /\ done \in Seq(DoneTx)
    BY <1>7
  <1>9. Len(done) + Len(ids) = Len(txs)
    BY <1>2, <1>5, <1>8
  <1>10. \A i \in 1 .. Len(ids) : ids[i] = txs[Len(done) + i].id
    BY <1>2, <1>4, <1>5, <1>8
  <1>11. \A i \in 1 .. Len(done) : FALSE
    BY <1>8
  <1>12. QED
    BY <1>6, <1>7, <1>8, <1>9, <1>10, <1>11 DEF Progress

LEMMA OneStarts ==
  ASSUME NEW q, q.kind = "transaction", q.tx \in TxIds,
         NEW l, l.block \in Height, l.done = <<>>, l.txs = <<q.tx>>
  PROVE  Progress(q, l)
  <1>1. PICK tx : tx = TxOf(q.tx)
    OBVIOUS
  <1>2. tx.id = q.tx
    BY <1>1, TxsAre
  <1>3. PICK txs, ids, done : txs = <<tx>> /\ ids = <<q.tx>> /\ done = <<>>
    OBVIOUS
  <1>4. /\ Len(txs) = 1 /\ txs[1] = tx /\ Len(ids) = 1 /\ ids[1] = q.tx
        /\ Len(done) = 0 /\ done \in Seq(DoneTx)
    BY <1>3
  <1>5. Plain(q, l.block) = txs /\ l.txs = ids /\ l.done = done
    BY <1>1, <1>3 DEF Plain
  <1>6. \A i \in 1 .. Len(ids) : ids[i] = txs[Len(done) + i].id
    BY <1>2, <1>4
  <1>7. Len(done) + Len(ids) = Len(txs) /\ \A i \in 1 .. Len(done) : FALSE
    BY <1>4
  <1>8. QED
    BY <1>4, <1>5, <1>6, <1>7 DEF Progress

LEMMA ProgressSame ==
  ASSUME NEW q, NEW l, Progress(q, l), NEW k, k.block = l.block, k.txs = l.txs, k.done = l.done
  PROVE  Progress(q, k)
  BY DEF Progress

LEMMA PlainIs ==
  ASSUME NEW q, q.kind \in {"block", "transaction"}, NEW l, Progress(q, l),
         NEW plain, plain = Plain(q, l.block)
  PROVE  Len(plain) \in Nat /\ \A i \in 1 .. Len(plain) : plain[i] \in Txs
  <1>1. CASE q.kind = "block"
    <2>1. l.block \in 1 .. Len(Chain) /\ plain = Chain[l.block].txs
      BY <1>1 DEF Progress, Plain
    <2>2. QED
      BY <2>1, TxsAre
  <1>2. CASE q.kind = "transaction"
    <2>1. PICK tx : tx = TxOf(q.tx)
      OBVIOUS
    <2>2. tx \in Txs /\ plain = <<tx>>
      BY <1>2, <2>1, TxsAre DEF Progress, Plain
    <2>3. Len(<<tx>>) = 1 /\ <<tx>>[1] = tx
      OBVIOUS
    <2>4. QED
      BY <2>2, <2>3
  <1>3. QED
    BY <1>1, <1>2

(* The first transaction left has been mapped. *)
TxMapped(l, k, ops) ==
    /\ l.txs \in Seq(TxIds) /\ l.txs # <<>>
    /\ ops \in Seq(AnyOp) /\ TransactionRight(TxOf(Head(l.txs)), ops, l.block)
    /\ k.block = l.block /\ k.txs = Tail(l.txs)
    /\ k.done = Append(l.done, [id |-> Head(l.txs), ops |-> ops])

LEMMA ProgressGoesOn ==
  ASSUME NEW q, q.kind \in {"block", "transaction"}, NEW l, Progress(q, l),
         NEW ops, NEW k, TxMapped(l, k, ops)
  PROVE  Progress(q, k)
  <1>0. /\ l.txs \in Seq(TxIds) /\ l.txs # <<>>
        /\ ops \in Seq(AnyOp) /\ TransactionRight(TxOf(Head(l.txs)), ops, l.block)
        /\ k.block = l.block /\ k.txs = Tail(l.txs)
        /\ k.done = Append(l.done, [id |-> Head(l.txs), ops |-> ops])
    BY DEF TxMapped
  <1>1. PICK plain : plain = Plain(q, l.block)
    OBVIOUS
  <1>2. Len(plain) \in Nat /\ \A i \in 1 .. Len(plain) : plain[i] \in Txs
    BY <1>1, PlainIs
  <1>3. PICK done, txs : done = l.done /\ txs = l.txs
    OBVIOUS
  <1>4. /\ done \in Seq(DoneTx) /\ Len(done) \in Nat /\ Len(done) + Len(txs) = Len(plain)
        /\ \A i \in 1 .. Len(done) :
                done[i].id = plain[i].id /\ TransactionRight(plain[i], done[i].ops, l.block)
        /\ \A i \in 1 .. Len(txs) : txs[i] = plain[Len(done) + i].id
    <2>1. /\ done \in Seq(DoneTx) /\ Len(done) + Len(txs) = Len(plain)
          /\ \A i \in 1 .. Len(done) : /\ done[i].id = plain[i].id
                                        /\ TransactionRight(plain[i], done[i].ops, l.block)
          /\ \A i \in 1 .. Len(txs) : txs[i] = plain[Len(done) + i].id
      BY <1>1, <1>3, Zenon DEF Progress
    <2>2. Len(done) \in Nat
      BY <2>1
    <2>3. QED
      BY <2>1, <2>2
  <1>5. PICK n : n = Len(done) + 1
    OBVIOUS
  <1>6. txs \in Seq(TxIds) /\ txs # <<>>
    BY <1>0, <1>3
  <1>7. PICK id, rest : id = Head(txs) /\ rest = Tail(txs)
    OBVIOUS
  <1>8. /\ Len(txs) \in Nat /\ Len(txs) >= 1 /\ id = txs[1] /\ id \in TxIds
        /\ Len(rest) = Len(txs) - 1 /\ \A i \in 1 .. Len(rest) : rest[i] = txs[i + 1]
    BY <1>6, <1>7
  <1>9. n \in 1 .. Len(plain) /\ id = plain[n].id /\ TxOf(id) = plain[n]
    <2>1. n \in 1 .. Len(plain) /\ id = plain[n].id
      BY <1>2, <1>4, <1>5, <1>8
    <2>2. QED
      BY <1>2, <2>1, TxsAre
  <1>10. PICK d : d = [id |-> id, ops |-> ops]
    OBVIOUS
  <1>11. d \in DoneTx /\ d.id = plain[n].id /\ TransactionRight(plain[n], d.ops, l.block)
    <2>1. d.id = id /\ d.ops = ops
      BY <1>10
    <2>2. d \in DoneTx
      BY <1>0, <1>8, <1>10 DEF DoneTx
    <2>3. QED
      BY <1>0, <1>3, <1>7, <1>9, <2>1, <2>2
  <1>12. PICK all : all = Append(done, d)
    OBVIOUS
  <1>13. /\ all \in Seq(DoneTx) /\ Len(all) = n
         /\ \A i \in 1 .. Len(done) : all[i] = done[i]
         /\ all[n] = d
    <2>1. done \in Seq(DoneTx) /\ d \in DoneTx /\ Len(done) \in Nat
      BY <1>4, <1>11
    <2>2. QED
      BY <1>5, <1>12, <2>1, AppendProperties
  <1>14. \A i \in 1 .. n : i \in 1 .. Len(done) \/ i = n
    BY <1>4, <1>5
  <1>15. \A i \in 1 .. Len(all) :
            all[i].id = plain[i].id /\ TransactionRight(plain[i], all[i].ops, l.block)
    BY <1>4, <1>11, <1>13, <1>14
  <1>16. Len(all) + Len(rest) = Len(plain)
    <2>1. Len(all) = Len(done) + 1
      BY <1>5, <1>13
    <2>2. Len(done) + Len(txs) = Len(plain) /\ Len(done) \in Nat
      BY <1>4
    <2>3. Len(rest) = Len(txs) - 1 /\ Len(txs) \in Nat
      BY <1>8
    <2>4. QED
      BY <2>1, <2>2, <2>3
  <1>17. \A i \in 1 .. Len(rest) : rest[i] = plain[Len(all) + i].id
    <2>1. ASSUME NEW i \in 1 .. Len(rest) PROVE rest[i] = plain[Len(all) + i].id
      <3>1. i + 1 \in 1 .. Len(txs) /\ Len(done) + (i + 1) = Len(all) + i
        BY <1>4, <1>5, <1>8, <1>13
      <3>2. QED
        BY <1>4, <1>8, <3>1
    <2>2. QED
      BY <2>1
  <1>18. k.done = all /\ k.txs = rest /\ Plain(q, k.block) = plain /\ k.block = l.block
    BY <1>0, <1>1, <1>3, <1>7, <1>10, <1>12
  <1>19. /\ q.kind = "block" => l.block = Wanted(q) /\ l.block \in 1 .. Len(Chain)
         /\ q.kind = "transaction" => q.tx \in TxIds /\ l.block \in Height
    BY DEF Progress
  <1>20. QED
    <2>1. k.done \in Seq(DoneTx) /\ Len(k.done) + Len(k.txs) = Len(Plain(q, k.block))
      BY <1>13, <1>16, <1>18
    <2>2. \A i \in 1 .. Len(k.done) : /\ k.done[i].id = Plain(q, k.block)[i].id
                                      /\ TransactionRight(Plain(q, k.block)[i], k.done[i].ops, k.block)
      BY <1>15, <1>18
    <2>3. \A i \in 1 .. Len(k.txs) : k.txs[i] = Plain(q, k.block)[Len(k.done) + i].id
      BY <1>17, <1>18
    <2>4. /\ q.kind = "block" => k.block = Wanted(q) /\ k.block \in 1 .. Len(Chain)
          /\ q.kind = "transaction" => q.tx \in TxIds /\ k.block \in Height
      BY <1>18, <1>19
    <2>5. QED
      BY <2>1, <2>2, <2>3, <2>4, Zenon DEF Progress

LEMMA NextTxOps ==
  ASSUME IInv, AllOpsInv, Quiet, NEW r \in Handlers, NEW from, from # "done", NEW l,
         At(r, from), NextTx(r, l), NEW q, q = req[r], q.kind \in {"block", "transaction"},
         Progress(q, l)
  PROVE  AllOpsInv'
  <1>1. CASE l.txs # <<>>
    <2>1. Continue(r, "receipt", l)
      BY <1>1 DEF NextTx, Continue
    <2>2. Progress(q, l)' /\ misread \subseteq misread' /\ CacheRight'
      BY ProgressStays, CacheStays DEF Quiet, AllOpsInv
    <2>3. Reached(q, "receipt", l)' /\ BlockKind("receipt", q.kind)
      BY <2>2 DEF Reached, BlockKind, WorkLabels
    <2>4. QED
      BY <2>1, <2>2, <2>3, BlockContinues
  <1>2. CASE ~(l.txs # <<>>)
    <2>1. Set(r, l) /\ Reply(r, Answer(r, l)) /\ l.txs = <<>>
      BY <1>2 DEF NextTx
    <2>2. PICK a : a = Answer(r, l)
      OBVIOUS
    <2>3. CASE q.kind = "transaction"
      <3>1. a = [Ok EXCEPT !.block = l.block, !.txs = l.done]
        BY <2>2, <2>3 DEF Answer
      <3>2. a.block = l.block /\ a.txs = l.done
        BY <3>1 DEF Ok, NoResp
      <3>3. AnswerMatches(q, a)
        BY <2>1, <2>3, <3>2, TransactionAnswer
      <3>4. QED
        BY <2>1, <2>2, <3>3, BlockReplies DEF Quiet
    <2>4. CASE q.kind = "block"
      <3>1. a = [Ok EXCEPT !.block = l.block, !.parent = l.block - 1,
                           !.txs = l.done \o Transactions(Chain[l.block].atomic)]
        BY <2>2, <2>4 DEF Answer
      <3>2. a.block = l.block /\ a.txs = l.done \o Transactions(Chain[l.block].atomic)
        BY <3>1 DEF Ok, NoResp
      <3>3. Wanted(q) \in {q.n, q.h}
        BY DEF Wanted
      <3>4. AnswerMatches(q, a)
        BY <2>1, <2>4, <3>2, <3>3, BlockAnswer
      <3>5. QED
        BY <2>1, <2>2, <3>4, BlockReplies DEF Quiet
    <2>5. QED
      BY <2>3, <2>4
  <1>3. QED
    BY <1>1, <1>2

(* What is known of a handler at a label *)
LEMMA AtOps ==
  ASSUME TypeInv, IInv, AllOpsInv, NEW r \in Handlers, NEW from, At(r, from),
         NEW q, q = req[r], NEW l, l = local[r]
  PROVE  /\ HandlerType(r) /\ Knows(l, from) /\ DOMAIN l = Fields
         /\ BlockKind(from, q.kind) /\ Reached(q, from, l)
         /\ q \in Request \cup {NoReq}
         /\ q.n # None => q.n \in Height
         /\ q.h # None => q.h \in Height
  <1>1. HandlerType(r) /\ OpsInv(r) /\ pc[r] = from
    BY DEF TypeInv, AllOpsInv, At
  <1>2. q \in Request \cup {NoReq} /\ DOMAIN l = Fields
    BY LocalFields DEF IInv, HandlerInv, KindInv
  <1>3. /\ q.n # None => q.n \in Height
        /\ q.h # None => q.h \in Height
    BY <1>2 DEF Request, NoReq
  <1>4. QED
    BY <1>1, <1>2, <1>3 DEF HandlerType, OpsInv

LEMMA GenesisOps ==
  ASSUME TypeInv, IInv, AllOpsInv, NEW r \in Handlers, Genesis(r)
  PROVE  AllOpsInv'
  <1>1. PICK q, l : q = req[r] /\ l = local[r]
    OBVIOUS
  <1>2. PICK a : a = [Ok EXCEPT !.block = 0, !.parent = 0]
    OBVIOUS
  <1>3. At(r, "block") /\ isGenesisBlockRequest(q) /\ Reply(r, a) /\ UNCHANGED local /\ Quiet
    BY <1>1, <1>2 DEF Genesis
  <1>4. q.kind = "block"
    BY <1>1, <1>3, AtOps DEF BlockKind
  <1>5. a.block = 0 /\ a.txs = <<>>
    BY <1>2 DEF Ok, NoResp
  <1>6. 0 \in {q.n, q.h}
    BY <1>3 DEF isGenesisBlockRequest
  <1>7. AnswerMatches(q, a)
    <2>1. PICK txs : txs = <<>>
      OBVIOUS
    <2>2. Len(txs) = 0 /\ Len(txs) = Len(txs) + Len(txs) /\ \A i \in DOMAIN txs : FALSE
      BY <2>1
    <2>3. AnswerMatches(q, a) <=>
            /\ 0 \in {q.n, q.h}
            /\ Len(txs) = Len(txs) + Len(txs)
            /\ \A i \in DOMAIN txs : /\ txs[i].id = txs[i].id
                                    /\ TransactionRight(txs[i], txs[i].ops, 0)
            /\ \A i \in DOMAIN txs : /\ txs[Len(txs) + i].id = txs[i].id
                                    /\ CrossChainRight(txs[i], txs[Len(txs) + i])
      BY <1>4, <1>5, <2>1 DEF AnswerMatches
    <2>4. QED
      BY <1>6, <2>2, <2>3
  <1>8. QED
    BY <1>1, <1>3, <1>7, BlockReplies DEF Quiet

LEMMA QuietOps ==
  ASSUME AllOpsInv, Quiet
  PROVE  misread \subseteq misread' /\ CacheRight' /\ UNCHANGED <<misread, cache>>
  BY CacheStays DEF AllOpsInv, Quiet

LEMMA FetchBlockOps ==
  ASSUME TypeInv, IInv, AllOpsInv, NEW r \in Handlers, FetchBlock(r)
  PROVE  AllOpsInv'
  <1>1. PICK q, n : q = req[r] /\ n = Wanted(q)
    OBVIOUS
  <1>2. At(r, "block") /\ Quiet
    BY DEF FetchBlock
  <1>3. CASE n > accepted
    <2>1. Fail(r, "not found") /\ UNCHANGED local
      BY <1>1, <1>3 DEF FetchBlock
    <2>2. QED
      BY <1>2, <2>1, FailOps, QuietOps
  <1>4. CASE ~(n > accepted)
    <2> DEFINE txs == IF n = 0 THEN <<>> ELSE Ids(Chain[n].txs)
               l == [NoLocal EXCEPT !.block = n, !.txs = txs]
               to == IF n = 1 THEN "trace" ELSE "parent"
    <2>1. Continue(r, to, l)
      BY <1>1, <1>4 DEF FetchBlock
    <2>2. l.block = n /\ l.txs = txs /\ l.done = <<>>
      BY DEF NoLocal
    <2>3. q.kind = "block" /\ n # None /\ n \in Height
      BY <1>1, <1>2, AtOps DEF BlockKind, HandlerType, At, Wanted
    <2>4. n # 0 => n \in 1 .. Len(Chain) /\ txs = Ids(Chain[n].txs)
      BY <2>3, ChainType DEF Height
    <2> HIDE DEF txs, l
    <2>5. n # 0 => Progress(q, l)
      BY <1>1, <2>2, <2>3, <2>4, ProgressStarts
    <2>6. misread \subseteq misread' /\ CacheRight'
      BY <1>2, QuietOps
    <2>7. CASE n = 1
      <3>1. Progress(q, l)'
        BY <2>5, <2>6, <2>7, ProgressStays
      <3>2. Reached(q, "trace", l)' /\ BlockKind("trace", q.kind)
        BY <2>3, <3>1 DEF Reached, BlockKind, WorkLabels
      <3>3. QED
        BY <1>1, <1>2, <2>1, <2>6, <2>7, <3>2, BlockContinues
    <2>8. CASE n # 1
      <3>1. Reached(q, "parent", l)' /\ BlockKind("parent", q.kind)
        BY <1>1, <2>2, <2>3, <2>4 DEF Reached, BlockKind, WorkLabels
      <3>2. QED
        BY <1>1, <1>2, <2>1, <2>6, <2>8, <3>1, BlockContinues
    <2>9. QED
      BY <2>7, <2>8
  <1>5. QED
    BY <1>3, <1>4

LEMMA FetchParentOps ==
  ASSUME TypeInv, IInv, AllOpsInv, NEW r \in Handlers, FetchParent(r)
  PROVE  AllOpsInv'
  <1>1. PICK q, l : q = req[r] /\ l = local[r]
    OBVIOUS
  <1>2. At(r, "parent") /\ Quiet
    BY DEF FetchParent
  <1>3. CASE l.block = 0
    <2>1. Fail(r, "client") /\ UNCHANGED local
      BY <1>1, <1>3 DEF FetchParent
    <2>2. QED
      BY <1>2, <2>1, FailOps, QuietOps
  <1>4. CASE l.block # 0
    <2>1. Continue(r, "trace", l)
      BY <1>1, <1>4 DEF FetchParent
    <2>2. BlockKind("parent", q.kind) /\ Reached(q, "parent", l)
      BY <1>1, <1>2, AtOps
    <2>3. PICK n : n = l.block
      OBVIOUS
    <2>4. /\ q.kind = "block" /\ n = Wanted(q) /\ l.done = <<>>
          /\ n \in 1 .. Len(Chain) /\ l.txs = Ids(Chain[n].txs)
      BY <1>4, <2>2, <2>3 DEF BlockKind, Reached
    <2>5. Progress(q, l)
      BY <2>3, <2>4, ProgressStarts
    <2>6. misread \subseteq misread' /\ CacheRight'
      BY <1>2, QuietOps
    <2>7. Progress(q, l)'
      BY <2>5, <2>6, ProgressStays
    <2>8. Reached(q, "trace", l)' /\ BlockKind("trace", q.kind)
      BY <2>4, <2>7 DEF Reached, BlockKind, WorkLabels
    <2>9. QED
      BY <1>1, <1>2, <2>1, <2>6, <2>8, BlockContinues
  <1>5. QED
    BY <1>3, <1>4

LEMMA FetchHeaderOps ==
  ASSUME TypeInv, IInv, AllOpsInv, NEW r \in Handlers, FetchHeader(r)
  PROVE  AllOpsInv'
  <1>1. PICK q : q = req[r]
    OBVIOUS
  <1>2. At(r, "header") /\ Quiet
    BY DEF FetchHeader
  <1>3. PICK l : l = [NoLocal EXCEPT !.block = q.h]
    OBVIOUS
  <1>4. \/ Fail(r, "client") /\ UNCHANGED local
        \/ Continue(r, "tx", l)
    BY <1>1, <1>3 DEF FetchHeader
  <1>5. CASE Fail(r, "client") /\ UNCHANGED local
    BY <1>2, <1>5, FailOps, QuietOps
  <1>6. CASE Continue(r, "tx", l)
    <2>1. l.done = <<>>
      BY <1>3 DEF NoLocal
    <2>2. q.kind = "transaction"
      BY <1>1, <1>2, AtOps DEF BlockKind
    <2>n. l.block = q.h /\ q.h \in Height
      <3>1. /\ HandlerType(r) /\ q \in Request \cup {NoReq}
            /\ q.h # None => q.h \in Height
        BY <1>1, <1>2, AtOps
      <3>2. Wanted(q) # None
        BY <1>1, <1>2, <3>1 DEF HandlerType, At
      <3>3. q \in Request
        BY <2>2, <3>1 DEF NoReq
      <3>4. q.n = None <=> q.h = None
        BY <2>2, <3>3 DEF Request
      <3>5. q.h # None
        BY <3>2, <3>4 DEF Wanted
      <3>6. l.block = q.h
        BY <1>3 DEF NoLocal
      <3>7. QED
        BY <3>1, <3>5, <3>6
    <2>3. Reached(q, "tx", l)' /\ BlockKind("tx", q.kind)
      BY <2>1, <2>2, <2>n DEF Reached, BlockKind, WorkLabels
    <2>4. QED
      BY <1>1, <1>2, <1>6, <2>3, BlockContinues, QuietOps
  <1>7. QED
    BY <1>4, <1>5, <1>6

LEMMA FetchTransactionOps ==
  ASSUME TypeInv, IInv, AllOpsInv, NEW r \in Handlers, FetchTransaction(r)
  PROVE  AllOpsInv'
  <1>1. PICK q, l : q = req[r] /\ l = local[r]
    OBVIOUS
  <1>2. At(r, "tx") /\ Quiet
    BY DEF FetchTransaction
  <1>3. q.kind = "transaction" /\ l.done = <<>> /\ l.block \in Height /\ DOMAIN l = Fields
    BY <1>1, <1>2, AtOps DEF BlockKind, Reached
  <1>4. CASE AcceptedTx(q.tx)
    <2>1. PICK k : k = [l EXCEPT !.txs = <<q.tx>>]
      OBVIOUS
    <2>2. Continue(r, "trace", k)
      BY <1>1, <1>4, <2>1 DEF FetchTransaction
    <2>3. q.tx \in TxIds
      <3>1. PICK n \in 1 .. accepted : q.tx \in InBlock(n)
        BY <1>4 DEF AcceptedTx
      <3>2. n \in 1 .. Len(Chain)
        BY <3>1, NodeTyped, ChainType DEF TypeInv
      <3>3. QED
        BY <3>1, <3>2, ChainType DEF InBlock
    <2>4. k.block = l.block /\ k.txs = <<q.tx>> /\ k.done = <<>>
      BY <1>3, <2>1 DEF Fields
    <2>5. Progress(q, k)
      BY <1>3, <2>3, <2>4, OneStarts
    <2>6. misread \subseteq misread' /\ CacheRight'
      BY <1>2, QuietOps
    <2>7. Progress(q, k)'
      BY <2>5, <2>6, ProgressStays
    <2>8. Reached(q, "trace", k)' /\ BlockKind("trace", q.kind)
      BY <1>3, <2>7 DEF Reached, BlockKind, WorkLabels
    <2>9. QED
      BY <1>1, <1>2, <2>2, <2>6, <2>8, BlockContinues
  <1>5. CASE ~AcceptedTx(q.tx)
    <2>1. UNCHANGED local /\ (Reply(r, Ok) \/ Fail(r, "client"))
      BY <1>1, <1>5 DEF FetchTransaction
    <2>2. AnswerMatches(q, Ok)
      <3>1. PICK txs : txs = <<>>
        OBVIOUS
      <3>2. Len(txs) = 0 /\ Len(txs) = Len(txs) + Len(txs) /\ \A i \in DOMAIN txs : FALSE
        BY <3>1
      <3>3. Ok.txs = txs
        BY <3>1 DEF Ok, NoResp
      <3>4. AnswerMatches(q, Ok) <=>
              /\ Len(txs) = Len(txs) + Len(txs)
              /\ \A i \in DOMAIN txs : /\ txs[i].id = txs[i].id
                                      /\ TransactionRight(txs[i], txs[i].ops, Ok.block)
              /\ \A i \in DOMAIN txs : /\ txs[Len(txs) + i].id = txs[i].id
                                      /\ CrossChainRight(txs[i], txs[Len(txs) + i])
        BY <1>3, <3>1, <3>3 DEF AnswerMatches
      <3>5. QED
        BY <3>2, <3>4
    <2>3. PICK a : a = Ok
      OBVIOUS
    <2>4. QED
      BY <1>1, <1>2, <2>1, <2>2, <2>3, BlockReplies, FailOps, QuietOps
  <1>6. QED
    BY <1>4, <1>5

(* Of the transactions left, the first is looked at. *)
LEMMA AtWork ==
  ASSUME TypeInv, IInv, AllOpsInv, NEW r \in Handlers, NEW from \in WorkLabels, At(r, from),
         NEW q, q = req[r], NEW l, l = local[r]
  PROVE  /\ q.kind \in {"block", "transaction"} /\ Progress(q, l) /\ Knows(l, from)
         /\ l.block \in Height
         /\ l.txs \in Seq(TxIds) /\ l.logs \in Seq(EventLog) /\ DOMAIN l = Fields
         /\ from # "trace" => /\ l.txs # <<>> /\ Head(l.txs) \in TxIds
                              /\ TxOf(Head(l.txs)) \in Txs
         /\ from \in {"log", "symbol", "decimals"} =>
                Mapped(TxOf(Head(l.txs)), l.block, l.ops, l.logs, Misnamed) /\ LogsLeft(l.logs)
  <1>1. /\ Knows(l, from) /\ DOMAIN l = Fields /\ BlockKind(from, q.kind) /\ Reached(q, from, l)
    BY AtOps
  <1>2. q.kind \in {"block", "transaction"} /\ Progress(q, l)
    BY <1>1 DEF BlockKind, Reached
  <1>3. l.txs \in Seq(TxIds) /\ l.logs \in Seq(EventLog)
    BY <1>1 DEF Knows
  <1>4. ASSUME from # "trace"
        PROVE  l.txs # <<>> /\ Head(l.txs) \in TxIds /\ TxOf(Head(l.txs)) \in Txs
    <2>1. l.txs # <<>>
      BY <1>1, <1>4 DEF Knows, TxLabels, WorkLabels
    <2>2. PICK txs : txs = l.txs
      OBVIOUS
    <2>3. Head(txs) \in TxIds
      BY <1>3, <2>1, <2>2, HeadTailProperties
    <2>4. QED
      BY <2>1, <2>2, <2>3, TxsAre
  <1>5. from \in {"log", "symbol", "decimals"} =>
            Mapped(TxOf(Head(l.txs)), l.block, l.ops, l.logs, Misnamed) /\ LogsLeft(l.logs)
    BY <1>1 DEF Reached
  <1>6. l.block \in Height
    <2>1. l.block \in 1 .. Len(Chain) \/ l.block \in Height
      BY <1>2 DEF Progress
    <2>2. QED
      BY <2>1, ChainType DEF Height
  <1>7. QED
    BY <1>1, <1>2, <1>3, <1>4, <1>5, <1>6

LEMMA FetchTraceOps ==
  ASSUME TypeInv, IInv, AllOpsInv, NEW r \in Handlers, FetchTrace(r)
  PROVE  AllOpsInv'
  <1>1. PICK q, l : q = req[r] /\ l = local[r]
    OBVIOUS
  <1>2. At(r, "trace") /\ NextTx(r, l) /\ Quiet
    BY <1>1 DEF FetchTrace
  <1>3. q.kind \in {"block", "transaction"} /\ Progress(q, l)
    BY <1>1, <1>2, AtWork DEF WorkLabels
  <1>4. QED
    BY <1>1, <1>2, <1>3, NextTxOps

LEMMA FetchReceiptOps ==
  ASSUME TypeInv, IInv, AllOpsInv, NEW r \in Handlers, FetchReceipt(r)
  PROVE  AllOpsInv'
  <1>1. PICK q, l : q = req[r] /\ l = local[r]
    OBVIOUS
  <1>2. PICK tx : tx = TxOf(Head(l.txs))
    OBVIOUS
  <1>b. PICK b : b = l.block
    OBVIOUS
  <1>3. PICK ops, logs : ops = MinedOps(tx, b) /\ logs = KeptLogs(tx.logs)
    OBVIOUS
  <1>4. PICK k : k = [l EXCEPT !.ops = ops, !.logs = logs]
    OBVIOUS
  <1>5. At(r, "receipt") /\ Continue(r, "log", k) /\ Quiet
    BY <1>1, <1>2, <1>b, <1>3, <1>4 DEF FetchReceipt, KeptLogs
  <1>6. /\ q.kind \in {"block", "transaction"} /\ Progress(q, l) /\ DOMAIN l = Fields /\ tx \in Txs
        /\ b \in Height
    BY <1>1, <1>2, <1>b, <1>5, AtWork DEF WorkLabels
  <1>7. /\ k.block = l.block /\ k.txs = l.txs /\ k.done = l.done /\ k.ops = ops /\ k.logs = logs
    BY <1>4, <1>6 DEF Fields
  <1>8. Progress(q, k)
    BY <1>6, <1>7, ProgressSame
  <1>9. PICK spoilt : spoilt = Misnamed'
    OBVIOUS
  <1>10. Mapped(tx, b, ops, logs, spoilt) /\ LogsLeft(logs)
    BY <1>3, <1>6, MinedMaps
  <1>11. misread \subseteq misread' /\ CacheRight'
    BY <1>5, QuietOps
  <1>12. Progress(q, k)'
    BY <1>8, <1>11, ProgressStays
  <1>13. Reached(q, "log", k)' /\ BlockKind("log", q.kind)
    BY <1>2, <1>b, <1>6, <1>7, <1>9, <1>10, <1>12 DEF Reached, BlockKind, WorkLabels
  <1>14. QED
    BY <1>1, <1>5, <1>11, <1>13, BlockContinues

LEMMA EndOfLogsOps ==
  ASSUME TypeInv, IInv, AllOpsInv, NEW r \in Handlers, EndOfLogs(r)
  PROVE  AllOpsInv'
  <1>1. PICK q, l : q = req[r] /\ l = local[r]
    OBVIOUS
  <1>2. PICK k : k = [l EXCEPT !.done = Append(@, [id |-> Head(l.txs), ops |-> l.ops]),
                               !.txs = Tail(@), !.ops = <<>>]
    OBVIOUS
  <1>3. At(r, "log") /\ l.logs = <<>> /\ NextTx(r, k) /\ Quiet
    BY <1>1, <1>2 DEF EndOfLogs
  <1>4. /\ q.kind \in {"block", "transaction"} /\ Progress(q, l) /\ DOMAIN l = Fields
        /\ l.txs \in Seq(TxIds) /\ l.txs # <<>>
        /\ Mapped(TxOf(Head(l.txs)), l.block, l.ops, l.logs, Misnamed)
    BY <1>1, <1>3, AtWork DEF WorkLabels
  <1>5. /\ k.block = l.block /\ k.txs = Tail(l.txs)
        /\ k.done = Append(l.done, [id |-> Head(l.txs), ops |-> l.ops])
    BY <1>2, <1>4 DEF Fields
  <1>6. PICK tx, ops, b : tx = TxOf(Head(l.txs)) /\ ops = l.ops /\ b = l.block
    OBVIOUS
  <1>7. TransactionRight(tx, ops, b) /\ ops \in Seq(AnyOp)
    BY <1>3, <1>4, <1>6, MappedEnds
  <1>8. Progress(q, k)
    <2>1. TransactionRight(TxOf(Head(l.txs)), ops, l.block)
      BY <1>6, <1>7
    <2>2. k.done = Append(l.done, [id |-> Head(l.txs), ops |-> ops])
      BY <1>5, <1>6
    <2>3. TxMapped(l, k, ops)
      BY <1>4, <1>5, <1>7, <2>1, <2>2 DEF TxMapped
    <2>4. q.kind \in {"block", "transaction"} /\ Progress(q, l)
      BY <1>4
    <2>5. QED
      BY <2>3, <2>4, ProgressGoesOn
  <1>9. QED
    BY <1>1, <1>3, <1>4, <1>8, NextTxOps

(* A log is mapped with what is known of its contract. *)
LEMMA MapLogOps ==
  ASSUME TypeInv, IInv, AllOpsInv, misread \subseteq misread', CacheRight', NEW r \in Handlers,
         NEW from \in {"log", "decimals"}, At(r, from), local[r].logs # <<>>,
         NEW info, MapLog(r, info), info.symbol \in Symbols, info.decimals \in Nat,
         Head(local[r].logs).token \notin Misnamed' =>
            /\ info.symbol = KnownSymbol(Head(local[r].logs).token)
            /\ info.decimals = Info[Head(local[r].logs).token].decimals
  PROVE  AllOpsInv'
  <1>1. PICK q, l : q = req[r] /\ l = local[r]
    OBVIOUS
  <1>2. PICK all : all = l.ops \o tokenOps(Head(l.logs), info, Len(l.ops), IndexUnknownTokens)
    OBVIOUS
  <1>3. PICK k : k = [l EXCEPT !.ops = all, !.logs = Tail(@), !.symbol = ""]
    OBVIOUS
  <1>4. Continue(r, "log", k)
    BY <1>1, <1>2, <1>3 DEF MapLog
  <1>5. /\ q.kind \in {"block", "transaction"} /\ Progress(q, l) /\ DOMAIN l = Fields
        /\ l.logs \in Seq(EventLog)
        /\ Mapped(TxOf(Head(l.txs)), l.block, l.ops, l.logs, Misnamed) /\ LogsLeft(l.logs)
    BY <1>1, AtWork DEF WorkLabels
  <1>6. /\ k.block = l.block /\ k.txs = l.txs /\ k.done = l.done
        /\ k.ops = all /\ k.logs = Tail(l.logs)
    BY <1>3, <1>5 DEF Fields
  <1>7. PICK tx, b, ops, logs, spoilt :
            tx = TxOf(Head(l.txs)) /\ b = l.block /\ ops = l.ops /\ logs = l.logs /\ spoilt = Misnamed'
    OBVIOUS
  <1>8. Misnamed \subseteq spoilt
    BY <1>7 DEF Misnamed
  <1>9. Mapped(tx, b, ops, logs, spoilt)
    BY <1>5, <1>7, <1>8, MappedMore
  <1>10. Mapped(tx, b, all, Tail(logs), spoilt) /\ LogsLeft(Tail(logs))
    BY <1>1, <1>2, <1>5, <1>7, <1>9, MapLogMaps
  <1>11. Progress(q, k)'
    BY <1>5, <1>6, ProgressSame, ProgressStays
  <1>12. Reached(q, "log", k)' /\ BlockKind("log", q.kind)
    BY <1>5, <1>6, <1>7, <1>10, <1>11 DEF Reached, BlockKind, WorkLabels
  <1>13. QED
    BY <1>1, <1>4, <1>12, BlockContinues

LEMMA GetCachedOps ==
  ASSUME TypeInv, IInv, AllOpsInv, NEW r \in Handlers, GetCached(r)
  PROVE  AllOpsInv'
  <1>1. At(r, "log") /\ local[r].logs # <<>> /\ misread' = misread
    BY DEF GetCached
  <1>2. PICK i \in DOMAIN cache :
            cache[i].token = Head(local[r].logs).token /\ MapLog(r, cache[i]) /\ Put(cache[i])
    BY DEF GetCached
  <1>3. PICK e : e = cache[i]
    OBVIOUS
  <1>4. CacheInv /\ CacheRight
    BY DEF TypeInv, AllOpsInv
  <1>5. e \in CacheEntry
    <2>1. cache \in Seq(CacheEntry)
      BY <1>4 DEF CacheInv, CacheEntry
    <2>2. QED
      BY <1>2, <1>3, <2>1
  <1>6. e.symbol \in Symbols /\ e.decimals \in Nat
    BY <1>5 DEF CacheEntry
  <1>7. e.token \notin Misnamed' =>
            e.symbol = KnownSymbol(e.token) /\ e.decimals = Info[e.token].decimals
    BY <1>1, <1>2, <1>3, <1>4 DEF CacheRight, Misnamed
  <1>8. CacheRight'
    BY <1>1, <1>2, <1>3, <1>4, <1>5, <1>7, PutRight
  <1>9. QED
    BY <1>1, <1>2, <1>3, <1>6, <1>7, <1>8, MapLogOps

LEMMA MissOps ==
  ASSUME TypeInv, IInv, AllOpsInv, NEW r \in Handlers, Miss(r)
  PROVE  AllOpsInv'
  <1>1. PICK q, l : q = req[r] /\ l = local[r]
    OBVIOUS
  <1>2. At(r, "log") /\ Continue(r, "symbol", l) /\ Quiet
    BY <1>1 DEF Miss
  <1>3. /\ q.kind \in {"block", "transaction"} /\ Progress(q, l)
        /\ Mapped(TxOf(Head(l.txs)), l.block, l.ops, l.logs, Misnamed) /\ LogsLeft(l.logs)
    BY <1>1, <1>2, AtWork DEF WorkLabels
  <1>4. Reached(q, "symbol", l) /\ BlockKind("symbol", q.kind)
    BY <1>3 DEF Reached, BlockKind, WorkLabels
  <1>5. QED
    BY <1>1, <1>2, <1>4, ReachedStays, QuietOps, BlockContinues

(* A contract without a symbol is named for the standard of the log, which *)
(* is the only one that contract makes logs of, if it is not ambiguous.    *)
LEMMA FirstLeft ==
  ASSUME NEW logs \in Seq(EventLog), logs # <<>>, LogsLeft(logs), NEW log, log = Head(logs)
  PROVE  log.token \in Token /\ Logged(log.token, log.topics) /\ log.topics \in {3, 4}
  <1>1. Len(logs) \in Nat /\ Len(logs) >= 1 /\ DOMAIN logs = 1 .. Len(logs)
    OBVIOUS
  <1>2. log = logs[1] /\ log \in EventLog
    OBVIOUS
  <1>3. Selected(log, isAnalyticsMode, TokenWhiteList) /\ Logged(log.token, log.topics)
    BY <1>1, <1>2 DEF LogsLeft
  <1>4. QED
    BY <1>2, <1>3 DEF Selected, EventLog

LEMMA FoundIs ==
  ASSUME NEW log, log.token \in Token, Logged(log.token, log.topics), log.topics \in {3, 4},
         log.token \notin Ambiguous, NEW symbol,
         symbol = IF Info[log.token].symbol = "" THEN UnknownSymbol(IsErc20(log))
                  ELSE Info[log.token].symbol
  PROVE  symbol = KnownSymbol(log.token)
  <1>1. Info[log.token].symbol = "" => (IsErc20(log) <=> Logged(log.token, 3))
    <2>1. CASE log.topics = 3
      BY <2>1 DEF IsErc20
    <2>2. CASE log.topics = 4
      BY <2>2 DEF IsErc20, Ambiguous
    <2>3. QED
      BY <2>1, <2>2
  <1>2. Info[log.token].symbol = "" => UnknownSymbol(IsErc20(log)) = UnknownSymbol(Logged(log.token, 3))
    BY <1>1 DEF UnknownSymbol
  <1>3. QED
    BY <1>2 DEF KnownSymbol

LEMMA SymbolOps ==
  ASSUME TypeInv, IInv, AllOpsInv, NEW r \in Handlers, Symbol(r)
  PROVE  AllOpsInv'
  <1>1. PICK q, l : q = req[r] /\ l = local[r]
    OBVIOUS
  <1>2. PICK log : log = Head(l.logs)
    OBVIOUS
  <1>3. At(r, "symbol") /\ UNCHANGED cache
    BY DEF Symbol, Remember
  <1>4. /\ q.kind \in {"block", "transaction"} /\ Progress(q, l) /\ DOMAIN l = Fields
        /\ l.logs \in Seq(EventLog) /\ Knows(l, "symbol")
        /\ Mapped(TxOf(Head(l.txs)), l.block, l.ops, l.logs, Misnamed) /\ LogsLeft(l.logs)
    BY <1>1, <1>3, AtWork DEF WorkLabels
  <1>5. l.logs # <<>>
    BY <1>4 DEF Knows
  <1>6. PICK symbol :
            /\ Continue(r, "decimals", [l EXCEPT !.symbol = symbol])
            /\ \/ /\ symbol = IF Info[log.token].symbol = "" THEN UnknownSymbol(IsErc20(log))
                              ELSE Info[log.token].symbol
                  /\ misread' = misread
               \/ misread' = misread \cup {log.token}
    BY <1>1, <1>2 DEF Symbol, Remember
  <1>7. PICK k : k = [l EXCEPT !.symbol = symbol]
    OBVIOUS
  <1>8. /\ k.block = l.block /\ k.txs = l.txs /\ k.done = l.done
        /\ k.ops = l.ops /\ k.logs = l.logs /\ k.symbol = symbol
    BY <1>4, <1>7 DEF Fields
  <1>9. misread \subseteq misread'
    BY <1>6
  <1>10. CacheRight'
    BY <1>3, <1>9, CacheStays DEF AllOpsInv
  <1>11. log.token \notin Misnamed' => symbol = KnownSymbol(log.token)
    <2>1. SUFFICES ASSUME log.token \notin misread' \cup Ambiguous PROVE symbol = KnownSymbol(log.token)
      BY DEF Misnamed
    <2>2. symbol = IF Info[log.token].symbol = "" THEN UnknownSymbol(IsErc20(log))
                   ELSE Info[log.token].symbol
      BY <1>6, <2>1
    <2>3. log.token \in Token /\ Logged(log.token, log.topics) /\ log.topics \in {3, 4}
      BY <1>2, <1>4, <1>5, FirstLeft
    <2>4. QED
      BY <2>1, <2>2, <2>3, FoundIs
  <1>12. PICK tx, b, ops, logs, spoilt :
            tx = TxOf(Head(l.txs)) /\ b = l.block /\ ops = l.ops /\ logs = l.logs /\ spoilt = Misnamed'
    OBVIOUS
  <1>13. Mapped(tx, b, ops, logs, spoilt)
    <2>1. Misnamed \subseteq spoilt
      BY <1>9, <1>12 DEF Misnamed
    <2>2. QED
      BY <1>4, <1>12, <2>1, MappedMore
  <1>14. Progress(q, k)'
    BY <1>4, <1>8, <1>9, ProgressSame, ProgressStays
  <1>15. Reached(q, "decimals", k)' /\ BlockKind("decimals", q.kind)
    BY <1>2, <1>4, <1>8, <1>11, <1>12, <1>13, <1>14 DEF Reached, BlockKind, WorkLabels
  <1>16. Continue(r, "decimals", k)
    BY <1>6, <1>7
  <1>17. QED
    BY <1>1, <1>3, <1>9, <1>10, <1>15, <1>16, BlockContinues

LEMMA DecimalsOps ==
  ASSUME TypeInv, IInv, AllOpsInv, NEW r \in Handlers, Decimals(r)
  PROVE  AllOpsInv'
  <1>1. PICK q, l : q = req[r] /\ l = local[r]
    OBVIOUS
  <1>2. PICK token : token = Head(l.logs).token
    OBVIOUS
  <1>3. At(r, "decimals")
    BY DEF Decimals
  <1>4. l.logs # <<>> /\ l.symbol \in Symbols /\ l.logs \in Seq(EventLog)
    BY <1>1, <1>3, AtWork DEF WorkLabels, Knows
  <1>5. token \in Token
    <2>1. PICK logs : logs = l.logs
      OBVIOUS
    <2>2. Head(logs) \in EventLog
      BY <1>4, <2>1, HeadTailProperties
    <2>3. QED
      BY <1>2, <2>1, <2>2 DEF EventLog
  <1>6. token \notin Misnamed => l.symbol = KnownSymbol(token)
    <2>1. Reached(q, "decimals", l)
      BY <1>1, <1>3, AtOps
    <2>2. QED
      BY <1>2, <2>1 DEF Reached
  <1>7. PICK decimals \in Nat :
            /\ Put(Entry(token, l.symbol, decimals)) /\ MapLog(r, Entry(token, l.symbol, decimals))
            /\ \/ decimals = Info[token].decimals /\ misread' = misread
               \/ misread' = misread \cup {token}
    <2>1. Info[token].decimals \in Nat /\ 0 \in Nat
      BY <1>5, NamedIs
    <2>2. QED
      BY <1>1, <1>2, <2>1 DEF Decimals
  <1>8. PICK e : e = Entry(token, l.symbol, decimals)
    OBVIOUS
  <1>9. e \in CacheEntry /\ e.token = token /\ e.symbol = l.symbol /\ e.decimals = decimals
    BY <1>4, <1>5, <1>8 DEF Entry, CacheEntry
  <1>10. misread \subseteq misread' /\ Misnamed \subseteq Misnamed'
    BY <1>7 DEF Misnamed
  <1>11. token \notin Misnamed' => /\ e.symbol = KnownSymbol(token)
                                  /\ e.decimals = Info[token].decimals
    <2>1. token \notin Misnamed' => decimals = Info[token].decimals
      BY <1>7 DEF Misnamed
    <2>2. QED
      BY <1>6, <1>9, <1>10, <2>1
  <1>12. CacheInv /\ CacheRight /\ Put(e) /\ MapLog(r, e)
    BY <1>7, <1>8 DEF TypeInv, AllOpsInv
  <1>13. CacheRight'
    BY <1>9, <1>10, <1>11, <1>12, PutRight
  <1>14. e.symbol \in Symbols /\ e.decimals \in Nat
    BY <1>4, <1>7, <1>9
  <1>15. QED
    BY <1>1, <1>2, <1>3, <1>4, <1>10, <1>11, <1>12, <1>13, <1>14, MapLogOps

-----------------------------------------------------------------------------
LEMMA BlockOps ==
  ASSUME TypeInv, IInv, AllOpsInv, NEW r \in Handlers, Block(r)
  PROVE  AllOpsInv'
  BY GenesisOps, FetchBlockOps, FetchParentOps, FetchHeaderOps, FetchTransactionOps, FetchTraceOps,
     FetchReceiptOps, EndOfLogsOps, GetCachedOps, MissOps, SymbolOps, DecimalsOps
  DEF Block

LEMMA NextOpsInv == IInv /\ TypeInv /\ AllOpsInv /\ [Next]_vars => AllOpsInv'
  <1> SUFFICES ASSUME IInv, TypeInv, AllOpsInv, [Next]_vars PROVE AllOpsInv'
    OBVIOUS
  <1>1. ASSUME NEW r \in Handlers, NEW q \in session.requests[r], Receive(r, q) PROVE AllOpsInv'
    BY <1>1, ReceiveOps
  <1>2. ASSUME NEW r \in Handlers, Serve(r) PROVE AllOpsInv'
    BY <1>2, BlockOps, AccountBalanceOps, getAccountCoinsOps, NetworkStatusOps, OneReplyOps, FinishOps
    DEF Serve
  <1>3. ASSUME NEW r \in Handlers, RPCError(r) PROVE AllOpsInv'
    BY <1>3, RPCErrorOps
  <1>4. CASE AcceptBlock
    BY <1>4, NodeStepOps DEF AcceptBlock
  <1>5. ASSUME NEW chain \in {"C", "X", "P"}, FinishBootstrap(chain) PROVE AllOpsInv'
    BY <1>5, NodeStepOps DEF FinishBootstrap
  <1>6. ASSUME NEW src \in Source, Export(src) PROVE AllOpsInv'
    BY <1>6, NodeStepOps DEF Export
  <1>7. CASE UNCHANGED vars
    BY <1>7, NodeStepOps DEF vars, nodeVars
  <1>8. QED
    BY <1>1, <1>2, <1>3, <1>4, <1>5, <1>6, <1>7 DEF Next

LEMMA InitOpsInv == Init => AllOpsInv
  <1> SUFFICES ASSUME Init PROVE AllOpsInv
    OBVIOUS
  <1>1. CacheRight
    <2>1. \A i \in DOMAIN cache : FALSE
      BY DEF Init
    <2>2. QED
      BY <2>1 DEF CacheRight
  <1>2. ASSUME NEW r \in Handlers PROVE OpsInv(r)
    <2>1. pc[r] = "idle" /\ resp[r].status = "none"
      BY DEF Init, NoResp
    <2>2. Reached(req[r], "idle", local[r]) /\ BlockKind("idle", req[r].kind)
      BY FreeOf
    <2>3. QED
      BY <2>1, <2>2 DEF OpsInv, Answered
  <1>3. QED
    BY <1>1, <1>2 DEF AllOpsInv

LEMMA OpsInvMatches == AllOpsInv => OperationsMatchChain
  BY DEF AllOpsInv, OpsInv, OperationsMatchChain

LEMMA OpsInvHolds == Spec => [](IInv /\ TypeInv /\ AllOpsInv)
  <1>1. IInv /\ TypeInv /\ AllOpsInv /\ [Next]_vars => (IInv /\ TypeInv /\ AllOpsInv)'
    BY NextIInv, NextTypeInv, NextOpsInv
  <1>2. QED
    BY InitIInv, InitTypeInv, InitOpsInv, <1>1, PTL DEF Spec

(* An answered block or transaction has the operations of its transactions *)
(* in the order of the chain, and replaying them gives what each of them   *)
(* did to the balances of every account, in FLR and in every token that is *)
(* shown, under the token's own symbol and decimals: whatever handlers put *)
(* into the cache or drove out of it, and although look-ups fail, which    *)
(* spoils the operations of the contracts that could not be read only.     *)
THEOREM OperationsCorrect == Spec => []OperationsMatchChain
  BY OpsInvHolds, OpsInvMatches, PTL

=============================================================================
