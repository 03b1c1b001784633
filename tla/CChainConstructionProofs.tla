----------------------- MODULE CChainConstructionProofs -----------------------
(***************************************************************************)
(* Proofs about CChainConstruction, for any intents, amounts, widths of    *)
(* numbers, prices of gas and number of clients: what is submitted is what *)
(* was intended, supported intents get through, and numbers and what the   *)
(* node holds have their types.                                            *)
(***************************************************************************)
EXTENDS CChainConstruction, TLAPS

-----------------------------------------------------------------------------
(* Numbers *)

LEMMA WidthFacts ==
  /\ MaxInt64 \in Nat /\ TopByte \in Nat /\ Word \in Nat
  /\ 2 * (MaxInt64 + 1) < TopByte /\ TopByte < Word
  BY ConstantsAssumption

LEMMA Uint64Keeps ==
  ASSUME NEW n \in Uint64s
  PROVE  Uint64(n) = n
  BY WidthFacts DEF Uint64, Uint64s

LEMMA Uint64Fits ==
  ASSUME NEW n \in Int
  PROVE  Uint64(n) \in Uint64s
  BY WidthFacts DEF Uint64, Uint64s

LEMMA Int64Keeps ==
  ASSUME NEW n \in Nat, n <= MaxInt64
  PROVE  Int64(n) = n
  BY WidthFacts DEF Int64

LEMMA FeeKeeps ==
  ASSUME NEW p \in Nat, NEW q \in Nat, p <= MaxInt64, q <= MaxInt64, p * q <= MaxInt64
  PROVE  Int64(Int64(p) * Int64(q)) = p * q
  BY Int64Keeps

LEMMA BelowTopByte ==
  ASSUME NEW n \in 0 .. TopByte - 1
  PROVE  n % TopByte = n /\ n < Word
  BY WidthFacts

-----------------------------------------------------------------------------
(* Operations and what matches them *)

LEMMA AddressFacts ==
  /\ "" \notin Address /\ "FLR" \notin Address /\ "FLR" \notin Contract
  /\ BridgeTokenList \subseteq Contract /\ Contract \subseteq Address
  BY ConstantsAssumption

LEMMA ReverseTwo ==
  ASSUME NEW S, NEW s \in Seq(S), Len(s) = 2
  PROVE  /\ Reverse(s) \in Seq(S) /\ Len(Reverse(s)) = 2
         /\ Reverse(s)[1] = s[2] /\ Reverse(s)[2] = s[1]
  BY DEF Reverse

LEMMA ReverseOne ==
  ASSUME NEW S, NEW s \in Seq(S), Len(s) = 1
  PROVE  Reverse(s) \in Seq(S) /\ Len(Reverse(s)) = 1 /\ Reverse(s)[1] = s[1]
  BY DEF Reverse

LEMMA TwoLong ==
  ASSUME NEW S, NEW s \in Seq(S), Len(s) = 2
  PROVE  s = <<s[1], s[2]>>
  OBVIOUS

LEMMA OneLong ==
  ASSUME NEW S, NEW s \in Seq(S), Len(s) = 1
  PROVE  s = <<s[1]>>
  OBVIOUS

LEMMA OpFacts ==
  ASSUME NEW s \in Seq(OpType), NEW k \in 1 .. Len(s)
  PROVE  /\ s[k].val \in Int
         /\ s[k] = Op(s[k].type, s[k].acct, s[k].val, s[k].cur)
  <1>1. s[k] \in OpType
    OBVIOUS
  <1>2. QED
    BY <1>1 DEF OpType, Op

Kind(md) == IF md.unwrap THEN "unwrap" ELSE IF md.method # "" THEN "call" ELSE "transfer"

LEMMA MatchesFit ==
  ASSUME NEW md, NEW ops, Matches(md, ops) # <<>>,
         NEW D, D = OperationDescriptions(md, ops), NEW M, M = Matches(md, ops)
  PROVE  /\ D # <<>>
         /\ M \in {ops, Reverse(ops)}
         /\ \A k \in DOMAIN D : M[k].type = D[k].type /\ Sign(M[k].val) \in D[k].signs
         /\ \A k \in DOMAIN M : M[k].acct \in Address
         /\ (\A k \in DOMAIN D : ops[k].type = D[k].type /\ Sign(ops[k].val) \in D[k].signs) => M = ops
  BY DEF Matches, MatchOperations

(* One operation that burns a bridged token *)
UnwrapFits(ops, M) ==
    /\ Len(ops) = 1 /\ M = ops
    /\ ops[1].cur \in BridgeTokenList /\ ops[1].acct \in Address
    /\ ops[1].type = "ERC20_BURN" /\ ops[1].val < 0

(* Two empty operations, in their own order *)
CallFits(ops, M) ==
    /\ Len(ops) = 2 /\ M = ops /\ ops[1].cur = ops[2].cur
    /\ \A k \in 1 .. 2 : ops[k].type = "CALL" /\ ops[k].val = 0 /\ ops[k].acct \in Address

(* Two operations, that of the payer first *)
TransferType(cur) == IF cur = "FLR" THEN "CALL" ELSE "ERC20_TRANSFER"
TransferFits(ops, M) ==
    /\ Len(ops) = 2 /\ Len(M) = 2
    /\ \/ M = ops
       \/ M = Reverse(ops) /\ M[1] = ops[2] /\ M[2] = ops[1]
    /\ ops[1].cur = ops[2].cur /\ ops[1].cur \in Contract \cup {"FLR"}
    /\ \A k \in 1 .. 2 : M[k].type = TransferType(ops[1].cur) /\ M[k].acct \in Address
    /\ M[1].val < 0 /\ M[2].val > 0

Fits(md, ops, M) ==
    CASE Kind(md) = "unwrap" -> UnwrapFits(ops, M)
      [] Kind(md) = "call" -> CallFits(ops, M)
      [] Kind(md) = "transfer" -> TransferFits(ops, M)

LEMMA SignFacts ==
  ASSUME NEW n \in Int
  PROVE  /\ Sign(n) \in {Negative} => n < 0
         /\ Sign(n) \in {Positive} => n > 0
         /\ n < 0 => Sign(n) \in {Negative}
         /\ n > 0 => Sign(n) \in {Positive}
         /\ Sign(n) \in AnyAmountSign
  BY DEF Sign, Negative, Positive, AnyAmountSign

LEMMA UnwrapMatches ==
  ASSUME NEW md, Kind(md) = "unwrap", NEW ops \in Seq(OpType), Matches(md, ops) # <<>>
  PROVE  UnwrapFits(ops, Matches(md, ops))
  <1> DEFINE D == OperationDescriptions(md, ops)
             M == Matches(md, ops)
  <1>1. D = CreateUnwrapOperationDescription(ops)
    BY DEF OperationDescriptions, isUnwrapRequest, Kind
  <1> HIDE DEF D, M
  <1>2. /\ D # <<>> /\ M \in {ops, Reverse(ops)}
        /\ \A k \in DOMAIN D : M[k].type = D[k].type /\ Sign(M[k].val) \in D[k].signs
        /\ \A k \in DOMAIN M : M[k].acct \in Address
    BY MatchesFit DEF D, M
  <1>3. Len(ops) = 1 /\ ops[1].cur \in BridgeTokenList
        /\ D = <<Description("ERC20_BURN", {Negative})>>
    BY <1>1, <1>2 DEF CreateUnwrapOperationDescription
  <1>4. M = ops
    <2>1. ops = <<ops[1]>> /\ Reverse(ops) = <<Reverse(ops)[1]>> /\ Reverse(ops)[1] = ops[1]
      BY <1>3, OneLong, ReverseOne
    <2>2. QED
      BY <1>2, <2>1
  <1>5. DOMAIN D = {1} /\ D[1] = Description("ERC20_BURN", {Negative}) /\ DOMAIN M = {1}
    BY <1>3, <1>4
  <1>6. ops[1].type = "ERC20_BURN" /\ Sign(ops[1].val) \in {Negative} /\ ops[1].acct \in Address
    BY <1>2, <1>4, <1>5 DEF Description
  <1>7. ops[1].val \in Int
    BY <1>3, OpFacts
  <1>8. QED
    BY <1>3, <1>4, <1>6, <1>7, SignFacts DEF UnwrapFits, M

LEMMA CallMatches ==
  ASSUME NEW md, Kind(md) = "call", NEW ops \in Seq(OpType), Matches(md, ops) # <<>>
  PROVE  CallFits(ops, Matches(md, ops))
  <1> DEFINE D == OperationDescriptions(md, ops)
             M == Matches(md, ops)
             d == Description("CALL", AnyAmountSign)
  <1>1. D = createGenericContractCallOperationDescription(ops)
    BY DEF OperationDescriptions, isUnwrapRequest, isGenericContractCall, Kind
  <1> HIDE DEF D, M
  <1>2. /\ D # <<>> /\ M \in {ops, Reverse(ops)}
        /\ \A k \in DOMAIN D : M[k].type = D[k].type /\ Sign(M[k].val) \in D[k].signs
        /\ \A k \in DOMAIN M : M[k].acct \in Address
        /\ (\A k \in DOMAIN D : ops[k].type = D[k].type /\ Sign(ops[k].val) \in D[k].signs) => M = ops
    BY MatchesFit DEF D, M
  <1>3. /\ Len(ops) = 2 /\ ops[1].cur = ops[2].cur /\ ops[1].val = 0 /\ ops[2].val = 0
        /\ D = <<d, d>>
    BY <1>1, <1>2 DEF createGenericContractCallOperationDescription
  <1>4. DOMAIN D = {1, 2} /\ D[1] = d /\ D[2] = d
    BY <1>3
  <1>5. d.type = "CALL" /\ d.signs = AnyAmountSign
    BY DEF Description
  <1> HIDE DEF d
  <1>6. Reverse(ops)[1] = ops[2] /\ Reverse(ops)[2] = ops[1]
    BY <1>3, ReverseTwo
  <1>7. ops[1].type = "CALL" /\ ops[2].type = "CALL"
    BY <1>2, <1>4, <1>5, <1>6
  <1>8. M = ops
    <2>1. Sign(0) \in AnyAmountSign
      BY SignFacts
    <2>2. QED
      BY <1>2, <1>3, <1>4, <1>5, <1>7, <2>1
  <1>9. DOMAIN M = 1 .. 2
    BY <1>3, <1>8
  <1>10. QED
    BY <1>2, <1>3, <1>7, <1>8, <1>9 DEF CallFits, M

LEMMA TransferMatches ==
  ASSUME NEW md, Kind(md) = "transfer", NEW ops \in Seq(OpType), Matches(md, ops) # <<>>
  PROVE  TransferFits(ops, Matches(md, ops))
  <1> DEFINE D == OperationDescriptions(md, ops)
             M == Matches(md, ops)
             t == TransferType(ops[1].cur)
             neg == Description(t, {Negative})
             pos == Description(t, {Positive})
  <1>1. D = createTransferOperationDescription(ops)
    BY DEF OperationDescriptions, isUnwrapRequest, isGenericContractCall, Kind
  <1> HIDE DEF D, M
  <1>2. /\ D # <<>> /\ M \in {ops, Reverse(ops)}
        /\ \A k \in DOMAIN D : M[k].type = D[k].type /\ Sign(M[k].val) \in D[k].signs
        /\ \A k \in DOMAIN M : M[k].acct \in Address
    BY MatchesFit DEF D, M
  <1>3. /\ Len(ops) = 2 /\ ops[1].cur = ops[2].cur /\ ops[1].cur \in Contract \cup {"FLR"}
        /\ D = <<neg, pos>>
    BY <1>1, <1>2
    DEF createTransferOperationDescription, createOperationDescriptionTransfer, TransferType
  <1>4. DOMAIN D = {1, 2} /\ D[1] = neg /\ D[2] = pos
    BY <1>3
  <1>5. /\ neg.type = t /\ neg.signs = {Negative}
        /\ pos.type = t /\ pos.signs = {Positive}
    BY DEF Description
  <1> HIDE DEF neg, pos, t
  <1>6. /\ Reverse(ops) \in Seq(OpType) /\ Len(Reverse(ops)) = 2
        /\ Reverse(ops)[1] = ops[2] /\ Reverse(ops)[2] = ops[1]
    BY <1>3, ReverseTwo
  <1>7. M \in Seq(OpType) /\ Len(M) = 2
    BY <1>2, <1>3, <1>6
  <1>8. DOMAIN M = 1 .. 2 /\ M[1].val \in Int /\ M[2].val \in Int
    BY <1>7, OpFacts
  <1>9. M[1].val < 0 /\ M[2].val > 0 /\ M[1].type = t /\ M[2].type = t
    BY <1>2, <1>4, <1>5, <1>8, SignFacts
  <1>10. QED
    BY <1>2, <1>3, <1>6, <1>7, <1>8, <1>9 DEF TransferFits, M, t

LEMMA MatchesRight ==
  ASSUME NEW md, NEW ops \in Seq(OpType), Matches(md, ops) # <<>>
  PROVE  Fits(md, ops, Matches(md, ops))
  BY UnwrapMatches, CallMatches, TransferMatches DEF Fits, Kind

LEMMA MatchesSame ==
  ASSUME NEW md, NEW i, md.unwrap = i.unwrap, md.method = i.method, NEW ops
  PROVE  Matches(md, ops) = Matches(i, ops) /\ Kind(md) = Kind(i)
  BY DEF Matches, OperationDescriptions, isUnwrapRequest, isGenericContractCall, Kind

-----------------------------------------------------------------------------
(* The transaction that /construction/payloads makes of an intent *)

DataOf(i) == IF i.method = "" THEN NoData ELSE Data(i.method, i.args)

(* md is metadata that says of the intent what they should. *)
Says(md, i) == md.unwrap = i.unwrap /\ md.method = i.method /\ md.data = DataOf(i)

MessageOf(i) ==
    LET M == Matches(i, i.ops)
    IN  CASE Kind(i) = "unwrap" ->
               Msg(i.ops[1].acct, i.ops[1].cur, 0, generateBridgeUnwrapTransferData(-i.ops[1].val))
          [] Kind(i) = "call" -> Msg(i.ops[1].acct, i.ops[2].acct, 0, DataOf(i))
          [] Kind(i) = "transfer" ->
               IF i.ops[1].cur = "FLR" THEN Msg(M[1].acct, M[2].acct, M[2].val, NoData)
               ELSE Msg(M[1].acct, i.ops[1].cur, 0, generateErc20TransferData(M[2].acct, M[2].val))

(* What is known of an intent that /construction/preprocess has accepted *)
LEMMA IntentFits ==
  ASSUME NEW i \in IntentType, NEW M, M = Matches(i, i.ops), M # <<>>
  PROVE  /\ i.ops \in Seq(OpType) /\ Fits(i, i.ops, M)
         /\ Kind(i) \in {"unwrap", "call", "transfer"}
         /\ From(M) \in Address /\ To(M) \in Address
         /\ M[1].cur = i.ops[1].cur
         /\ From(M) = M[1].acct
         /\ Kind(i) = "unwrap" => Amount(M) = -i.ops[1].val
         /\ Kind(i) = "call" => To(M) = i.ops[2].acct /\ Amount(M) = 0
         /\ Kind(i) = "transfer" => To(M) = M[2].acct /\ Amount(M) = M[2].val
  <1>1. i.ops \in Seq(OpType) /\ Fits(i, i.ops, M)
    BY MatchesRight DEF IntentType
  <1>2. CASE Kind(i) = "unwrap"
    BY <1>1, <1>2 DEF Fits, UnwrapFits, From, To, Amount
  <1>3. CASE Kind(i) = "call"
    BY <1>1, <1>3 DEF Fits, CallFits, From, To, Amount
  <1>4. CASE Kind(i) = "transfer"
    BY <1>1, <1>4 DEF Fits, TransferFits, From, To, Amount
  <1>5. Kind(i) \in {"unwrap", "call", "transfer"}
    BY DEF Kind
  <1>6. QED
    BY <1>1, <1>2, <1>3, <1>4, <1>5

LEMMA MessageRight ==
  ASSUME NEW i \in IntentType, NEW md, Says(md, i), NEW M, M = Matches(i, i.ops), M # <<>>
  PROVE  UnsignedMessage(md, M) = MessageOf(i)
  <1>1. Kind(md) = Kind(i)
    BY MatchesSame DEF Says
  <1>2. CASE Kind(i) = "unwrap"
    BY <1>1, <1>2, IntentFits
    DEF UnsignedMessage, MessageOf, Kind, isUnwrapRequest, createUnwrapPayload, Fits, UnwrapFits, From
  <1>3. CASE Kind(i) = "call"
    <2>1. CallFits(i.ops, M)
      BY <1>3, IntentFits DEF Fits
    <2>2. UnsignedMessage(md, M) = Msg(From(M), To(M), Amount(M), md.data)
      BY <1>1, <1>3
      DEF UnsignedMessage, Kind, isUnwrapRequest, isGenericContractCall, createGenericContractCallPayload
    <2>3. QED
      BY <1>3, <2>1, <2>2, IntentFits DEF MessageOf, CallFits, From, Says
  <1>4. CASE Kind(i) = "transfer"
    <2>1. UnsignedMessage(md, M) = createTransferPayload(M)
      BY <1>1, <1>4
      DEF UnsignedMessage, Kind, isUnwrapRequest, isGenericContractCall
    <2>2. QED
      BY <1>4, <2>1, IntentFits DEF MessageOf, createTransferPayload, From
  <1>5. QED
    BY <1>2, <1>3, <1>4, IntentFits

(* An amount is paid by one account and to another. *)
LEMMA PayerPayee ==
  ASSUME NEW i \in IntentType, NEW M, M = Matches(i, i.ops), M # <<>>, Kind(i) = "transfer"
  PROVE  i.ops[Payer(i.ops)] = M[1] /\ i.ops[Payee(i.ops)] = M[2]
  <1> DEFINE ops == i.ops
  <1>1. ops \in Seq(OpType) /\ TransferFits(ops, M)
    BY IntentFits DEF Fits
  <1>2. DOMAIN ops = {1, 2} /\ Len(ops) = 2
    BY <1>1 DEF TransferFits
  <1>3. M \in Seq(OpType) /\ M[1].val \in Int /\ M[2].val \in Int
    <2>1. M \in Seq(OpType)
      BY <1>1, <1>2, ReverseTwo DEF TransferFits
    <2>2. QED
      BY <1>1, <2>1, OpFacts DEF TransferFits
  <1>4. \/ M[1] = ops[1] /\ M[2] = ops[2]
        \/ M[1] = ops[2] /\ M[2] = ops[1]
    BY <1>1 DEF TransferFits
  <1>5. M[1].val < 0 /\ M[2].val > 0
    BY <1>1 DEF TransferFits
  <1>6. Payer(ops) \in DOMAIN ops /\ ops[Payer(ops)].val < 0
    BY <1>2, <1>4, <1>5 DEF Payer
  <1>7. Payee(ops) \in DOMAIN ops /\ ops[Payee(ops)].val > 0
    BY <1>2, <1>4, <1>5 DEF Payee
  <1>8. QED
    BY <1>2, <1>3, <1>4, <1>5, <1>6, <1>7

(* What the transaction is, but for its nonce and gas *)
Carries(tx, msg) == tx.from = msg.from /\ tx.to = msg.to /\ tx.value = msg.value /\ tx.data = msg.data

LEMMA DataFields ==
  ASSUME NEW method, NEW args
  PROVE  /\ Data(method, args).method = method /\ Data(method, args).to = args.to
         /\ Data(method, args).amount = args.amount
  BY DEF Data

LEMMA NoDataFields == NoData.method = ""
  BY DataFields DEF NoData

(* A call whose data are those of a token transfer or an unwrapping does   *)
(* not parse as a call.                                                    *)
LEMMA ParsedMethod ==
  ASSUME NEW i \in IntentType, NEW M, M = Matches(i, i.ops), M # <<>>, Kind(i) = "call",
         NEW tx, NEW cur, Carries(tx, MessageOf(i)),
         ParsedOps(tx, cur) # <<>>, AsIntended(ParsedOps(tx, cur), i)
  PROVE  i.method \notin {"", "transfer", "unwrap"}
  <1> DEFINE P == ParsedOps(tx, cur)
  <1>1. CallFits(i.ops, M) /\ i.ops \in Seq(OpType)
    BY IntentFits DEF Fits
  <1>2. tx.data = Data(i.method, i.args) /\ i.method # ""
    <2>1. i.method # ""
      BY DEF Kind
    <2>2. Carries(tx, Msg(i.ops[1].acct, i.ops[2].acct, 0, Data(i.method, i.args)))
      BY <2>1 DEF MessageOf, DataOf
    <2>3. QED
      BY <2>1, <2>2 DEF Carries, Msg
  <1>3. tx.data.method = i.method
    <2>1. Data(i.method, i.args).method = i.method
      BY DataFields
    <2>2. QED
      BY <1>2, <2>1
  <1>4. /\ Reverse(i.ops) \in Seq(OpType) /\ Len(Reverse(i.ops)) = 2
        /\ Reverse(i.ops)[1] = i.ops[2] /\ Reverse(i.ops)[2] = i.ops[1]
    BY <1>1, ReverseTwo DEF CallFits
  <1>5. Len(P) = 2 /\ P[1].type = "CALL"
    BY <1>1, <1>4 DEF AsIntended, CallFits
  <1>6. CASE i.method = "transfer"
    <2>1. P = createTransferOps(tx, cur)
      BY <1>3, <1>6 DEF ParsedOps
    <2>2. PICK to, amount : P = Move("ERC20_TRANSFER", tx.from, to, amount, cur)
      BY <1>3, <1>6, <2>1 DEF createTransferOps
    <2>3. P[1].type = "ERC20_TRANSFER"
      BY <2>2 DEF Move, Op
    <2>4. QED
      BY <1>5, <2>3
  <1>7. CASE i.method = "unwrap"
    <2>1. P = createUnwrapOps(tx, cur)
      BY <1>3, <1>7 DEF ParsedOps
    <2>2. PICK amount : P = <<Op("ERC20_BURN", tx.from, -amount, cur)>>
      BY <2>1 DEF createUnwrapOps
    <2>3. P[1].type = "ERC20_BURN"
      BY <2>2 DEF Op
    <2>4. QED
      BY <1>5, <2>3
  <1>8. QED
    BY <1>2, <1>6, <1>7

LEMMA EffectRight ==
  ASSUME NEW i \in IntentType, NEW M, M = Matches(i, i.ops), M # <<>>,
         NEW tx, NEW cur, Carries(tx, MessageOf(i)),
         ParsedOps(tx, cur) # <<>>, AsIntended(ParsedOps(tx, cur), i)
  PROVE  Effect(tx) = Intended(i)
  <1> DEFINE ops == i.ops
  <1>1. CASE Kind(i) = "unwrap"
    <2>1. UnwrapFits(ops, M)
      BY <1>1, IntentFits DEF Fits
    <2> DEFINE args == [to |-> "", amount |-> -ops[1].val, chain |-> 0, whole |-> -ops[1].val < Word]
    <2>2. Carries(tx, Msg(ops[1].acct, ops[1].cur, 0, Data("unwrap", args)))
      BY <1>1 DEF MessageOf, generateBridgeUnwrapTransferData
    <2>3. args.amount = -ops[1].val
      OBVIOUS
    <2> HIDE DEF args
    <2>4. /\ tx.from = ops[1].acct /\ tx.to = ops[1].cur /\ tx.value = 0
          /\ tx.data.method = "unwrap" /\ tx.data.amount = -ops[1].val
      BY <2>2, <2>3, DataFields DEF Carries, Msg
    <2>5. Effect(tx) = {Did(ops[1].cur, ops[1].acct, "burnt", -ops[1].val, NoData)}
      BY <2>4 DEF Effect
    <2>6. QED
      BY <1>1, <2>5 DEF Intended, Kind
  <1>2. CASE Kind(i) = "call"
    <2>1. CallFits(ops, M)
      BY <1>2, IntentFits DEF Fits
    <2>2. i.method \notin {"", "transfer", "unwrap"}
      BY <1>2, ParsedMethod
    <2>3. Carries(tx, Msg(ops[1].acct, ops[2].acct, 0, Data(i.method, i.args)))
      BY <1>2, <2>2 DEF MessageOf, DataOf
    <2>4. /\ tx.from = ops[1].acct /\ tx.to = ops[2].acct /\ tx.value = 0
          /\ tx.data = Data(i.method, i.args) /\ tx.data.method = i.method
      BY <2>3, DataFields DEF Carries, Msg
    <2>5. Effect(tx) = {Did("call", ops[1].acct, ops[2].acct, 0, Data(i.method, i.args))}
      BY <2>2, <2>4 DEF Effect
    <2>6. QED
      BY <1>2, <2>5 DEF Intended, Kind
  <1>3. CASE Kind(i) = "transfer"
    <2>1. TransferFits(ops, M)
      BY <1>3, IntentFits DEF Fits
    <2>2. ops[Payer(ops)] = M[1] /\ ops[Payee(ops)] = M[2]
      BY <1>3, PayerPayee
    <2>3. Intended(i) = {Did(ops[1].cur, M[1].acct, M[2].acct, M[2].val, NoData)}
      BY <1>3, <2>2 DEF Intended, Kind
    <2>4. CASE ops[1].cur = "FLR"
      <3>1. Carries(tx, Msg(M[1].acct, M[2].acct, M[2].val, NoData))
        BY <1>3, <2>4 DEF MessageOf
      <3>2. /\ tx.from = M[1].acct /\ tx.to = M[2].acct /\ tx.value = M[2].val
            /\ tx.data.method = ""
        BY <3>1, NoDataFields DEF Carries, Msg
      <3>3. Effect(tx) = {Did("FLR", tx.from, tx.to, tx.value, NoData)}
        BY <3>2 DEF Effect
      <3>4. QED
        BY <2>3, <2>4, <3>2, <3>3
    <2>5. CASE ops[1].cur # "FLR"
      <3> DEFINE args == [to |-> M[2].acct, amount |-> M[2].val, chain |-> 0, whole |-> M[2].val < Word]
      <3>1. Carries(tx, Msg(M[1].acct, ops[1].cur, 0, Data("transfer", args)))
        BY <1>3, <2>5 DEF MessageOf, generateErc20TransferData
      <3>2. args.amount = M[2].val /\ args.to = M[2].acct
        OBVIOUS
      <3> HIDE DEF args
      <3>3. /\ tx.from = M[1].acct /\ tx.to = ops[1].cur /\ tx.value = 0
            /\ tx.data.method = "transfer" /\ tx.data.amount = M[2].val /\ tx.data.to = M[2].acct
        BY <3>1, <3>2, DataFields DEF Carries, Msg
      <3>4. Effect(tx) = {Did(ops[1].cur, M[1].acct, M[2].acct, M[2].val, NoData)}
        BY <3>3 DEF Effect
      <3>5. QED
        BY <2>3, <3>4
    <2>6. QED
      BY <2>4, <2>5
  <1>4. QED
    BY <1>1, <1>2, <1>3, IntentFits

-----------------------------------------------------------------------------
(* The options, and the message whose gas is estimated *)

OptionsOf(i) == LegacyOptions(i, PreprocessOptions(i, Matches(i, i.ops)))

OptionsSay(o, i, M) ==
    /\ o.from = From(M) /\ o.cur = i.ops[1].cur
    /\ o.gasPrice = i.gasPrice /\ o.gasLimit = i.gasLimit /\ o.nonce = i.nonce
    /\ o.multiplier = i.multiplier
    /\ o.unwrap = i.unwrap /\ o.method = i.method /\ o.data = DataOf(i)
    /\ Kind(i) = "call" => o.contract = To(M)
    /\ Kind(i) # "call" => o.contract = ""
    /\ o.value = <<>> \/ o.value = <<Amount(M)>>
    /\ o.to = "" \/ o.to = To(M)
    /\ o.atomicTxGas = FALSE

LEMMA OptionsFacts ==
  ASSUME NEW i \in IntentType, NEW M, M = Matches(i, i.ops), M # <<>>, NEW o, o = OptionsOf(i)
  PROVE  OptionsSay(o, i, M)
  <1> DEFINE raw == PreprocessOptions(i, M)
  <1>1. /\ raw.from = From(M) /\ raw.cur = M[1].cur
        /\ raw.gasPrice = i.gasPrice /\ raw.gasLimit = i.gasLimit /\ raw.nonce = i.nonce
        /\ raw.multiplier = i.multiplier
        /\ raw.unwrap = i.unwrap /\ raw.method = i.method /\ raw.data = DataOf(i)
        /\ Kind(i) = "call" => raw.contract = To(M)
        /\ Kind(i) # "call" => raw.contract = ""
        /\ raw.value = <<Amount(M)>>
        /\ raw.to = "" \/ raw.to = To(M)
        /\ raw.atomicTxGas = FALSE
    <2> DEFINE T == createTransferPreprocessOptions(M)
               base == CASE Kind(i) = "unwrap" -> createUnwrapPreprocessOptions(M)
                         [] Kind(i) = "call" -> createGenericContractCallPreprocessOptions(M)
                         [] Kind(i) = "transfer" -> T
    <2>1. /\ T.from = From(M) /\ T.to = To(M) /\ T.value = <<Amount(M)>> /\ T.cur = M[1].cur
          /\ T.unwrap = FALSE /\ T.contract = "" /\ T.atomicTxGas = FALSE
          /\ DOMAIN T = DOMAIN NoOptions
      BY DEF createTransferPreprocessOptions, NoOptions
    <2> HIDE DEF T
    <2>2. /\ base.from = From(M) /\ base.cur = M[1].cur /\ base.value = <<Amount(M)>>
          /\ base.to = "" \/ base.to = To(M)
          /\ Kind(i) = "unwrap" => base.unwrap = TRUE
          /\ Kind(i) # "unwrap" => base.unwrap = FALSE
          /\ Kind(i) = "call" => base.contract = To(M)
          /\ Kind(i) # "call" => base.contract = ""
          /\ base.atomicTxGas = FALSE
          /\ DOMAIN base = DOMAIN NoOptions
      <3>1. CASE Kind(i) = "unwrap"
        BY <2>1, <3>1 DEF createUnwrapPreprocessOptions, T, NoOptions
      <3>2. CASE Kind(i) = "call"
        BY <2>1, <3>2 DEF createGenericContractCallPreprocessOptions, T, NoOptions
      <3>3. CASE Kind(i) = "transfer"
        BY <2>1, <3>3
      <3>4. QED
        BY <3>1, <3>2, <3>3, IntentFits
    <2>3. raw = [base EXCEPT !.multiplier = i.multiplier, !.gasPrice = i.gasPrice,
                             !.gasLimit = i.gasLimit, !.nonce = i.nonce, !.method = i.method,
                             !.data = DataOf(i)]
      BY DEF PreprocessOptions, Kind, isUnwrapRequest, isGenericContractCall, DataOf,
             constructContractCallDataGeneric, T
    <2> HIDE DEF base, raw
    <2>4. raw.unwrap = base.unwrap
      BY <2>3
    <2>5. i.unwrap = base.unwrap
      BY <2>2 DEF IntentType, Kind
    <2>6. QED
      BY <2>2, <2>3, <2>4, <2>5 DEF NoOptions
  <1>2. DOMAIN raw = DOMAIN NoOptions
    BY DEF PreprocessOptions, createUnwrapPreprocessOptions,
           createGenericContractCallPreprocessOptions, createTransferPreprocessOptions
  <1>3. o = LegacyOptions(i, raw) /\ M[1].cur = i.ops[1].cur
    BY IntentFits DEF OptionsOf
  <1> HIDE DEF raw
  <1>4. CASE "options" \in i.legacy
    BY <1>1, <1>2, <1>3, <1>4 DEF LegacyOptions, NoOptions, OptionsSay
  <1>5. CASE "options" \notin i.legacy
    BY <1>1, <1>3, <1>5 DEF LegacyOptions, OptionsSay
  <1>6. QED
    BY <1>4, <1>5

(* What may come of it *)
Estimates(g, i) == g.msg \in {NoMsg, MessageOf(i)} /\ g.limit \in Uint64s

LEMMA DefaultEstimates ==
  ASSUME NEW i, NEW limit \in Uint64s
  PROVE  Estimates(Default(limit), i)
  BY DEF Estimates, Default

LEMMA NodeEstimates ==
  ASSUME NEW i, NEW msg, msg = MessageOf(i), Gas[msg.data.method] \in Uint64s
  PROVE  Estimates(EstimateGas(msg), i)
  BY DEF Estimates, EstimateGas

LEMMA OneValue ==
  ASSUME NEW o, NEW n, o.value = <<n>>
  PROVE  o.value # <<>> /\ o.value[1] = n
  OBVIOUS

LEMMA GasFacts ==
  /\ Gas[""] \in Uint64s /\ Gas["transfer"] \in Uint64s /\ Gas["unwrap"] \in Uint64s
  /\ nativeTransferGasLimit \in Uint64s /\ erc20TransferGasLimit \in Uint64s
  /\ unwrapGasLimit \in Uint64s
  BY ConstantsAssumption

LEMMA CallEstimated ==
  ASSUME NEW i \in IntentType, Gas[i.method] \in Uint64s, Kind(i) = "call",
         NEW M, M = Matches(i, i.ops), M # <<>>, NEW o, o = OptionsOf(i), o.gasLimit = <<>>
  PROVE  Estimates(GasLimit(o), i)
  <1>1. /\ o.from = From(M) /\ o.unwrap = i.unwrap /\ o.data = DataOf(i) /\ o.contract = To(M)
        /\ To(M) \in Address
    <2>1. OptionsSay(o, i, M)
      BY OptionsFacts
    <2>2. QED
      BY <2>1, IntentFits DEF OptionsSay
  <1>0. ~i.unwrap /\ i.method # ""
    BY DEF Kind
  <1>2. GasLimit(o) = EstimateGas(Msg(o.from, o.contract, 0, o.data))
    BY <1>0, <1>1, AddressFacts DEF GasLimit, getGenericContractCallGasLimit
  <1>3. CallFits(i.ops, M) /\ From(M) = M[1].acct /\ To(M) = i.ops[2].acct
    BY IntentFits DEF Fits
  <1>4. Msg(o.from, o.contract, 0, o.data) = MessageOf(i)
    BY <1>1, <1>3 DEF MessageOf, CallFits
  <1>5. o.data.method = i.method
    <2>1. o.data = Data(i.method, i.args)
      BY <1>0, <1>1 DEF DataOf
    <2>2. QED
      BY <2>1, DataFields
  <1>6. QED
    BY <1>2, <1>4, <1>5, NodeEstimates DEF Msg

LEMMA UnwrapEstimated ==
  ASSUME NEW i \in IntentType, Kind(i) = "unwrap",
         NEW M, M = Matches(i, i.ops), M # <<>>, NEW o, o = OptionsOf(i), o.gasLimit = <<>>
  PROVE  Estimates(GasLimit(o), i)
  <1>1. UnwrapFits(i.ops, M) /\ From(M) = M[1].acct /\ Amount(M) = -i.ops[1].val
    BY IntentFits DEF Fits
  <1>2. /\ o.from = From(M) /\ o.cur = i.ops[1].cur /\ o.unwrap = i.unwrap
        /\ o.value = <<>> \/ o.value = <<Amount(M)>>
        /\ i.unwrap
    <2>1. OptionsSay(o, i, M)
      BY OptionsFacts
    <2>2. QED
      BY <2>1 DEF OptionsSay, Kind
  <1>3. o.cur \in Contract /\ o.cur # "FLR"
    BY <1>1, <1>2, AddressFacts DEF UnwrapFits
  <1>4. GasLimit(o) = getBridgeUnwrapTransferGasLimit(o)
    BY <1>2, <1>3 DEF GasLimit
  <1>5. CASE o.value = <<>>
    BY <1>4, <1>5, GasFacts, DefaultEstimates DEF getBridgeUnwrapTransferGasLimit
  <1>6. CASE o.value = <<Amount(M)>>
    <2> DEFINE data == generateBridgeUnwrapTransferData(Amount(M))
    <2>1. o.value # <<>> /\ o.value[1] = Amount(M)
      BY <1>6
    <2>2. GasLimit(o) = EstimateGas(Msg(o.from, o.cur, 0, data))
      BY <1>3, <1>4, <2>1 DEF getBridgeUnwrapTransferGasLimit
    <2>3. data.method = "unwrap"
      BY DataFields DEF generateBridgeUnwrapTransferData
    <2>4. Msg(o.from, o.cur, 0, data) = MessageOf(i)
      BY <1>1, <1>2 DEF MessageOf, UnwrapFits
    <2>5. QED
      BY <2>2, <2>3, <2>4, NodeEstimates, GasFacts DEF Msg
  <1>7. QED
    BY <1>2, <1>5, <1>6

LEMMA TransferEstimated ==
  ASSUME NEW i \in IntentType, Kind(i) = "transfer",
         NEW M, M = Matches(i, i.ops), M # <<>>, NEW o, o = OptionsOf(i), o.gasLimit = <<>>
  PROVE  Estimates(GasLimit(o), i)
  <1>1. /\ TransferFits(i.ops, M) /\ From(M) = M[1].acct /\ To(M) = M[2].acct
        /\ Amount(M) = M[2].val /\ To(M) \in Address
    BY IntentFits DEF Fits
  <1>2. /\ o.from = From(M) /\ o.cur = i.ops[1].cur /\ o.unwrap = i.unwrap /\ o.contract = ""
        /\ o.value = <<>> \/ o.value = <<Amount(M)>>
        /\ o.to = "" \/ o.to = To(M)
        /\ ~i.unwrap
    <2>1. OptionsSay(o, i, M)
      BY OptionsFacts
    <2>2. QED
      BY <2>1 DEF OptionsSay, Kind
  <1>3. CASE o.cur = "FLR"
    <2>1. GasLimit(o) = getNativeTransferGasLimit(o)
      BY <1>2, <1>3 DEF GasLimit
    <2>2. CASE o.to = "" \/ o.value = <<>>
      BY <2>1, <2>2, GasFacts, DefaultEstimates DEF getNativeTransferGasLimit
    <2>3. CASE o.to = To(M) /\ o.value = <<Amount(M)>>
      <3>1. o.value # <<>> /\ o.value[1] = Amount(M) /\ o.to # ""
        BY <1>1, <2>3, AddressFacts, OneValue
      <3>2. GasLimit(o) = EstimateGas(Msg(o.from, To(M), Amount(M), NoData))
        BY <2>1, <2>3, <3>1 DEF getNativeTransferGasLimit
      <3>3. Msg(o.from, To(M), Amount(M), NoData) = MessageOf(i)
        BY <1>1, <1>2, <1>3 DEF MessageOf
      <3>4. QED
        BY <3>2, <3>3, NoDataFields, NodeEstimates, GasFacts DEF Msg
    <2>4. QED
      BY <1>2, <2>2, <2>3
  <1>4. CASE o.cur # "FLR"
    <2>1. GasLimit(o) = getErc20TransferGasLimit(o)
      BY <1>2, <1>4 DEF GasLimit
    <2>2. o.cur \in Contract
      BY <1>1, <1>2, <1>4 DEF TransferFits
    <2>3. CASE o.to = "" \/ o.value = <<>>
      BY <2>1, <2>3, GasFacts, DefaultEstimates DEF getErc20TransferGasLimit
    <2>4. CASE o.to = To(M) /\ o.value = <<Amount(M)>>
      <3> DEFINE data == generateErc20TransferData(To(M), Amount(M))
      <3>1. o.value # <<>> /\ o.value[1] = Amount(M) /\ o.to # ""
        BY <1>1, <2>4, AddressFacts, OneValue
      <3>2. GasLimit(o) = EstimateGas(Msg(o.from, o.cur, 0, data))
        BY <2>1, <2>2, <2>4, <3>1 DEF getErc20TransferGasLimit
      <3>3. data.method = "transfer"
        BY DataFields DEF generateErc20TransferData
      <3>4. Msg(o.from, o.cur, 0, data) = MessageOf(i)
        BY <1>1, <1>2, <1>4 DEF MessageOf
      <3>5. QED
        BY <3>2, <3>3, <3>4, NodeEstimates, GasFacts DEF Msg
    <2>5. QED
      BY <1>2, <2>3, <2>4
  <1>5. QED
    BY <1>3, <1>4

LEMMA EstimatedRight ==
  ASSUME NEW i \in IntentType, Gas[i.method] \in Uint64s,
         NEW M, M = Matches(i, i.ops), M # <<>>, NEW o, o = OptionsOf(i)
  PROVE  /\ Estimates(GasLimit(o), i)
         /\ i.gasLimit # <<>> => GasLimit(o).limit = Uint64(i.gasLimit[1])
  <1>1. o.gasLimit = i.gasLimit
    <2>1. OptionsSay(o, i, M)
      BY OptionsFacts
    <2>2. QED
      BY <2>1 DEF OptionsSay
  <1>2. CASE i.gasLimit # <<>>
    <2>1. GasLimit(o) = Default(Uint64(i.gasLimit[1]))
      BY <1>1, <1>2 DEF GasLimit
    <2>2. i.gasLimit[1] \in Int
      BY <1>2 DEF IntentType
    <2>3. QED
      BY <2>1, <2>2, Uint64Fits, DefaultEstimates DEF Default
  <1>3. CASE i.gasLimit = <<>>
    BY <1>1, <1>3, IntentFits, CallEstimated, UnwrapEstimated, TransferEstimated
  <1>4. QED
    BY <1>2, <1>3

-----------------------------------------------------------------------------
(* The inductive invariant, one client at a time: p is where it is, w why  *)
(* it gave up, i what it intends and h what it has got.                    *)

Signed == {"wrapper", "signed tx"}
Submitting == {"hash", "submit", "done"}
Parsing == {"parse unsigned", "sign", "combine", "parse signed"}
Getting == {"preprocess", "metadata", "price", "gas", "payloads"}
Label == {"idle", "refused"} \cup Getting \cup Parsing \cup Submitting

Shape(h) ==
    /\ DOMAIN h = {"options", "metadata", "fee", "format", "tx", "cur", "signer", "key", "seen",
                   "estimated"}
    /\ DOMAIN h.options = {"from", "to", "value", "multiplier", "gasPrice", "gasLimit", "nonce",
                           "cur", "unwrap", "method", "data", "contract", "atomicTxGas"}
    /\ DOMAIN h.metadata = {"nonce", "gasPrice", "gasLimit", "unwrap", "method", "data"}
    /\ DOMAIN h.tx = {"from", "to", "value", "data", "nonce", "gasPrice", "gasLimit"}

(* What a call carries shows which backend answered the call before it.    *)
Routed(p, i, h) ==
    /\ Answers(i) = "C" => /\ h.options.atomicTxGas = FALSE
                           /\ h.format \in {"none", "unsigned"} \cup Signed
    /\ Answers(i) # "C" => /\ p \notin {"price", "gas"}
                           /\ h.format \in {"none", "P-chain tx", "rosettaTx"}
    /\ Answers(i) = "atomic" => /\ p = "metadata" => h.options.atomicTxGas = TRUE
                                /\ p \in Parsing \cup Submitting => h.format = "rosettaTx"

Consents(p, w, h) ==
    /\ h.format \in Signed
    /\ p \in Submitting \/ w \in {"rpc", "already known", "nonce too low", "underpriced"}

MadeOptions(i, h) == Matches(i, i.ops) # <<>> /\ h.options = OptionsOf(i)
KeptNonce(i, h) == i.nonce # <<>> => h.metadata.nonce = Uint64(i.nonce[1])
KeptPrice(i, h) == i.gasPrice # <<>> => h.metadata.gasPrice = i.gasPrice[1]
MadeMetadata(i, h) ==
    /\ Says(h.metadata, i)
    /\ h.metadata.gasLimit \in Uint64s
    /\ i.gasLimit # <<>> => h.metadata.gasLimit = Uint64(i.gasLimit[1])
    /\ h.fee = Int64(Int64(h.metadata.gasPrice) * Int64(h.metadata.gasLimit))
    /\ h.estimated \in {NoMsg, MessageOf(i)}
MadeTx(i, h) ==
    /\ h.tx.to = MessageOf(i).to /\ h.tx.value = MessageOf(i).value
    /\ h.tx.data = MessageOf(i).data /\ h.signer = MessageOf(i).from
    /\ h.tx.nonce = h.metadata.nonce
    /\ h.tx.gasPrice = h.metadata.gasPrice /\ Decodes(h.tx.gasPrice)
    /\ h.tx.gasLimit = h.metadata.gasLimit
Checked(i, h) == Effect(h.tx) = Intended(i) /\ h.tx.from = h.signer

Stages(p, w, i, h) ==
    /\ p \in Getting => h.format = "none"
    /\ p \in (Getting \ {"preprocess"}) \cup Parsing \cup Submitting \/ Consents(p, w, h)
       => MadeOptions(i, h)
    /\ p \in {"price", "gas", "payloads"} \cup Parsing \cup Submitting \/ Consents(p, w, h)
       => KeptNonce(i, h)
    /\ p \in {"gas", "payloads"} \cup Parsing \cup Submitting \/ Consents(p, w, h)
       => KeptPrice(i, h)
    /\ p \in {"payloads"} \cup Parsing \cup Submitting \/ Consents(p, w, h)
       => MadeMetadata(i, h)
    /\ p \in Parsing \cup Submitting \/ Consents(p, w, h) => MadeTx(i, h)
    /\ p \in Submitting \/ Consents(p, w, h) => Checked(i, h)

ClientInv(p, w, i, h) ==
    /\ Shape(h)
    /\ p \in Label
    /\ p # "refused" => w = "none"
    /\ p \in {"idle", "preprocess"} => h = NoHeld
    /\ p # "idle" => /\ i \in IntentType /\ Gas[i.method] \in Uint64s
                     /\ Routed(p, i, h)
                     /\ Answers(i) = "C" => Stages(p, w, i, h)

IInv ==
    /\ DOMAIN pc = Client /\ DOMAIN why = Client
    /\ DOMAIN intent = Client /\ DOMAIN held = Client
    /\ \A c \in Client : ClientInv(pc[c], why[c], intent[c], held[c])

(* Client c gets to p, w, i and h, and the others stay where they are.     *)
Becomes(c, p, w, i, h) ==
    /\ DOMAIN pc' = Client /\ DOMAIN why' = Client
    /\ DOMAIN intent' = Client /\ DOMAIN held' = Client
    /\ pc'[c] = p /\ why'[c] = w /\ intent'[c] = i /\ held'[c] = h
    /\ \A d \in Client \ {c} : /\ pc'[d] = pc[d] /\ why'[d] = why[d]
                               /\ intent'[d] = intent[d] /\ held'[d] = held[d]

LEMMA InvKept ==
  ASSUME IInv, NEW c \in Client, NEW p, NEW w, NEW i, NEW h,
         Becomes(c, p, w, i, h), ClientInv(p, w, i, h)
  PROVE  IInv'
  <1>1. ASSUME NEW d \in Client
        PROVE  ClientInv(pc'[d], why'[d], intent'[d], held'[d])
    <2>1. CASE d = c
      BY <2>1 DEF Becomes
    <2>2. CASE d # c
      BY <2>2 DEF Becomes, IInv
    <2>3. QED
      BY <2>1, <2>2
  <1>2. QED
    BY <1>1 DEF IInv, Becomes

LEMMA Replied ==
  ASSUME IInv, NEW c \in Client, NEW label, NEW h, Reply(c, label, h), UNCHANGED intent
  PROVE  Becomes(c, label, why[c], intent[c], h)
  BY DEF IInv, Becomes, Reply, Goto

LEMMA Failed ==
  ASSUME IInv, NEW c \in Client, NEW reason, Fail(c, reason), UNCHANGED intent
  PROVE  Becomes(c, "refused", reason, intent[c], held[c])
  BY DEF IInv, Becomes, Fail, Goto

LEMMA NoHeldFacts ==
  Shape(NoHeld) /\ NoHeld.format = "none" /\ NoHeld.options.atomicTxGas = FALSE
  <1>1. NoHeld.options = NoOptions
    BY DEF NoHeld
  <1>2. NoOptions.atomicTxGas = FALSE
    BY DEF NoOptions
  <1>3. QED
    BY <1>1, <1>2 DEF Shape, NoHeld, NoOptions, NoMetadata, NoTx, Tx

LEMMA OptionsShape ==
  ASSUME NEW i
  PROVE  DOMAIN OptionsOf(i) = DOMAIN NoOptions
  <1> DEFINE raw == PreprocessOptions(i, Matches(i, i.ops))
  <1>1. DOMAIN raw = DOMAIN NoOptions
    BY DEF PreprocessOptions, createUnwrapPreprocessOptions,
           createGenericContractCallPreprocessOptions, createTransferPreprocessOptions
  <1> HIDE DEF raw
  <1>2. DOMAIN LegacyOptions(i, raw) = DOMAIN raw
    BY DEF LegacyOptions
  <1>3. QED
    BY <1>1, <1>2 DEF OptionsOf, raw

LEMMA InitInv == Init => IInv
  <1> SUFFICES ASSUME Init PROVE IInv
    OBVIOUS
  <1>1. ASSUME NEW c \in Client PROVE ClientInv(pc[c], why[c], intent[c], held[c])
    <2>1. pc[c] = "idle" /\ why[c] = "none" /\ held[c] = NoHeld
      BY DEF Init
    <2>2. QED
      BY <2>1, NoHeldFacts DEF ClientInv, Label
  <1>2. QED
    BY <1>1 DEF Init, IInv

(* A client that gives up keeps what it has.                               *)
LEMMA GivesUp ==
  ASSUME NEW p, NEW w, NEW i, NEW h, ClientInv(p, w, i, h), p # "idle", NEW reason,
         Consents("refused", reason, h) => p \in Submitting
  PROVE  ClientInv("refused", reason, i, h)
  <1>1. Routed("refused", i, h)
    BY DEF ClientInv, Routed, Parsing, Submitting
  <1>2. Answers(i) = "C" => Stages("refused", reason, i, h)
    <2>1. /\ "refused" \notin Getting /\ "refused" \notin Parsing /\ "refused" \notin Submitting
          /\ "refused" \notin {"price", "gas", "payloads"}
      BY DEF Getting, Parsing, Submitting
    <2>2. QED
      BY <2>1 DEF ClientInv, Stages
  <1>3. QED
    BY <1>1, <1>2 DEF ClientInv, Label

-----------------------------------------------------------------------------
(* The steps *)

LEMMA BackendRight ==
  ASSUME NEW p \in Endpoint, NEW w, NEW i, NEW h, ClientInv(p, w, i, h)
  PROVE  Backend(p, i, h) = Answers(i)
  <1>1. Routed(p, i, h) /\ (p = "preprocess" => h = NoHeld)
    BY DEF Endpoint, ClientInv
  <1>2. CASE i.network = "P"
    BY <1>2 DEF Backend, Answers
  <1>3. CASE i.network # "P" /\ i.ops[1].type \in {"EXPORT", "IMPORT"}
    BY <1>1, <1>3
    DEF Backend, Answers, ShouldHandleRequest, IsAtomicOpType, Routed, Parsing, Submitting, Endpoint
  <1>4. CASE i.network # "P" /\ i.ops[1].type \notin {"EXPORT", "IMPORT"}
    BY <1>1, <1>4
    DEF Backend, Answers, ShouldHandleRequest, IsAtomicOpType, Routed, Endpoint, Signed
  <1>5. QED
    BY <1>2, <1>3, <1>4

LEMMA CalledC ==
  ASSUME IInv, NEW c \in Client, NEW e \in Endpoint, Calls(c, e)
  PROVE  /\ pc[c] = e /\ ClientInv(e, why[c], intent[c], held[c])
         /\ Answers(intent[c]) = "C" /\ why[c] = "none"
         /\ Routed(e, intent[c], held[c]) /\ Stages(e, why[c], intent[c], held[c])
  <1>1. pc[c] = e /\ ClientInv(e, why[c], intent[c], held[c])
    BY DEF IInv, Calls
  <1>2. Answers(intent[c]) = "C"
    BY <1>1, BackendRight DEF Calls
  <1>3. e # "idle" /\ e # "refused"
    BY DEF Endpoint
  <1>4. QED
    BY <1>1, <1>2, <1>3 DEF ClientInv

LEMMA BeginInv ==
  ASSUME IInv, NEW c \in Client, Begin(c)
  PROVE  IInv'
  <1>1. PICK i \in Intents[c] : intent' = [intent EXCEPT ![c] = i]
    BY DEF Begin
  <1>2. Becomes(c, "preprocess", why[c], i, held[c])
    BY <1>1 DEF Becomes, Begin, Goto, IInv
  <1>3. ClientInv("idle", why[c], intent[c], held[c])
    BY DEF Begin, IInv
  <1>4. held[c] = NoHeld /\ Shape(held[c]) /\ why[c] = "none"
    BY <1>3 DEF ClientInv
  <1>5. i \in IntentType /\ Gas[i.method] \in Uint64s
    BY ConstantsAssumption
  <1>6. held[c].format = "none" /\ held[c].options.atomicTxGas = FALSE
    BY <1>4, NoHeldFacts
  <1>7. Routed("preprocess", i, held[c])
    BY <1>6 DEF Routed, Parsing, Submitting
  <1>8. Stages("preprocess", why[c], i, held[c])
    <2>1. ~Consents("preprocess", why[c], held[c])
      BY <1>6 DEF Consents, Signed
    <2>2. "preprocess" \notin Parsing /\ "preprocess" \notin Submitting
      BY DEF Parsing, Submitting
    <2>3. QED
      BY <1>6, <2>1, <2>2 DEF Stages
  <1>9. ClientInv("preprocess", why[c], i, held[c])
    BY <1>4, <1>5, <1>7, <1>8 DEF ClientInv, Label, Getting
  <1>10. QED
    BY <1>2, <1>9, InvKept

LEMMA DelegateInv ==
  ASSUME IInv, NEW c \in Client, Delegate(c)
  PROVE  IInv'
  <1> DEFINE p == pc[c]
             i == intent[c]
             h == held[c]
             backend == Backend(p, i, h)
             g == [h EXCEPT !.options.atomicTxGas = @ \/ (p = "preprocess" /\ backend = "atomic"),
                            !.format = IF p = "payloads"
                                       THEN IF backend = "P" THEN "P-chain tx" ELSE "rosettaTx"
                                       ELSE @]
  <1>1. p \in Endpoint /\ backend # "C" /\ ClientInv(p, why[c], i, h)
    BY DEF Delegate, IInv
  <1>2. backend = Answers(i)
    BY <1>1, BackendRight
  <1>3. Becomes(c, Following(p), why[c], i, g)
    BY DEF Delegate, Becomes, Goto, Quiet, IInv
  <1>4. /\ Shape(h) /\ Routed(p, i, h) /\ i \in IntentType /\ Gas[i.method] \in Uint64s
        /\ why[c] = "none"
    BY <1>1 DEF ClientInv, Endpoint
  <1>5. /\ Shape(g)
        /\ p = "preprocess" /\ backend = "atomic" => g.options.atomicTxGas = TRUE
        /\ p = "payloads" => g.format = IF backend = "P" THEN "P-chain tx" ELSE "rosettaTx"
        /\ p # "payloads" => g.format = h.format
    BY <1>4 DEF Shape
  <1> HIDE DEF g
  <1>6. Routed(Following(p), i, g)
    BY <1>1, <1>2, <1>4, <1>5
    DEF Routed, Endpoint, Following, Answers, Parsing, Submitting
  <1>7. Following(p) \in Label \ {"idle", "preprocess", "refused"}
    BY <1>1 DEF Endpoint, Following, Label, Getting, Parsing, Submitting
  <1>8. ClientInv(Following(p), why[c], i, g)
    BY <1>1, <1>2, <1>4, <1>5, <1>6, <1>7 DEF ClientInv
  <1>9. QED
    BY <1>3, <1>8, InvKept

LEMMA UnavailableInv ==
  ASSUME IInv, NEW c \in Client, UnavailableOffline(c)
  PROVE  IInv'
  <1>1. Becomes(c, "refused", "offline", intent[c], held[c])
    BY DEF UnavailableOffline, Becomes, Goto, Quiet, IInv
  <1>2. ClientInv(pc[c], why[c], intent[c], held[c]) /\ pc[c] # "idle"
    BY DEF IInv, UnavailableOffline
  <1>3. ~Consents("refused", "offline", held[c])
    BY DEF Consents, Submitting
  <1>4. QED
    BY <1>1, <1>2, <1>3, GivesUp, InvKept

(* A call fails for a reason that is not one of the node's.                *)
LEMMA FailInv ==
  ASSUME IInv, NEW c \in Client, NEW reason \in {"invalid", "not as intended"},
         Fail(c, reason), UNCHANGED intent, pc[c] # "idle"
  PROVE  IInv'
  <1>1. Becomes(c, "refused", reason, intent[c], held[c])
    BY Failed
  <1>2. ClientInv(pc[c], why[c], intent[c], held[c])
    BY DEF IInv
  <1>3. ~Consents("refused", reason, held[c])
    BY DEF Consents, Submitting
  <1>4. QED
    BY <1>1, <1>2, <1>3, GivesUp, InvKept

LEMMA PreprocessInv ==
  ASSUME IInv, NEW c \in Client, Preprocess(c)
  PROVE  IInv'
  <1> DEFINE i == intent[c]
             h == held[c]
             M == Matches(i, i.ops)
             g == [h EXCEPT !.options = LegacyOptions(i, PreprocessOptions(i, M))]
  <1>1. /\ pc[c] = "preprocess" /\ ClientInv("preprocess", why[c], i, h)
        /\ Answers(i) = "C" /\ why[c] = "none" /\ Routed("preprocess", i, h)
        /\ Stages("preprocess", why[c], i, h)
    BY CalledC DEF Preprocess, Endpoint
  <1>2. \/ Fail(c, "invalid")
        \/ M # <<>> /\ Reply(c, "metadata", g)
    BY DEF Preprocess
  <1>3. UNCHANGED intent
    BY DEF Preprocess, Quiet
  <1>4. CASE Fail(c, "invalid")
    BY <1>1, <1>3, <1>4, FailInv
  <1>5. CASE M # <<>> /\ Reply(c, "metadata", g)
    <2>1. Becomes(c, "metadata", why[c], i, g)
      BY <1>3, <1>5, Replied
    <2>2. i \in IntentType /\ Gas[i.method] \in Uint64s /\ Shape(h) /\ h = NoHeld
      BY <1>1 DEF ClientInv
    <2>3. g.options = OptionsOf(i) /\ g.format = "none"
      <3>1. g.options = LegacyOptions(i, PreprocessOptions(i, M)) /\ g.format = h.format
        BY <2>2 DEF Shape
      <3>2. QED
        BY <2>2, <3>1, NoHeldFacts DEF OptionsOf
    <2>4. DOMAIN g.options = DOMAIN NoOptions
      BY <2>3, OptionsShape
    <2>5. Shape(g)
      BY <2>2, <2>4 DEF Shape, NoOptions
    <2> HIDE DEF g
    <2>6. g.options.atomicTxGas = FALSE
      <3>1. OptionsSay(g.options, i, M)
        BY <1>5, <2>2, <2>3, OptionsFacts
      <3>2. QED
        BY <3>1 DEF OptionsSay
    <2>7. Routed("metadata", i, g)
      BY <1>1, <2>3, <2>6 DEF Routed
    <2>8. Stages("metadata", why[c], i, g)
      <3>1. ~Consents("metadata", why[c], g)
        BY <2>3 DEF Consents, Signed
      <3>2. MadeOptions(i, g)
        BY <1>5, <2>3 DEF MadeOptions
      <3>3. "metadata" \notin Parsing /\ "metadata" \notin Submitting
        BY DEF Parsing, Submitting
      <3>4. QED
        BY <2>3, <3>1, <3>2, <3>3 DEF Stages
    <2>9. ClientInv("metadata", why[c], i, g)
      BY <1>1, <2>2, <2>5, <2>7, <2>8 DEF ClientInv, Label, Getting
    <2>10. QED
      BY <2>1, <2>9, InvKept
  <1>6. QED
    BY <1>2, <1>4, <1>5

(* A client whose call the C-chain backend answers, and what it gets by it *)
LEMMA GoesOn ==
  ASSUME IInv, NEW c \in Client, NEW q \in Label \ {"idle", "preprocess", "refused"}, NEW g,
         Becomes(c, q, "none", intent[c], g), Shape(g), pc[c] # "idle",
         Answers(intent[c]) = "C", g.options = held[c].options,
         g.format \in {"none", "unsigned"} \cup Signed, q \in Getting => g.format = "none",
         MadeOptions(intent[c], g),
         q \in {"price", "gas", "payloads"} \cup Parsing \cup Submitting => KeptNonce(intent[c], g),
         q \in {"gas", "payloads"} \cup Parsing \cup Submitting => KeptPrice(intent[c], g),
         q \in {"payloads"} \cup Parsing \cup Submitting => MadeMetadata(intent[c], g),
         q \in Parsing \cup Submitting => MadeTx(intent[c], g),
         q \in Submitting => Checked(intent[c], g)
  PROVE  IInv'
  <1> DEFINE i == intent[c]
  <1>1. ClientInv(pc[c], why[c], i, held[c])
    BY DEF IInv
  <1>2. Routed(q, i, g)
    BY <1>1 DEF ClientInv, Routed
  <1>3. Consents(q, "none", g) => q \in Submitting
    BY DEF Consents
  <1>4. Stages(q, "none", i, g)
    BY <1>3 DEF Stages
  <1>5. ClientInv(q, "none", i, g)
    BY <1>1, <1>2, <1>4 DEF ClientInv
  <1>6. QED
    BY <1>5, InvKept

LEMMA MetadataInv ==
  ASSUME IInv, NEW c \in Client, Metadata(c)
  PROVE  IInv'
  <1> DEFINE i == intent[c]
             h == held[c]
             o == h.options
             g == [h EXCEPT
                    !.metadata.nonce = IF o.nonce = <<>> THEN NonceAt(o.from) ELSE Uint64(o.nonce[1]),
                    !.seen = nonce[o.from]]
  <1>1. /\ pc[c] = "metadata" /\ ClientInv("metadata", why[c], i, h)
        /\ Answers(i) = "C" /\ why[c] = "none" /\ Routed("metadata", i, h)
        /\ Stages("metadata", why[c], i, h)
    BY CalledC DEF Metadata, Endpoint
  <1>2. Fail(c, "invalid") \/ Reply(c, "price", g)
    BY DEF Metadata
  <1>3. UNCHANGED intent
    BY DEF Metadata, Quiet
  <1>4. CASE Fail(c, "invalid")
    BY <1>1, <1>3, <1>4, FailInv
  <1>5. CASE Reply(c, "price", g)
    <2>1. Becomes(c, "price", "none", i, g)
      BY <1>1, <1>3, <1>5, Replied
    <2>2. Shape(h) /\ i \in IntentType /\ MadeOptions(i, h) /\ h.format = "none"
      BY <1>1 DEF ClientInv, Stages, Getting
    <2>3. /\ Shape(g) /\ g.options = o /\ g.format = h.format
          /\ o.nonce # <<>> => g.metadata.nonce = Uint64(o.nonce[1])
      BY <2>2 DEF Shape
    <2> HIDE DEF g
    <2>4. o.nonce = i.nonce
      <3>1. OptionsSay(o, i, Matches(i, i.ops))
        BY <2>2, OptionsFacts DEF MadeOptions
      <3>2. QED
        BY <3>1 DEF OptionsSay
    <2>5. KeptNonce(i, g)
      BY <2>3, <2>4 DEF KeptNonce
    <2>6. MadeOptions(i, g)
      BY <2>2, <2>3 DEF MadeOptions
    <2>7. "price" \in Getting /\ "price" \notin Parsing /\ "price" \notin Submitting /\ "price" \in Label
      BY DEF Label, Getting, Parsing, Submitting
    <2>8. QED
      BY <1>1, <2>1, <2>2, <2>3, <2>5, <2>6, <2>7, GoesOn
  <1>6. QED
    BY <1>2, <1>4, <1>5

LEMMA AtNode ==
  ASSUME IInv, NEW c \in Client, pc[c] \in {"price", "gas"}
  PROVE  /\ ClientInv(pc[c], why[c], intent[c], held[c]) /\ Shape(held[c])
         /\ Answers(intent[c]) = "C" /\ why[c] = "none" /\ intent[c] \in IntentType
         /\ Gas[intent[c].method] \in Uint64s
         /\ Stages(pc[c], "none", intent[c], held[c])
  BY DEF IInv, ClientInv, Routed

LEMMA MetadataPriceInv ==
  ASSUME IInv, NEW c \in Client, MetadataPrice(c)
  PROVE  IInv'
  <1> DEFINE i == intent[c]
             h == held[c]
             o == h.options
             g(price) == [h EXCEPT !.metadata.gasPrice = SuggestedGasPrice(o, price)]
  <1>1. pc[c] = "price" /\ UNCHANGED intent
    BY DEF MetadataPrice, Quiet
  <1>2. PICK price : Reply(c, "gas", g(price))
    BY DEF MetadataPrice
  <1>3. /\ Shape(h) /\ Answers(i) = "C" /\ why[c] = "none" /\ i \in IntentType
        /\ MadeOptions(i, h) /\ KeptNonce(i, h) /\ h.format = "none"
    BY <1>1, AtNode DEF Stages, Getting
  <1>4. Becomes(c, "gas", "none", i, g(price))
    BY <1>1, <1>2, <1>3, Replied
  <1> DEFINE k == g(price)
  <1>5. /\ Shape(k) /\ k.options = o /\ k.format = h.format
        /\ k.metadata.nonce = h.metadata.nonce
        /\ k.metadata.gasPrice = SuggestedGasPrice(o, price)
    BY <1>3 DEF Shape
  <1> HIDE DEF k
  <1>6. o.gasPrice = i.gasPrice
    <2>1. OptionsSay(o, i, Matches(i, i.ops))
      BY <1>3, OptionsFacts DEF MadeOptions
    <2>2. QED
      BY <2>1 DEF OptionsSay
  <1>7. KeptPrice(i, k)
    BY <1>5, <1>6 DEF KeptPrice, SuggestedGasPrice
  <1>8. MadeOptions(i, k) /\ KeptNonce(i, k)
    BY <1>3, <1>5 DEF MadeOptions, KeptNonce
  <1>9. "gas" \in Getting /\ "gas" \notin Parsing /\ "gas" \notin Submitting /\ "gas" \in Label
    BY DEF Label, Getting, Parsing, Submitting
  <1>10. Becomes(c, "gas", "none", i, k)
    BY <1>4 DEF k
  <1>11. QED
    BY <1>1, <1>3, <1>5, <1>7, <1>8, <1>9, <1>10, GoesOn

LEMMA MetadataGasInv ==
  ASSUME IInv, NEW c \in Client, MetadataGas(c)
  PROVE  IInv'
  <1> DEFINE i == intent[c]
             h == held[c]
             o == h.options
             gas == GasLimit(o)
             g == [h EXCEPT !.metadata = MetadataOfOptions(@, o, gas.limit),
                            !.fee = Int64(Int64(h.metadata.gasPrice) * Int64(gas.limit)),
                            !.estimated = gas.msg]
  <1>1. pc[c] = "gas" /\ UNCHANGED intent /\ Reply(c, "payloads", g)
    BY DEF MetadataGas, Quiet
  <1>2. /\ Shape(h) /\ Answers(i) = "C" /\ why[c] = "none" /\ i \in IntentType
        /\ Gas[i.method] \in Uint64s
        /\ MadeOptions(i, h) /\ KeptNonce(i, h) /\ KeptPrice(i, h) /\ h.format = "none"
    BY <1>1, AtNode DEF Stages, Getting
  <1>3. Becomes(c, "payloads", "none", i, g)
    BY <1>1, <1>2, Replied
  <1>4. /\ Shape(g) /\ g.options = o /\ g.format = h.format
        /\ g.metadata.nonce = h.metadata.nonce /\ g.metadata.gasPrice = h.metadata.gasPrice
        /\ g.metadata.gasLimit = gas.limit /\ g.metadata.unwrap = o.unwrap
        /\ g.metadata.method = o.method /\ g.metadata.data = o.data
        /\ g.fee = Int64(Int64(h.metadata.gasPrice) * Int64(gas.limit)) /\ g.estimated = gas.msg
    BY <1>2 DEF Shape, MetadataOfOptions
  <1>5. Estimates(gas, i) /\ (i.gasLimit # <<>> => gas.limit = Uint64(i.gasLimit[1]))
    BY <1>2, EstimatedRight DEF MadeOptions
  <1> HIDE DEF g, gas
  <1>6. o.unwrap = i.unwrap /\ o.method = i.method /\ o.data = DataOf(i)
    <2>1. OptionsSay(o, i, Matches(i, i.ops))
      BY <1>2, OptionsFacts DEF MadeOptions
    <2>2. QED
      BY <2>1 DEF OptionsSay
  <1>7. MadeMetadata(i, g)
    <2>1. Says(g.metadata, i)
      BY <1>4, <1>6 DEF Says
    <2>2. QED
      BY <1>4, <1>5, <2>1 DEF MadeMetadata, Estimates
  <1>8. MadeOptions(i, g) /\ KeptNonce(i, g) /\ KeptPrice(i, g)
    BY <1>2, <1>4 DEF MadeOptions, KeptNonce, KeptPrice
  <1>9. /\ "payloads" \in Getting /\ "payloads" \notin Parsing /\ "payloads" \notin Submitting
        /\ "payloads" \in Label
    BY DEF Label, Getting, Parsing, Submitting
  <1>10. QED
    BY <1>1, <1>2, <1>3, <1>4, <1>7, <1>8, <1>9, GoesOn

LEMMA MetadataFaultInv ==
  ASSUME IInv, NEW c \in Client, MetadataFault(c)
  PROVE  IInv'
  <1>1. pc[c] \in {"metadata", "price", "gas"} /\ Fail(c, "rpc") /\ UNCHANGED intent
    BY DEF MetadataFault, NeedsNode, Calls
  <1>2. Becomes(c, "refused", "rpc", intent[c], held[c])
    BY <1>1, Failed
  <1>3. ClientInv(pc[c], why[c], intent[c], held[c])
    BY DEF IInv
  <1>4. held[c].format \notin Signed
    BY <1>1, <1>3 DEF ClientInv, Routed, Stages, Getting, Signed
  <1>5. ~Consents("refused", "rpc", held[c])
    BY <1>4 DEF Consents
  <1>6. QED
    BY <1>1, <1>2, <1>3, <1>5, GivesUp, InvKept

LEMMA MessageFrom ==
  ASSUME NEW i \in IntentType, NEW M, M = Matches(i, i.ops), M # <<>>
  PROVE  /\ MessageOf(i).from = From(M)
         /\ MessageOf(i) = Msg(MessageOf(i).from, MessageOf(i).to, MessageOf(i).value, MessageOf(i).data)
  <1>1. PICK to, value, data : MessageOf(i) = Msg(From(M), to, value, data)
    <2>1. CASE Kind(i) = "unwrap"
      <3>1. UnwrapFits(i.ops, M) /\ From(M) = M[1].acct
        BY <2>1, IntentFits DEF Fits
      <3>2. QED
        BY <2>1, <3>1 DEF MessageOf, UnwrapFits
    <2>2. CASE Kind(i) = "call"
      <3>1. CallFits(i.ops, M) /\ From(M) = M[1].acct
        BY <2>2, IntentFits DEF Fits
      <3>2. QED
        BY <2>2, <3>1 DEF MessageOf, CallFits
    <2>3. CASE Kind(i) = "transfer"
      BY <2>3, IntentFits DEF MessageOf
    <2>4. QED
      BY <2>1, <2>2, <2>3, IntentFits
  <1>2. QED
    BY <1>1 DEF Msg

LEMMA PayloadsInv ==
  ASSUME IInv, NEW c \in Client, Payloads(c)
  PROVE  IInv'
  <1> DEFINE i == intent[c]
             h == held[c]
             md == h.metadata
             M == Matches(i, i.ops)
             g == [h EXCEPT
                    !.tx = Tx(UnsignedMessage(md, M), md.nonce, md.gasPrice, md.gasLimit),
                    !.format = "unsigned", !.cur = M[1].cur, !.signer = From(M)]
  <1>1. /\ pc[c] = "payloads" /\ ClientInv("payloads", why[c], i, h)
        /\ Answers(i) = "C" /\ why[c] = "none" /\ Stages("payloads", why[c], i, h)
    BY CalledC DEF Payloads, Endpoint
  <1>2. /\ Shape(h) /\ i \in IntentType
        /\ MadeOptions(i, h) /\ KeptNonce(i, h) /\ KeptPrice(i, h) /\ MadeMetadata(i, h)
    BY <1>1 DEF ClientInv, Stages, Getting
  <1>3. Matches(md, i.ops) = M
    BY <1>2, MatchesSame DEF MadeMetadata, Says
  <1>4. /\ UNCHANGED intent
        /\ Fail(c, "invalid") \/ (Decodes(md.gasPrice) /\ Reply(c, "parse unsigned", g))
    BY <1>3 DEF Payloads, Quiet
  <1>5. CASE Fail(c, "invalid")
    BY <1>1, <1>4, <1>5, FailInv
  <1>6. CASE Decodes(md.gasPrice) /\ Reply(c, "parse unsigned", g)
    <2>1. Becomes(c, "parse unsigned", "none", i, g)
      BY <1>1, <1>4, <1>6, Replied
    <2>2. UnsignedMessage(md, M) = MessageOf(i) /\ From(M) = MessageOf(i).from
      BY <1>2, MessageRight, MessageFrom DEF MadeOptions, MadeMetadata
    <2>3. /\ g.options = h.options /\ g.metadata = md /\ g.fee = h.fee
          /\ g.estimated = h.estimated /\ g.format = "unsigned" /\ g.signer = MessageOf(i).from
          /\ g.tx = Tx(MessageOf(i), md.nonce, md.gasPrice, md.gasLimit)
      BY <1>2, <2>2 DEF Shape
    <2>4. Shape(g)
      <3>1. DOMAIN g.tx = {"from", "to", "value", "data", "nonce", "gasPrice", "gasLimit"}
        BY <2>3 DEF Tx
      <3>2. DOMAIN g = DOMAIN h
        OBVIOUS
      <3> HIDE DEF g
      <3>3. QED
        BY <1>2, <2>3, <3>1, <3>2 DEF Shape
    <2> HIDE DEF g
    <2>5. MadeTx(i, g)
      <3>1. /\ g.tx.to = MessageOf(i).to /\ g.tx.value = MessageOf(i).value
            /\ g.tx.data = MessageOf(i).data /\ g.tx.nonce = md.nonce
            /\ g.tx.gasPrice = md.gasPrice /\ g.tx.gasLimit = md.gasLimit
        BY <2>3 DEF Tx
      <3>2. QED
        BY <1>6, <2>3, <3>1 DEF MadeTx
    <2>6. MadeOptions(i, g) /\ KeptNonce(i, g) /\ KeptPrice(i, g) /\ MadeMetadata(i, g)
      BY <1>2, <2>3 DEF MadeOptions, KeptNonce, KeptPrice, MadeMetadata
    <2>7. /\ "parse unsigned" \notin Getting /\ "parse unsigned" \notin Submitting
          /\ "parse unsigned" \in Label
      BY DEF Label, Getting, Parsing, Submitting
    <2>8. QED
      BY <1>1, <2>1, <2>3, <2>4, <2>5, <2>6, <2>7, GoesOn
  <1>7. QED
    BY <1>4, <1>5, <1>6

(* What is known of a call after /construction/payloads                    *)
LEMMA AfterPayloads ==
  ASSUME IInv, NEW c \in Client, NEW e \in Endpoint, Calls(c, e), e \in Parsing \cup Submitting
  PROVE  /\ pc[c] = e /\ Answers(intent[c]) = "C" /\ why[c] = "none"
         /\ Shape(held[c]) /\ intent[c] \in IntentType
         /\ held[c].format \in {"none", "unsigned"} \cup Signed
         /\ MadeOptions(intent[c], held[c]) /\ KeptNonce(intent[c], held[c])
         /\ KeptPrice(intent[c], held[c]) /\ MadeMetadata(intent[c], held[c])
         /\ MadeTx(intent[c], held[c])
         /\ e \in Submitting => Checked(intent[c], held[c])
  <1>1. /\ pc[c] = e /\ ClientInv(e, why[c], intent[c], held[c])
        /\ Answers(intent[c]) = "C" /\ why[c] = "none"
        /\ Routed(e, intent[c], held[c]) /\ Stages(e, why[c], intent[c], held[c])
    BY CalledC
  <1>2. e # "idle"
    BY DEF Endpoint
  <1>3. QED
    BY <1>1, <1>2 DEF ClientInv, Stages, Routed

(* Steps that leave the client with what it has                            *)
LEMMA SameHeld ==
  ASSUME IInv, NEW c \in Client, NEW e \in Endpoint, Calls(c, e), e \in Parsing \cup Submitting,
         NEW q \in Parsing \cup Submitting, Reply(c, q, held[c]), UNCHANGED intent,
         q \in Submitting => Checked(intent[c], held[c])
  PROVE  IInv'
  <1>1. /\ pc[c] = e /\ Answers(intent[c]) = "C" /\ why[c] = "none" /\ Shape(held[c])
        /\ held[c].format \in {"none", "unsigned"} \cup Signed
        /\ MadeOptions(intent[c], held[c]) /\ KeptNonce(intent[c], held[c])
        /\ KeptPrice(intent[c], held[c]) /\ MadeMetadata(intent[c], held[c])
        /\ MadeTx(intent[c], held[c])
    BY AfterPayloads
  <1>2. Becomes(c, q, "none", intent[c], held[c])
    BY <1>1, Replied
  <1>3. q \in Label \ {"idle", "preprocess", "refused"} /\ q \notin Getting /\ e # "idle"
    BY DEF Label, Getting, Parsing, Submitting, Endpoint
  <1>4. QED
    BY <1>1, <1>2, <1>3, GoesOn

LEMMA ParseUnsignedInv ==
  ASSUME IInv, NEW c \in Client, ParseUnsigned(c)
  PROVE  IInv'
  <1>1. Calls(c, "parse unsigned") /\ UNCHANGED intent
    BY DEF ParseUnsigned, Quiet
  <1>2. \/ Fail(c, "invalid") \/ Fail(c, "not as intended")
        \/ Reply(c, "sign", held[c])
    BY DEF ParseUnsigned
  <1>3. "parse unsigned" \in Endpoint \cap Parsing /\ "sign" \in Parsing /\ "sign" \notin Submitting
    BY DEF Endpoint, Parsing, Submitting
  <1>4. pc[c] # "idle"
    BY <1>1 DEF Calls
  <1>5. QED
    BY <1>1, <1>2, <1>3, <1>4, FailInv, SameHeld

LEMMA SignPayloadInv ==
  ASSUME IInv, NEW c \in Client, SignPayload(c)
  PROVE  IInv'
  <1> DEFINE i == intent[c]
             h == held[c]
             g(key) == [h EXCEPT !.key = key]
  <1>1. ClientInv("sign", why[c], i, h)
    BY DEF SignPayload, IInv
  <1>2. PICK key : held' = [held EXCEPT ![c].key = key]
    BY DEF SignPayload
  <1>3. Becomes(c, "combine", why[c], i, g(key))
    BY <1>2 DEF SignPayload, Goto, Quiet, Becomes, IInv
  <1> DEFINE k == g(key)
  <1>4. Shape(h) /\ why[c] = "none" /\ Routed("sign", i, h)
    BY <1>1 DEF ClientInv
  <1>5. /\ Shape(k) /\ k.options = h.options /\ k.metadata = h.metadata /\ k.fee = h.fee
        /\ k.estimated = h.estimated /\ k.tx = h.tx /\ k.signer = h.signer /\ k.format = h.format
    BY <1>4 DEF Shape
  <1>6. Becomes(c, "combine", why[c], i, k)
    BY <1>3
  <1> HIDE DEF g, k
  <1>7. /\ "sign" \in Parsing /\ "combine" \in Parsing
        /\ "combine" \notin Submitting /\ "combine" \notin Getting
        /\ "combine" \in Label
    BY DEF Parsing, Submitting, Getting, Label
  <1>8. Routed("combine", i, k)
    BY <1>4, <1>5, <1>7 DEF Routed
  <1>9. ASSUME Answers(i) = "C" PROVE Stages("combine", why[c], i, k)
    <2>1. Stages("sign", why[c], i, h)
      BY <1>1, <1>9 DEF ClientInv
    <2>2. /\ MadeOptions(i, h) /\ KeptNonce(i, h) /\ KeptPrice(i, h) /\ MadeMetadata(i, h)
          /\ MadeTx(i, h)
      BY <1>7, <2>1 DEF Stages
    <2>3. /\ MadeOptions(i, k) /\ KeptNonce(i, k) /\ KeptPrice(i, k) /\ MadeMetadata(i, k)
          /\ MadeTx(i, k)
      BY <1>5, <2>2 DEF MadeOptions, KeptNonce, KeptPrice, MadeMetadata, MadeTx
    <2>4. ~Consents("combine", why[c], k)
      BY <1>4, <1>7 DEF Consents
    <2>5. QED
      BY <1>7, <2>3, <2>4 DEF Stages
  <1>10. ClientInv("combine", why[c], i, k)
    BY <1>1, <1>4, <1>5, <1>7, <1>8, <1>9 DEF ClientInv
  <1>11. QED
    BY <1>6, <1>10, InvKept

LEMMA CombineInv ==
  ASSUME IInv, NEW c \in Client, Combine(c)
  PROVE  IInv'
  <1> DEFINE i == intent[c]
             h == held[c]
             g == [h EXCEPT !.tx.from = h.key,
                            !.format = IF "signed" \in i.legacy THEN "signed tx" ELSE "wrapper"]
  <1>1. Calls(c, "combine") /\ UNCHANGED intent /\ Reply(c, "parse signed", g)
    BY DEF Combine, Quiet
  <1>2. /\ "combine" \in Endpoint \cap Parsing /\ "parse signed" \in Parsing
        /\ "parse signed" \notin Submitting /\ "parse signed" \notin Getting
        /\ "parse signed" \in Label
    BY DEF Endpoint, Parsing, Submitting, Getting, Label
  <1>3. /\ pc[c] = "combine" /\ Answers(i) = "C" /\ why[c] = "none" /\ Shape(h)
        /\ MadeOptions(i, h) /\ KeptNonce(i, h) /\ KeptPrice(i, h) /\ MadeMetadata(i, h)
        /\ MadeTx(i, h)
    BY <1>1, <1>2, AfterPayloads
  <1>4. Becomes(c, "parse signed", "none", i, g)
    BY <1>1, <1>3, Replied
  <1>5. /\ Shape(g) /\ g.options = h.options /\ g.metadata = h.metadata /\ g.fee = h.fee
        /\ g.estimated = h.estimated /\ g.signer = h.signer /\ g.format \in Signed
        /\ g.tx.to = h.tx.to /\ g.tx.value = h.tx.value /\ g.tx.data = h.tx.data
        /\ g.tx.nonce = h.tx.nonce /\ g.tx.gasPrice = h.tx.gasPrice
        /\ g.tx.gasLimit = h.tx.gasLimit
    BY <1>3 DEF Shape, Signed
  <1> HIDE DEF g
  <1>6. /\ MadeOptions(i, g) /\ KeptNonce(i, g) /\ KeptPrice(i, g) /\ MadeMetadata(i, g)
        /\ MadeTx(i, g)
    BY <1>3, <1>5 DEF MadeOptions, KeptNonce, KeptPrice, MadeMetadata, MadeTx
  <1>7. QED
    BY <1>2, <1>3, <1>4, <1>5, <1>6, GoesOn

LEMMA ParseSignedInv ==
  ASSUME IInv, NEW c \in Client, ParseSigned(c)
  PROVE  IInv'
  <1> DEFINE i == intent[c]
             h == held[c]
             ops == ParsedOps(h.tx, WrappedCurrency(h))
  <1>1. Calls(c, "parse signed") /\ UNCHANGED intent
    BY DEF ParseSigned, Quiet
  <1>2. \/ Fail(c, "invalid") \/ Fail(c, "not as intended")
        \/ ops # <<>> /\ h.tx.from = h.signer /\ AsIntended(ops, i) /\ Reply(c, "hash", h)
    BY DEF ParseSigned
  <1>3. "parse signed" \in Endpoint \cap Parsing /\ "hash" \in Submitting
    BY DEF Endpoint, Parsing, Submitting
  <1>4. pc[c] # "idle"
    BY <1>1 DEF Calls
  <1>5. ASSUME ops # <<>>, h.tx.from = h.signer, AsIntended(ops, i)
        PROVE  Checked(i, h)
    <2>1. i \in IntentType /\ MadeOptions(i, h) /\ MadeTx(i, h)
      BY <1>1, <1>3, AfterPayloads
    <2>2. Carries(h.tx, MessageOf(i))
      BY <1>5, <2>1 DEF MadeTx, Carries
    <2>3. Effect(h.tx) = Intended(i)
      BY <1>5, <2>1, <2>2, EffectRight DEF MadeOptions
    <2>4. QED
      BY <1>5, <2>3 DEF Checked
  <1>6. QED
    BY <1>1, <1>2, <1>3, <1>4, <1>5, FailInv, SameHeld

LEMMA HashInv ==
  ASSUME IInv, NEW c \in Client, Hash(c)
  PROVE  IInv'
  <1>1. Calls(c, "hash") /\ UNCHANGED intent /\ Reply(c, "submit", held[c])
    BY DEF Hash, Quiet
  <1>2. "hash" \in Endpoint /\ "hash" \in Submitting /\ "submit" \in Submitting
    BY DEF Endpoint, Submitting
  <1>3. Checked(intent[c], held[c])
    BY <1>1, <1>2, AfterPayloads
  <1>4. QED
    BY <1>1, <1>2, <1>3, SameHeld

(* Whatever the node answers, the client keeps the transaction.            *)
LEMMA SubmitFails ==
  ASSUME IInv, NEW c \in Client, pc[c] = "submit", NEW reason, Fail(c, reason), UNCHANGED intent
  PROVE  IInv'
  <1>1. Becomes(c, "refused", reason, intent[c], held[c])
    BY Failed
  <1>2. ClientInv(pc[c], why[c], intent[c], held[c]) /\ pc[c] \in Submitting /\ pc[c] # "idle"
    BY DEF IInv, Submitting
  <1>3. QED
    BY <1>1, <1>2, GivesUp, InvKept

LEMMA SubmitInv ==
  ASSUME IInv, NEW c \in Client, Submit(c)
  PROVE  IInv'
  <1>1. Calls(c, "submit") /\ UNCHANGED intent /\ pc[c] = "submit"
    BY DEF Submit, Calls
  <1>2. Fail(c, SendError(held[c].tx)) \/ Reply(c, "done", held[c])
    BY DEF Submit
  <1>3. "submit" \in Endpoint /\ "submit" \in Submitting /\ "done" \in Submitting
    BY DEF Endpoint, Submitting
  <1>4. Checked(intent[c], held[c])
    BY <1>1, <1>3, AfterPayloads
  <1>5. QED
    BY <1>1, <1>2, <1>3, <1>4, SubmitFails, SameHeld

LEMMA SubmitFaultInv ==
  ASSUME IInv, NEW c \in Client, SubmitFault(c)
  PROVE  IInv'
  BY SubmitFails DEF SubmitFault, Calls

LEMMA ResubmitInv ==
  ASSUME IInv, NEW c \in Client, Resubmit(c)
  PROVE  IInv'
  <1> DEFINE i == intent[c]
             h == held[c]
  <1>1. ClientInv("refused", "rpc", i, h) /\ h.format \in Signed
    BY DEF Resubmit, IInv, Signed
  <1>2. Becomes(c, "submit", "none", i, h)
    BY DEF Resubmit, Becomes, Goto, Quiet, IInv
  <1>3. /\ Shape(h) /\ Routed("refused", i, h)
        /\ Answers(i) = "C" => Stages("refused", "rpc", i, h)
    BY <1>1 DEF ClientInv
  <1>4. Answers(i) = "C"
    BY <1>1, <1>3 DEF Routed, Signed
  <1>5. Consents("refused", "rpc", h)
    BY <1>1 DEF Consents
  <1>6. /\ MadeOptions(i, h) /\ KeptNonce(i, h) /\ KeptPrice(i, h) /\ MadeMetadata(i, h)
        /\ MadeTx(i, h) /\ Checked(i, h)
    BY <1>3, <1>4, <1>5 DEF Stages
  <1>7. "submit" \in Submitting /\ "submit" \notin Getting /\ "submit" \in Label
    BY DEF Label, Getting, Submitting
  <1>8. pc[c] # "idle" /\ h.format \in {"none", "unsigned"} \cup Signed
    BY <1>1 DEF Resubmit
  <1>9. QED
    BY <1>2, <1>3, <1>4, <1>6, <1>7, <1>8, GoesOn

LEMMA StillInv ==
  ASSUME IInv, UNCHANGED clientVars
  PROVE  IInv'
  BY DEF IInv, clientVars

LEMMA NextInv ==
  ASSUME IInv, [Next]_vars
  PROVE  IInv'
  <1>1. ASSUME NEW c \in Client, ClientStep(c) PROVE IInv'
    <2>1. CASE Begin(c)
      BY <2>1, BeginInv
    <2>2. CASE Delegate(c)
      BY <2>2, DelegateInv
    <2>3. CASE UnavailableOffline(c)
      BY <2>3, UnavailableInv
    <2>4. CASE Preprocess(c)
      BY <2>4, PreprocessInv
    <2>5. CASE Metadata(c)
      BY <2>5, MetadataInv
    <2>6. CASE MetadataPrice(c)
      BY <2>6, MetadataPriceInv
    <2>7. CASE MetadataGas(c)
      BY <2>7, MetadataGasInv
    <2>8. CASE MetadataFault(c)
      BY <2>8, MetadataFaultInv
    <2>9. CASE Payloads(c)
      BY <2>9, PayloadsInv
    <2>10. CASE ParseUnsigned(c)
      BY <2>10, ParseUnsignedInv
    <2>11. CASE SignPayload(c)
      BY <2>11, SignPayloadInv
    <2>12. CASE Combine(c)
      BY <2>12, CombineInv
    <2>13. CASE ParseSigned(c)
      BY <2>13, ParseSignedInv
    <2>14. CASE Hash(c)
      BY <2>14, HashInv
    <2>15. CASE Submit(c)
      BY <2>15, SubmitInv
    <2>16. CASE SubmitFault(c)
      BY <2>16, SubmitFaultInv
    <2>17. CASE Resubmit(c)
      BY <2>17, ResubmitInv
    <2>18. QED
      BY <1>1, <2>1, <2>2, <2>3, <2>4, <2>5, <2>6, <2>7, <2>8, <2>9, <2>10, <2>11, <2>12, <2>13,
         <2>14, <2>15, <2>16, <2>17 DEF ClientStep
  <1>2. CASE AcceptBlock
    BY <1>2, StillInv DEF AcceptBlock
  <1>3. ASSUME NEW acct \in Address \ Contract, OtherWallet(acct) PROVE IInv'
    BY <1>3, StillInv DEF OtherWallet
  <1>4. CASE UNCHANGED vars
    BY <1>4, StillInv DEF vars
  <1>5. QED
    BY <1>1, <1>2, <1>3, <1>4 DEF Next

-----------------------------------------------------------------------------
(* Theorems *)

(* A client is at each moment as far as its transaction has been made:     *)
(* what each endpoint of service_construction.go returns is the next part  *)
(* of what was intended, in the format that leads the next call to the     *)
(* same backend.                                                           *)
THEOREM InvariantHolds == Spec => []IInv
  <1>1. Init => IInv
    BY InitInv
  <1>2. IInv /\ [Next]_vars => IInv'
    BY NextInv
  <1>3. QED
    BY <1>1, <1>2, PTL DEF Spec

LEMMA InvConfirms == IInv => IntentConfirmed
  <1> SUFFICES ASSUME IInv, NEW c \in Client, Confirmed(c)
      PROVE  LET h == held[c]
                 i == intent[c]
             IN  /\ Effect(h.tx) = Intended(i)
                 /\ Keeps(i.nonce, h.tx.nonce) /\ Keeps(i.gasLimit, h.tx.gasLimit)
                 /\ Keeps(i.gasPrice, h.tx.gasPrice)
                 /\ h.estimated # NoMsg =>
                        h.estimated = Msg(h.tx.from, h.tx.to, h.tx.value, h.tx.data)
                 /\ h.tx.gasPrice <= MaxInt64 /\ h.tx.gasLimit <= MaxInt64
                    /\ h.tx.gasPrice * h.tx.gasLimit <= MaxInt64
                    => h.fee = h.tx.gasPrice * h.tx.gasLimit
    BY DEF IntentConfirmed
  <1> DEFINE h == held[c]
             i == intent[c]
  <1>1. ClientInv(pc[c], why[c], i, h) /\ Consents(pc[c], why[c], h) /\ h.format \in Signed
    BY DEF IInv, Confirmed, Consents, Submitting, Signed
  <1>2. pc[c] # "idle"
    BY <1>1, NoHeldFacts DEF ClientInv, Signed
  <1>3. i \in IntentType /\ Answers(i) = "C" /\ Stages(pc[c], why[c], i, h)
    BY <1>1, <1>2 DEF ClientInv, Routed, Signed
  <1>4. /\ MadeOptions(i, h) /\ KeptNonce(i, h) /\ KeptPrice(i, h) /\ MadeMetadata(i, h)
        /\ MadeTx(i, h) /\ Checked(i, h)
    BY <1>1, <1>3 DEF Stages
  <1>5. Keeps(i.nonce, h.tx.nonce) /\ Keeps(i.gasLimit, h.tx.gasLimit)
    BY <1>4, Uint64Keeps DEF Keeps, KeptNonce, MadeMetadata, MadeTx
  <1>6. Keeps(i.gasPrice, h.tx.gasPrice)
    BY <1>4 DEF Keeps, KeptPrice, MadeTx
  <1>7. h.estimated # NoMsg => h.estimated = Msg(h.tx.from, h.tx.to, h.tx.value, h.tx.data)
    <2>1. MessageOf(i) = Msg(MessageOf(i).from, MessageOf(i).to, MessageOf(i).value, MessageOf(i).data)
      BY <1>3, <1>4, MessageFrom DEF MadeOptions
    <2>2. QED
      BY <1>4, <2>1 DEF MadeMetadata, MadeTx, Checked
  <1>8. ASSUME h.tx.gasPrice <= MaxInt64, h.tx.gasLimit <= MaxInt64,
               h.tx.gasPrice * h.tx.gasLimit <= MaxInt64
        PROVE  h.fee = h.tx.gasPrice * h.tx.gasLimit
    <2>1. h.tx.gasPrice \in Nat /\ h.tx.gasLimit \in Nat
      BY <1>4, WidthFacts DEF MadeTx, MadeMetadata, Decodes, Uint64s
    <2>2. h.fee = Int64(Int64(h.tx.gasPrice) * Int64(h.tx.gasLimit))
      BY <1>4 DEF MadeTx, MadeMetadata
    <2>3. QED
      BY <1>8, <2>1, <2>2, FeeKeeps
  <1>9. QED
    BY <1>4, <1>5, <1>6, <1>7, <1>8 DEF Checked

(* For any numbers, intents and clients, a transaction that is submitted   *)
(* after its client has checked what /construction/parse says of it does   *)
(* what was intended, with the nonce and the gas that were chosen.         *)
THEOREM IntentsConfirmed == Spec => []IntentConfirmed
  BY InvariantHolds, InvConfirms, PTL

-----------------------------------------------------------------------------
(* Supported intents match and decode *)

LEMMA FirstMatches ==
  ASSUME NEW md, NEW ops, NEW D, D = OperationDescriptions(md, ops), D # <<>>, ops # <<>>,
         \A k \in DOMAIN D : ops[k].type = D[k].type /\ Sign(ops[k].val) \in D[k].signs,
         \A k \in DOMAIN ops : ops[k].acct \in Address
  PROVE  Matches(md, ops) = ops
  BY DEF Matches, MatchOperations

LEMMA ReverseMatches ==
  ASSUME NEW md, NEW ops, NEW D, D = OperationDescriptions(md, ops), D # <<>>,
         NEW rev, rev = Reverse(ops), rev # <<>>,
         \E k \in DOMAIN D : ~(ops[k].type = D[k].type /\ Sign(ops[k].val) \in D[k].signs),
         \A k \in DOMAIN D : rev[k].type = D[k].type /\ Sign(rev[k].val) \in D[k].signs,
         \A k \in DOMAIN rev : rev[k].acct \in Address
  PROVE  Matches(md, ops) = rev
  BY DEF Matches, MatchOperations

LEMMA NotEmpty ==
  ASSUME NEW S, NEW s \in Seq(S), Len(s) # 0
  PROVE  s # <<>>
  OBVIOUS

LEMMA OneDomain ==
  ASSUME NEW s \in Seq(OpType), Len(s) = 1
  PROVE  DOMAIN s = {1} /\ s # <<>> /\ s[1].val \in Int
         /\ s[1] = Op(s[1].type, s[1].acct, s[1].val, s[1].cur)
  <1>1. DOMAIN s = {1} /\ 1 \in 1 .. Len(s)
    OBVIOUS
  <1>2. QED
    BY <1>1, OpFacts, NotEmpty

LEMMA TwoDomain ==
  ASSUME NEW s \in Seq(OpType), Len(s) = 2
  PROVE  DOMAIN s = {1, 2} /\ s # <<>> /\ s[1].val \in Int /\ s[2].val \in Int
         /\ s[1] = Op(s[1].type, s[1].acct, s[1].val, s[1].cur)
         /\ s[2] = Op(s[2].type, s[2].acct, s[2].val, s[2].cur)
  <1>1. DOMAIN s = {1, 2} /\ 1 \in 1 .. Len(s) /\ 2 \in 1 .. Len(s)
    OBVIOUS
  <1>2. QED
    BY <1>1, OpFacts, NotEmpty

LEMMA UnwrapSupported ==
  ASSUME NEW i \in IntentType, Supported(i), Kind(i) = "unwrap"
  PROVE  /\ Matches(i, i.ops) = i.ops /\ i.ops # <<>> /\ i.method = ""
         /\ Len(i.ops) = 1 /\ -i.ops[1].val \in 1 .. TopByte - 1 /\ i.ops[1].type = "ERC20_BURN"
  <1> DEFINE ops == i.ops
             D == OperationDescriptions(i, ops)
  <1>1. ops \in Seq(OpType) /\ i.unwrap
    BY DEF IntentType, Kind
  <1>2. /\ i.method = "" /\ Len(ops) = 1 /\ ops[1].cur \in BridgeTokenList
        /\ ops[1].acct \in Address /\ ops[1].type = "ERC20_BURN" /\ -ops[1].val \in 1 .. TopByte - 1
    BY <1>1 DEF Supported
  <1>3. D = <<Description("ERC20_BURN", {Negative})>>
    BY <1>1, <1>2 DEF OperationDescriptions, isUnwrapRequest, CreateUnwrapOperationDescription
  <1> HIDE DEF D
  <1>4. D # <<>> /\ DOMAIN D = {1} /\ D[1].type = "ERC20_BURN" /\ D[1].signs = {Negative}
    BY <1>3 DEF Description
  <1>5. DOMAIN ops = {1} /\ ops # <<>>
    BY <1>1, <1>2, OneDomain
  <1>6. Sign(ops[1].val) \in {Negative}
    <2> DEFINE v == ops[1].val
    <2>1. v \in Int
      BY <1>1, <1>2, OneDomain
    <2>2. -v \in 1 .. TopByte - 1
      BY <1>2
    <2> HIDE DEF v
    <2>3. v < 0
      BY <2>1, <2>2, WidthFacts
    <2>4. QED
      BY <2>1, <2>3, SignFacts DEF v
  <1>7. Matches(i, ops) = ops
    <2>1. \A k \in DOMAIN D : ops[k].type = D[k].type /\ Sign(ops[k].val) \in D[k].signs
      BY <1>2, <1>4, <1>6
    <2>2. \A k \in DOMAIN ops : ops[k].acct \in Address
      BY <1>2, <1>5
    <2>3. QED
      BY <1>4, <1>5, <2>1, <2>2, FirstMatches DEF D
  <1>8. QED
    BY <1>2, <1>5, <1>7

LEMMA MovesFacts ==
  ASSUME NEW ops \in Seq(OpType), NEW type, NEW amounts, Moves(ops, type, amounts)
  PROVE  /\ Len(ops) = 2 /\ ops[1].cur = ops[2].cur /\ DOMAIN ops = {1, 2} /\ ops # <<>>
         /\ ops[1].type = type /\ ops[2].type = type
         /\ ops[1].acct \in Address /\ ops[2].acct \in Address
         /\ ops[1].val \in Int /\ ops[2].val \in Int /\ ops[1].val = -ops[2].val
         /\ ops[1].val \in amounts \/ ops[2].val \in amounts
  <1>1. Len(ops) = 2
    BY DEF Moves
  <1>2. DOMAIN ops = {1, 2} /\ ops # <<>> /\ ops[1].val \in Int /\ ops[2].val \in Int
    BY <1>1, TwoDomain
  <1>3. QED
    BY <1>1, <1>2 DEF Moves

LEMMA CallSupported ==
  ASSUME NEW i \in IntentType, Supported(i), Kind(i) = "call"
  PROVE  /\ Matches(i, i.ops) = i.ops /\ i.ops # <<>>
         /\ i.method \notin {"", "transfer", "unwrap"} /\ i.args.good
         /\ Moves(i.ops, "CALL", {0}) /\ i.ops[1].val = 0 /\ i.ops[2].val = 0
  <1> DEFINE ops == i.ops
             D == OperationDescriptions(i, ops)
             d == Description("CALL", AnyAmountSign)
  <1>1. ops \in Seq(OpType) /\ ~i.unwrap /\ i.method # ""
    BY DEF IntentType, Kind
  <1>2. i.method \notin {"transfer", "unwrap"} /\ i.args.good /\ Moves(ops, "CALL", {0})
    BY <1>1 DEF Supported
  <1>3. /\ Len(ops) = 2 /\ ops[1].cur = ops[2].cur /\ DOMAIN ops = {1, 2} /\ ops # <<>>
        /\ ops[1].type = "CALL" /\ ops[2].type = "CALL"
        /\ ops[1].acct \in Address /\ ops[2].acct \in Address
        /\ ops[1].val = 0 /\ ops[2].val = 0
    <2>1. /\ Len(ops) = 2 /\ ops[1].cur = ops[2].cur /\ DOMAIN ops = {1, 2} /\ ops # <<>>
          /\ ops[1].type = "CALL" /\ ops[2].type = "CALL"
          /\ ops[1].acct \in Address /\ ops[2].acct \in Address
          /\ ops[1].val \in Int /\ ops[2].val \in Int /\ ops[1].val = -ops[2].val
          /\ ops[1].val \in {0} \/ ops[2].val \in {0}
      BY <1>1, <1>2, MovesFacts
    <2>2. QED
      BY <2>1
  <1>4. D = <<d, d>>
    BY <1>1, <1>3
    DEF OperationDescriptions, isUnwrapRequest, isGenericContractCall,
        createGenericContractCallOperationDescription
  <1> HIDE DEF D
  <1>5. D # <<>> /\ DOMAIN D = {1, 2} /\ D[1] = d /\ D[2] = d
    BY <1>4
  <1>6. d.type = "CALL" /\ d.signs = AnyAmountSign
    BY DEF Description
  <1> HIDE DEF d
  <1>7. Sign(0) \in AnyAmountSign
    BY SignFacts
  <1>8. Matches(i, ops) = ops
    BY <1>3, <1>5, <1>6, <1>7, FirstMatches DEF D
  <1>9. QED
    BY <1>1, <1>2, <1>3, <1>8

LEMMA TransferSupported ==
  ASSUME NEW i \in IntentType, Supported(i), Kind(i) = "transfer",
         NEW M, M = Matches(i, i.ops)
  PROVE  /\ M # <<>> /\ M \in Seq(OpType) /\ Len(M) = 2 /\ i.method = ""
         /\ M[1].val = -M[2].val
         /\ i.ops[1].cur = "FLR" => M[2].val \in 1 .. Word - 1
         /\ i.ops[1].cur # "FLR" => M[2].val \in 1 .. TopByte - 1
         /\ M[1].cur = i.ops[1].cur /\ M[2].cur = i.ops[1].cur
  <1> DEFINE ops == i.ops
             D == OperationDescriptions(i, ops)
             t == TransferType(ops[1].cur)
             neg == Description(t, {Negative})
             pos == Description(t, {Positive})
             amounts == IF ops[1].cur = "FLR" THEN 1 .. Word - 1 ELSE 1 .. TopByte - 1
             rev == Reverse(ops)
  <1>1. ops \in Seq(OpType) /\ ~i.unwrap /\ i.method = ""
    BY DEF IntentType, Kind
  <1>2. ops[1].cur \in Contract \cup {"FLR"} /\ Moves(ops, t, amounts)
    BY <1>1, AddressFacts DEF Supported, TransferType
  <1>3. /\ Len(ops) = 2 /\ ops[1].cur = ops[2].cur /\ DOMAIN ops = {1, 2} /\ ops # <<>>
        /\ ops[1].type = t /\ ops[2].type = t
        /\ ops[1].acct \in Address /\ ops[2].acct \in Address
        /\ ops[1].val \in Int /\ ops[2].val \in Int /\ ops[1].val = -ops[2].val
        /\ ops[1].val \in amounts \/ ops[2].val \in amounts
    <2>1. ops \in Seq(OpType) /\ Moves(ops, t, amounts)
      BY <1>1, <1>2
    <2> HIDE DEF ops, t, amounts
    <2>2. QED
      BY <2>1, MovesFacts
  <1>4. D = <<neg, pos>>
    BY <1>1, <1>2, <1>3
    DEF OperationDescriptions, isUnwrapRequest, isGenericContractCall, TransferType,
        createTransferOperationDescription, createOperationDescriptionTransfer
  <1>5. \A n \in amounts : n \in Int /\ n > 0
    BY WidthFacts
  <1> HIDE DEF D
  <1>6. D # <<>> /\ DOMAIN D = {1, 2} /\ D[1] = neg /\ D[2] = pos
    BY <1>4
  <1>7. neg.type = t /\ neg.signs = {Negative} /\ pos.type = t /\ pos.signs = {Positive}
    BY DEF Description
  <1> HIDE DEF neg, pos, t
  <1>8. /\ rev \in Seq(OpType) /\ Len(rev) = 2 /\ rev[1] = ops[2] /\ rev[2] = ops[1]
        /\ DOMAIN rev = {1, 2} /\ rev # <<>>
    <2>1. rev \in Seq(OpType) /\ Len(rev) = 2 /\ rev[1] = ops[2] /\ rev[2] = ops[1]
      BY <1>1, <1>3, ReverseTwo
    <2> HIDE DEF rev
    <2>2. QED
      BY <2>1, TwoDomain
  <1> HIDE DEF amounts, rev
  <1>9. CASE ops[2].val \in amounts
    <2>1. Sign(ops[1].val) \in {Negative} /\ Sign(ops[2].val) \in {Positive}
      BY <1>3, <1>5, <1>9, SignFacts
    <2>2. M = ops
      BY <1>3, <1>6, <1>7, <2>1, FirstMatches DEF D
    <2>3. QED
      BY <1>1, <1>3, <1>9, <2>2 DEF amounts
  <1>10. CASE ops[1].val \in amounts
    <2>1. /\ Sign(ops[2].val) \in {Negative} /\ Sign(ops[1].val) \in {Positive}
      BY <1>3, <1>5, <1>10, SignFacts
    <2>2. Sign(ops[1].val) \notin {Negative}
      BY <2>1 DEF Positive, Negative
    <2>3. M = rev
      BY <1>3, <1>6, <1>7, <1>8, <2>1, <2>2, ReverseMatches DEF D, rev
    <2>4. M[1].val = -M[2].val /\ M[2].val \in amounts
      BY <1>3, <1>8, <1>10, <2>3
    <2>5. QED
      BY <1>1, <1>3, <1>8, <2>3, <2>4 DEF amounts
  <1>11. QED
    BY <1>3, <1>9, <1>10

-----------------------------------------------------------------------------
(* ... and their transactions parse *)

Contents(tx, msg) == tx.to = msg.to /\ tx.value = msg.value /\ tx.data = msg.data

(* The operations of a supported intent are what is parsed, if the sender  *)
(* is the one that pays, and something is parsed anyway.                   *)
Parses(tx, i) ==
    /\ ParsedOps(tx, i.ops[1].cur) # <<>>
    /\ tx.from = MessageOf(i).from => AsIntended(ParsedOps(tx, i.ops[1].cur), i)

LEMMA ZeroDecodes == Decodes(0)
  BY WidthFacts DEF Decodes

LEMMA UnwrapParses ==
  ASSUME NEW i \in IntentType, Supported(i), Kind(i) = "unwrap",
         NEW tx, Contents(tx, MessageOf(i))
  PROVE  Parses(tx, i)
  <1> DEFINE ops == i.ops
             v == ops[1].val
             args == [to |-> "", amount |-> -v, chain |-> 0, whole |-> -v < Word]
  <1>1. /\ ops \in Seq(OpType) /\ Len(ops) = 1 /\ ops[1].type = "ERC20_BURN"
        /\ -v \in 1 .. TopByte - 1
    BY UnwrapSupported DEF IntentType
  <1>2. v \in Int /\ ops[1] = Op(ops[1].type, ops[1].acct, ops[1].val, ops[1].cur)
    BY <1>1, OneDomain
  <1>3. ops = <<ops[1]>>
    BY <1>1, OneLong
  <1>4. MessageOf(i) = Msg(ops[1].acct, ops[1].cur, 0, Data("unwrap", args))
    BY DEF MessageOf, generateBridgeUnwrapTransferData
  <1>5. args.amount = -v /\ args.chain = 0 /\ (args.whole <=> -v < Word)
    OBVIOUS
  <1> HIDE DEF v
  <1>6. -v \in 0 .. TopByte - 1 /\ -v < Word /\ -(-v) = v
    <2>1. -v \in 0 .. TopByte - 1 /\ -(-v) = v
      BY <1>1, <1>2, WidthFacts
    <2>2. QED
      BY <2>1, BelowTopByte
  <1>7. args.whole
    BY <1>5, <1>6
  <1> HIDE DEF args
  <1>8. /\ tx.value = 0 /\ tx.data.method = "unwrap" /\ tx.data.amount = -v
        /\ tx.data.chain = 0 /\ tx.data.whole
    BY <1>4, <1>5, <1>7 DEF Contents, Msg, Data
  <1>9. 0 % TopByte = 0 /\ Uint64(0) = 0 /\ (-v) % TopByte = -v
    BY <1>6, WidthFacts, BelowTopByte DEF Uint64
  <1>10. parseUnwrapData(tx.data) = <<-v>>
    BY <1>8, <1>9 DEF parseUnwrapData
  <1>11. createUnwrapOps(tx, ops[1].cur) = <<Op("ERC20_BURN", tx.from, -(-v), ops[1].cur)>>
    BY <1>10 DEF createUnwrapOps
  <1>12. ParsedOps(tx, ops[1].cur) = <<Op("ERC20_BURN", tx.from, v, ops[1].cur)>>
    BY <1>6, <1>8, <1>11, ZeroDecodes DEF ParsedOps
  <1>13. tx.from = MessageOf(i).from => ParsedOps(tx, ops[1].cur) = ops
    <2>1. MessageOf(i).from = ops[1].acct
      BY <1>4 DEF Msg
    <2>2. QED
      BY <1>1, <1>2, <1>3, <1>12, <2>1 DEF v
  <1>14. QED
    BY <1>12, <1>13 DEF Parses, AsIntended

LEMMA MoveIntended ==
  ASSUME NEW ops \in Seq(OpType), NEW M \in Seq(OpType), Len(M) = 2,
         NEW type, M[1].type = type, M[2].type = type, NEW cur, M[1].cur = cur, M[2].cur = cur,
         M[1].val = -M[2].val
  PROVE  Move(type, M[1].acct, M[2].acct, M[2].val, cur) = M
  <1>1. /\ M[1] = Op(type, M[1].acct, -M[2].val, cur)
        /\ M[2] = Op(type, M[2].acct, M[2].val, cur)
    BY TwoDomain
  <1>2. M = <<M[1], M[2]>>
    BY TwoLong
  <1>3. QED
    BY <1>1, <1>2 DEF Move

LEMMA CallParses ==
  ASSUME NEW i \in IntentType, Supported(i), Kind(i) = "call",
         NEW tx, Contents(tx, MessageOf(i))
  PROVE  Parses(tx, i)
  <1> DEFINE ops == i.ops
  <1>1. /\ ops \in Seq(OpType) /\ i.method \notin {"", "transfer", "unwrap"}
        /\ Moves(ops, "CALL", {0}) /\ ops[1].val = 0 /\ ops[2].val = 0
    BY CallSupported DEF IntentType
  <1>2. MessageOf(i) = Msg(ops[1].acct, ops[2].acct, 0, Data(i.method, i.args))
    BY <1>1 DEF MessageOf, DataOf
  <1>3. /\ tx.to = ops[2].acct /\ tx.value = 0 /\ tx.data.method = i.method
        /\ MessageOf(i).from = ops[1].acct
    BY <1>2 DEF Contents, Msg, Data
  <1>4. ParsedOps(tx, ops[1].cur) = Move("CALL", tx.from, ops[2].acct, ops[2].val, ops[1].cur)
    BY <1>1, <1>3, ZeroDecodes DEF ParsedOps, createGenericContractCallOps
  <1>5. ParsedOps(tx, ops[1].cur) # <<>>
    BY <1>4 DEF Move
  <1>6. ASSUME tx.from = MessageOf(i).from PROVE ParsedOps(tx, ops[1].cur) = ops
    <2>1. /\ Len(ops) = 2 /\ ops[1].cur = ops[2].cur
          /\ ops[1].type = "CALL" /\ ops[2].type = "CALL" /\ ops[1].val = -ops[2].val
      BY <1>1, MovesFacts
    <2>2. Move("CALL", ops[1].acct, ops[2].acct, ops[2].val, ops[1].cur) = ops
      BY <1>1, <2>1, MoveIntended
    <2>3. QED
      BY <1>3, <1>4, <1>6, <2>2
  <1>7. QED
    BY <1>5, <1>6 DEF Parses, AsIntended

LEMMA TransferParses ==
  ASSUME NEW i \in IntentType, Supported(i), Kind(i) = "transfer",
         NEW tx, Contents(tx, MessageOf(i))
  PROVE  Parses(tx, i)
  <1> DEFINE ops == i.ops
             M == Matches(i, ops)
             cur == ops[1].cur
             t == TransferType(cur)
  <1>1. /\ M # <<>> /\ M \in Seq(OpType) /\ Len(M) = 2 /\ M[1].val = -M[2].val
        /\ cur = "FLR" => M[2].val \in 1 .. Word - 1
        /\ cur # "FLR" => M[2].val \in 1 .. TopByte - 1
        /\ M[1].cur = cur /\ M[2].cur = cur
    BY TransferSupported
  <1>2. TransferFits(ops, M) /\ ops \in Seq(OpType)
    BY <1>1, IntentFits DEF Fits
  <1>3. M[1].type = t /\ M[2].type = t /\ M \in {ops, Reverse(ops)}
    BY <1>2 DEF TransferFits
  <1> HIDE DEF M
  <1>4. Move(t, M[1].acct, M[2].acct, M[2].val, cur) = M
    BY <1>1, <1>2, <1>3, MoveIntended
  <1> HIDE DEF cur
  <1>5. ASSUME ParsedOps(tx, cur) = Move(t, tx.from, M[2].acct, M[2].val, cur),
               MessageOf(i).from = M[1].acct
        PROVE  Parses(tx, i)
    <2>1. ParsedOps(tx, cur) # <<>>
      BY <1>5 DEF Move
    <2>2. tx.from = MessageOf(i).from => ParsedOps(tx, cur) = M
      BY <1>4, <1>5
    <2>3. QED
      BY <1>3, <2>1, <2>2 DEF Parses, AsIntended, cur
  <1>6. CASE cur = "FLR"
    <2>1. MessageOf(i) = Msg(M[1].acct, M[2].acct, M[2].val, NoData)
      BY <1>6 DEF MessageOf, M, cur
    <2>2. /\ tx.to = M[2].acct /\ tx.value = M[2].val /\ tx.data.method = ""
          /\ MessageOf(i).from = M[1].acct
      <3>1. /\ tx.to = M[2].acct /\ tx.value = M[2].val /\ tx.data = NoData
            /\ MessageOf(i).from = M[1].acct
        BY <2>1 DEF Contents, Msg
      <3>2. QED
        BY <3>1, NoDataFields
    <2>3. Decodes(tx.value)
      <3> DEFINE v == M[2].val
      <3>1. v \in 1 .. Word - 1 /\ tx.value = v
        BY <1>1, <1>6, <2>2
      <3> HIDE DEF v
      <3>2. QED
        BY <3>1, WidthFacts DEF Decodes
    <2>4. ParsedOps(tx, cur) = Move("CALL", tx.from, M[2].acct, M[2].val, cur)
      BY <2>2, <2>3 DEF ParsedOps, createTransferOps
    <2>5. QED
      BY <1>5, <1>6, <2>2, <2>4 DEF TransferType
  <1>7. CASE cur # "FLR"
    <2> DEFINE v == M[2].val
               args == [to |-> M[2].acct, amount |-> v, chain |-> 0, whole |-> v < Word]
    <2>1. MessageOf(i) = Msg(M[1].acct, cur, 0, Data("transfer", args))
      BY <1>7 DEF MessageOf, M, cur, generateErc20TransferData
    <2>2. args.to = M[2].acct /\ args.amount = v /\ (args.whole <=> v < Word)
      OBVIOUS
    <2> HIDE DEF args
    <2>3. v % TopByte = v /\ v < Word
      <3>1. v \in 0 .. TopByte - 1
        BY <1>1, <1>7, WidthFacts
      <3>2. QED
        BY <3>1, BelowTopByte
    <2>4. /\ tx.value = 0 /\ tx.data.method = "transfer" /\ tx.data.to = M[2].acct
          /\ tx.data.amount = v /\ tx.data.whole /\ MessageOf(i).from = M[1].acct
      BY <2>1, <2>2, <2>3 DEF Contents, Msg, Data
    <2> DEFINE parsed == parseErc20TransferData(tx.data)
    <2>5. parsed # <<>> /\ parsed[1].to = M[2].acct /\ parsed[1].amount = v
      BY <2>3, <2>4 DEF parseErc20TransferData
    <2> HIDE DEF parsed, v
    <2>6. createTransferOps(tx, cur) = Move("ERC20_TRANSFER", tx.from, M[2].acct, v, cur)
      BY <2>4, <2>5 DEF createTransferOps, parsed
    <2>7. ParsedOps(tx, cur) = Move("ERC20_TRANSFER", tx.from, M[2].acct, v, cur)
      BY <2>4, <2>6, ZeroDecodes DEF ParsedOps
    <2>8. QED
      BY <1>5, <1>7, <2>4, <2>7 DEF TransferType, v
  <1>8. QED
    BY <1>6, <1>7

LEMMA SupportedParses ==
  ASSUME NEW i \in IntentType, Supported(i), NEW tx, Contents(tx, MessageOf(i))
  PROVE  Parses(tx, i)
  BY UnwrapParses, CallParses, TransferParses DEF Kind

-----------------------------------------------------------------------------
(* ... and their numbers decode *)

LEMMA DecodeBoth ==
  ASSUME NEW s \in Seq(Int), NEW t \in Seq(Int)
  PROVE  AllDecode(s \o t) <=> AllDecode(s) /\ AllDecode(t)
  <1> DEFINE u == s \o t
  <1>1. DOMAIN u = 1 .. Len(s) + Len(t) /\ DOMAIN s = 1 .. Len(s) /\ DOMAIN t = 1 .. Len(t)
        /\ Len(s) \in Nat /\ Len(t) \in Nat
    OBVIOUS
  <1>2. \A k \in DOMAIN s : u[k] = s[k]
    OBVIOUS
  <1>3. \A k \in DOMAIN t : u[Len(s) + k] = t[k]
    OBVIOUS
  <1> HIDE DEF u
  <1>4. AllDecode(u) => AllDecode(s)
    BY <1>1, <1>2 DEF AllDecode
  <1>5. ASSUME AllDecode(u), NEW k \in DOMAIN t PROVE Decodes(t[k])
    <2>1. Len(s) + k \in DOMAIN u
      BY <1>1
    <2>2. QED
      BY <1>3, <1>5, <2>1 DEF AllDecode
  <1>6. ASSUME AllDecode(s), AllDecode(t), NEW k \in DOMAIN u PROVE Decodes(u[k])
    <2>1. CASE k \in DOMAIN s
      BY <1>2, <1>6, <2>1 DEF AllDecode
    <2>2. CASE k \notin DOMAIN s
      <3>1. k - Len(s) \in DOMAIN t /\ Len(s) + (k - Len(s)) = k
        BY <1>1, <2>2
      <3>2. u[k] = t[k - Len(s)]
        BY <1>3, <3>1
      <3>3. QED
        BY <1>6, <3>1, <3>2 DEF AllDecode
    <2>3. QED
      BY <2>1, <2>2
  <1>7. QED
    BY <1>4, <1>5, <1>6 DEF AllDecode, u

LEMMA FirstDecodes ==
  ASSUME NEW s \in Seq(Int), s # <<>>, AllDecode(s)
  PROVE  Decodes(s[1])
  <1>1. 1 \in DOMAIN s
    OBVIOUS
  <1>2. QED
    BY <1>1 DEF AllDecode

LEMMA AmountDecodes ==
  ASSUME NEW i \in IntentType, Supported(i), NEW M, M = Matches(i, i.ops)
  PROVE  M # <<>> /\ Amount(M) \in Int /\ Decodes(Amount(M))
  <1>1. CASE Kind(i) = "unwrap"
    <2> DEFINE n == -i.ops[1].val
    <2>1. M # <<>> /\ n \in 1 .. TopByte - 1
      BY <1>1, UnwrapSupported
    <2>2. Amount(M) = n
      BY <1>1, <2>1, IntentFits
    <2> HIDE DEF n
    <2>3. QED
      BY <2>1, <2>2, WidthFacts DEF Decodes
  <1>2. CASE Kind(i) = "call"
    <2>1. M # <<>>
      BY <1>2, CallSupported
    <2>2. Amount(M) = 0
      BY <1>2, <2>1, IntentFits
    <2>3. QED
      BY <2>1, <2>2, ZeroDecodes
  <1>3. CASE Kind(i) = "transfer"
    <2> DEFINE n == M[2].val
    <2>1. M # <<>> /\ (n \in 1 .. Word - 1 \/ n \in 1 .. TopByte - 1)
      BY <1>3, TransferSupported
    <2>2. Amount(M) = n
      BY <1>3, <2>1, IntentFits
    <2> HIDE DEF n
    <2>3. QED
      BY <2>1, <2>2, WidthFacts DEF Decodes
  <1>4. QED
    BY <1>1, <1>2, <1>3 DEF Kind

LEMMA ValueDecodes ==
  ASSUME NEW v, NEW n \in Int, Decodes(n), v = <<>> \/ v = <<n>>
  PROVE  v \in Seq(Int) /\ AllDecode(v)
  <1>1. CASE v = <<>>
    BY <1>1 DEF AllDecode
  <1>2. CASE v = <<n>>
    <2>1. DOMAIN v = {1} /\ v[1] = n /\ v \in Seq(Int)
      BY <1>2
    <2>2. QED
      BY <2>1 DEF AllDecode
  <1>3. QED
    BY <1>1, <1>2

LEMMA SupportedDecodes ==
  ASSUME NEW i \in IntentType, Supported(i), NEW o, o = OptionsOf(i)
  PROVE  /\ OptionsDecode(o)
         /\ o.gasPrice # <<>> => Decodes(SuggestedGasPrice(o, 0))
         /\ o.gasPrice = <<>> => \A price \in GasPrices : Decodes(SuggestedGasPrice(o, price))
  <1> DEFINE M == Matches(i, i.ops)
  <1>1. M # <<>> /\ Amount(M) \in Int /\ Decodes(Amount(M))
    BY AmountDecodes
  <1>2. /\ o.gasPrice = i.gasPrice /\ o.gasLimit = i.gasLimit /\ o.nonce = i.nonce
        /\ o.multiplier = i.multiplier
        /\ o.value = <<>> \/ o.value = <<Amount(M)>>
    <2>1. OptionsSay(o, i, M)
      BY <1>1, OptionsFacts
    <2>2. QED
      BY <2>1 DEF OptionsSay
  <1> HIDE DEF M
  <1> DEFINE p == i.gasPrice
             l == i.gasLimit
             n == i.nonce
             v == o.value
  <1>3. p \in Seq(Int) /\ l \in Seq(Int) /\ n \in Seq(Int)
    BY DEF IntentType
  <1>4. v \in Seq(Int) /\ AllDecode(v)
    BY <1>1, <1>2, ValueDecodes
  <1>5. AllDecode((p \o l) \o n)
    BY DEF Supported
  <1>6. o.gasPrice = p /\ o.gasLimit = l /\ o.nonce = n
    BY <1>2
  <1> HIDE DEF p, l, n, v
  <1>7. AllDecode(p) /\ AllDecode(l) /\ AllDecode(n)
    <2>1. p \o l \in Seq(Int)
      BY <1>3
    <2>2. AllDecode(p \o l) /\ AllDecode(n)
      BY <1>3, <1>5, <2>1, DecodeBoth
    <2>3. QED
      BY <1>3, <2>2, DecodeBoth
  <1>8. AllDecode(((v \o p) \o l) \o n)
    <2> DEFINE vp == v \o p
               vpl == vp \o l
    <2>1. vp \in Seq(Int) /\ AllDecode(vp)
      BY <1>3, <1>4, <1>7, DecodeBoth
    <2> HIDE DEF vp
    <2>2. vpl \in Seq(Int) /\ AllDecode(vpl)
      BY <1>3, <1>7, <2>1, DecodeBoth
    <2> HIDE DEF vpl
    <2>3. AllDecode(vpl \o n)
      BY <1>3, <1>7, <2>2, DecodeBoth
    <2>4. QED
      BY <2>3 DEF vpl, vp
  <1>9. OptionsDecode(o)
    BY <1>6, <1>8 DEF OptionsDecode, v
  <1>10. o.gasPrice # <<>> => Decodes(SuggestedGasPrice(o, 0))
    BY <1>3, <1>6, <1>7, FirstDecodes DEF SuggestedGasPrice
  <1>11. ASSUME o.gasPrice = <<>>, NEW price \in GasPrices PROVE Decodes(SuggestedGasPrice(o, price))
    <2>1. SuggestedGasPrice(o, price) = SuggestedGasPrice(i, price)
      BY <1>2 DEF SuggestedGasPrice
    <2>2. QED
      BY <2>1 DEF Supported
  <1>12. QED
    BY <1>9, <1>10, <1>11

-----------------------------------------------------------------------------
(* The invariant: p is where a client is, w why it gave up, i what it      *)
(* intends and h what it has got, while n are the nonces of the accounts.  *)

Account == Address \ Contract

Facts(p, w, i, h) ==
    /\ p \in {"price", "gas", "payloads"} \cup Parsing \cup Submitting \/ Consents(p, w, h)
       => /\ i.nonce = <<>> => h.metadata.nonce = h.seen
          /\ h.options.from \in Account => h.seen \in Nat
    /\ p \in {"gas", "payloads"} => Decodes(h.metadata.gasPrice)
    /\ p \in {"parse unsigned", "sign", "combine"} => h.tx.from = h.signer
    /\ p \in {"combine", "parse signed"} => h.key \in Account
    /\ p \in Parsing => h.cur = i.ops[1].cur
    /\ p = "parse signed" => /\ h.tx.from = h.key
                             /\ h.format = "signed tx" => "signed" \in i.legacy
    /\ p \in Submitting \/ Consents(p, w, h) => h.tx.from \in Account

(* Why a supported intent may be turned down *)
Reason(w, i, h, n) ==
    \/ w \in {"offline", "rpc", "already known", "underpriced"}
    \/ w = "nonce too low" /\ h.signer \in Account
       /\ (i.nonce = <<>> => h.seen \in Nat /\ n[h.signer] > h.seen)
    \/ w = "not as intended" /\ h.key \notin {"", h.signer}

Flow(p, w, i, h, n) ==
    Supported(i) /\ p # "idle" =>
        /\ Answers(i) = "C" => Facts(p, w, i, h)
        /\ w # "none" => Reason(w, i, h, n)

HInv ==
    /\ nonce \in [Address -> Nat]
    /\ DOMAIN handled = Client
    /\ \A c \in Client : /\ Flow(pc[c], why[c], intent[c], held[c], nonce)
                         /\ handled[c] \subseteq {Answers(intent[c])}
                         /\ pc[c] = "idle" => handled[c] = {}

Handles(c, b) ==
    /\ DOMAIN handled' = Client
    /\ handled'[c] = handled[c] \cup b
    /\ \A d \in Client \ {c} : handled'[d] = handled[d]

LEMMA HInvKept ==
  ASSUME HInv, NEW c \in Client, NEW p, NEW w, NEW i, NEW h, NEW b,
         Becomes(c, p, w, i, h), Handles(c, b), nonce' = nonce, p # "idle",
         b \subseteq {Answers(i)}, i = intent[c] \/ handled[c] = {}, Flow(p, w, i, h, nonce)
  PROVE  HInv'
  <1>1. ASSUME NEW d \in Client
        PROVE  /\ Flow(pc'[d], why'[d], intent'[d], held'[d], nonce')
               /\ handled'[d] \subseteq {Answers(intent'[d])}
               /\ pc'[d] = "idle" => handled'[d] = {}
    <2>1. CASE d = c
      <3>1. /\ pc'[d] = p /\ why'[d] = w /\ intent'[d] = i /\ held'[d] = h
            /\ handled'[d] = handled[c] \cup b
        BY <2>1 DEF Becomes, Handles
      <3>2. handled[c] \subseteq {Answers(i)}
        BY DEF HInv
      <3>3. QED
        BY <3>1, <3>2
    <2>2. CASE d # c
      <3>1. /\ pc'[d] = pc[d] /\ why'[d] = why[d] /\ intent'[d] = intent[d] /\ held'[d] = held[d]
            /\ handled'[d] = handled[d]
        BY <2>2 DEF Becomes, Handles
      <3>2. QED
        BY <3>1 DEF HInv
    <2>3. QED
      BY <2>1, <2>2
  <1>2. QED
    BY <1>1 DEF HInv, Handles

LEMMA FlowReply ==
  ASSUME IInv, HInv, NEW c \in Client, NEW q, NEW g, Reply(c, q, g), UNCHANGED <<intent, nonce>>,
         Answers(intent[c]) = "C", why[c] = "none", q # "idle",
         Supported(intent[c]) => Facts(q, "none", intent[c], g)
  PROVE  HInv'
  <1>1. Becomes(c, q, "none", intent[c], g)
    BY Replied
  <1>2. Handles(c, {"C"})
    BY DEF HInv, Handles, Reply
  <1>3. Flow(q, "none", intent[c], g, nonce)
    BY DEF Flow
  <1>4. QED
    BY <1>1, <1>2, <1>3, HInvKept

LEMMA FlowFail ==
  ASSUME IInv, HInv, NEW c \in Client, NEW reason, Fail(c, reason), UNCHANGED <<intent, nonce>>,
         Answers(intent[c]) = "C",
         Supported(intent[c]) => /\ Facts("refused", reason, intent[c], held[c])
                                 /\ Reason(reason, intent[c], held[c], nonce)
  PROVE  HInv'
  <1>1. Becomes(c, "refused", reason, intent[c], held[c])
    BY Failed
  <1>2. Handles(c, {"C"})
    BY DEF HInv, Handles, Fail
  <1>3. Flow("refused", reason, intent[c], held[c], nonce)
    BY DEF Flow
  <1>4. QED
    BY <1>1, <1>2, <1>3, HInvKept

(* Nothing more is claimed of a client that gave up before it submitted.   *)
LEMMA GaveUp ==
  ASSUME NEW w, NEW i, NEW h, ~Consents("refused", w, h)
  PROVE  Facts("refused", w, i, h)
  BY DEF Facts, Parsing, Submitting

LEMMA InitFlow == Init => HInv
  <1> SUFFICES ASSUME Init PROVE HInv
    OBVIOUS
  <1>1. nonce \in [Address -> Nat]
    BY DEF Init
  <1>2. QED
    BY <1>1 DEF Init, HInv, Flow

LEMMA BeginFlow ==
  ASSUME IInv, HInv, NEW c \in Client, Begin(c)
  PROVE  HInv'
  <1>1. PICK i \in Intents[c] : intent' = [intent EXCEPT ![c] = i]
    BY DEF Begin
  <1>2. Becomes(c, "preprocess", why[c], i, held[c])
    BY <1>1 DEF Becomes, Begin, Goto, IInv
  <1>3. Handles(c, {}) /\ nonce' = nonce /\ handled[c] = {}
    BY DEF Begin, Handles, HInv, nodeVars
  <1>4. ClientInv("idle", why[c], intent[c], held[c])
    BY DEF Begin, IInv
  <1>5. held[c] = NoHeld /\ why[c] = "none"
    BY <1>4 DEF ClientInv
  <1>6. ~Consents("preprocess", why[c], held[c])
    BY <1>5, NoHeldFacts DEF Consents, Signed
  <1>7. Flow("preprocess", why[c], i, held[c], nonce)
    BY <1>5, <1>6 DEF Flow, Facts, Parsing, Submitting
  <1>8. QED
    BY <1>2, <1>3, <1>7, HInvKept

LEMMA DelegateFlow ==
  ASSUME IInv, HInv, NEW c \in Client, Delegate(c)
  PROVE  HInv'
  <1> DEFINE p == pc[c]
             i == intent[c]
             backend == Backend(p, i, held[c])
  <1>1. p \in Endpoint /\ backend # "C" /\ ClientInv(p, why[c], i, held[c])
    BY DEF Delegate, IInv
  <1>2. backend = Answers(i) /\ why[c] = "none"
    <2>1. backend = Answers(i)
      BY <1>1, BackendRight
    <2>2. QED
      BY <1>1, <2>1 DEF ClientInv, Endpoint
  <1>3. PICK g : Becomes(c, Following(p), why[c], i, g)
    BY DEF Delegate, Becomes, Goto, Quiet, IInv
  <1>4. Handles(c, {backend}) /\ nonce' = nonce
    BY DEF Delegate, Handles, HInv, Quiet, nodeVars
  <1>5. Following(p) # "idle"
    BY <1>1 DEF Following, Endpoint
  <1>6. Flow(Following(p), why[c], i, g, nonce)
    BY <1>1, <1>2 DEF Flow
  <1>7. QED
    BY <1>2, <1>3, <1>4, <1>5, <1>6, HInvKept

LEMMA UnavailableFlow ==
  ASSUME IInv, HInv, NEW c \in Client, UnavailableOffline(c)
  PROVE  HInv'
  <1>1. Becomes(c, "refused", "offline", intent[c], held[c])
    BY DEF UnavailableOffline, Becomes, Goto, Quiet, IInv
  <1>2. Handles(c, {}) /\ nonce' = nonce
    BY DEF UnavailableOffline, Handles, HInv, Quiet, nodeVars
  <1>3. ~Consents("refused", "offline", held[c])
    BY DEF Consents, Submitting
  <1>4. Flow("refused", "offline", intent[c], held[c], nonce)
    BY <1>3, GaveUp DEF Flow, Reason
  <1>5. QED
    BY <1>1, <1>2, <1>4, HInvKept

LEMMA PreprocessFlow ==
  ASSUME IInv, HInv, NEW c \in Client, Preprocess(c)
  PROVE  HInv'
  <1> DEFINE i == intent[c]
             M == Matches(i, i.ops)
  <1>1. /\ ClientInv("preprocess", why[c], i, held[c]) /\ Answers(i) = "C" /\ why[c] = "none"
    BY CalledC DEF Preprocess, Endpoint
  <1>2. UNCHANGED <<intent, nonce>>
    BY DEF Preprocess, Quiet, nodeVars
  <1>3. \/ Fail(c, "invalid") /\ (M = <<>> \/ (i.method # "" /\ ~i.args.good))
        \/ \E g : Reply(c, "metadata", g)
    BY DEF Preprocess
  <1>4. CASE Fail(c, "invalid") /\ (M = <<>> \/ (i.method # "" /\ ~i.args.good))
    <2>1. i \in IntentType
      BY <1>1 DEF ClientInv
    <2>2. ~Supported(i)
      <3>1. ASSUME Supported(i) PROVE M # <<>> /\ (i.method # "" => i.args.good)
        BY <2>1, <3>1, UnwrapSupported, CallSupported, TransferSupported DEF Kind
      <3>2. QED
        BY <1>4, <3>1
    <2>3. QED
      BY <1>1, <1>2, <1>4, <2>2, FlowFail
  <1>5. CASE \E g : Reply(c, "metadata", g)
    <2>1. PICK g : Reply(c, "metadata", g)
      BY <1>5
    <2>2. Facts("metadata", "none", i, g)
      BY DEF Facts, Consents, Parsing, Submitting
    <2>3. QED
      BY <1>1, <1>2, <2>1, <2>2, FlowReply
  <1>6. QED
    BY <1>3, <1>4, <1>5

(* A supported intent whose call the C-chain backend answers has so far    *)
(* been given what it should.                                              *)
LEMMA SoFar ==
  ASSUME IInv, HInv, NEW c \in Client, pc[c] # "idle", Answers(intent[c]) = "C",
         Supported(intent[c])
  PROVE  /\ Facts(pc[c], why[c], intent[c], held[c])
         /\ why[c] # "none" => Reason(why[c], intent[c], held[c], nonce)
  BY DEF HInv, Flow

LEMMA MetadataFlow ==
  ASSUME IInv, HInv, NEW c \in Client, Metadata(c)
  PROVE  HInv'
  <1> DEFINE i == intent[c]
             h == held[c]
             o == h.options
             g == [h EXCEPT
                    !.metadata.nonce = IF o.nonce = <<>> THEN NonceAt(o.from) ELSE Uint64(o.nonce[1]),
                    !.seen = nonce[o.from]]
  <1>1. /\ ClientInv("metadata", why[c], i, h) /\ Answers(i) = "C" /\ why[c] = "none"
        /\ Stages("metadata", why[c], i, h)
    BY CalledC DEF Metadata, Endpoint
  <1>2. UNCHANGED <<intent, nonce>>
    BY DEF Metadata, Quiet, nodeVars
  <1>3. (Fail(c, "invalid") /\ ~OptionsDecode(o)) \/ Reply(c, "price", g)
    BY DEF Metadata
  <1>4. Shape(h) /\ i \in IntentType /\ MadeOptions(i, h)
    BY <1>1 DEF ClientInv, Stages, Getting
  <1>5. CASE Fail(c, "invalid") /\ ~OptionsDecode(o)
    <2>1. ~Supported(i)
      BY <1>4, <1>5, SupportedDecodes DEF MadeOptions
    <2>2. QED
      BY <1>1, <1>2, <1>5, <2>1, FlowFail
  <1>6. CASE Reply(c, "price", g)
    <2>1. /\ g.options = o /\ g.seen = nonce[o.from]
          /\ o.nonce = <<>> => g.metadata.nonce = nonce[o.from]
      BY <1>4 DEF Shape, NonceAt
    <2> HIDE DEF g
    <2>2. o.nonce = i.nonce
      <3>1. OptionsSay(o, i, Matches(i, i.ops))
        BY <1>4, OptionsFacts DEF MadeOptions
      <3>2. QED
        BY <3>1 DEF OptionsSay
    <2>3. o.from \in Account => nonce[o.from] \in Nat
      BY DEF HInv, Account
    <2>4. Facts("price", "none", i, g)
      BY <2>1, <2>2, <2>3 DEF Facts, Consents, Parsing, Submitting
    <2>5. QED
      BY <1>1, <1>2, <1>6, <2>4, FlowReply
  <1>7. QED
    BY <1>3, <1>5, <1>6

LEMMA MetadataPriceFlow ==
  ASSUME IInv, HInv, NEW c \in Client, MetadataPrice(c)
  PROVE  HInv'
  <1> DEFINE i == intent[c]
             h == held[c]
             o == h.options
             g(price) == [h EXCEPT !.metadata.gasPrice = SuggestedGasPrice(o, price)]
  <1>1. pc[c] = "price" /\ UNCHANGED <<intent, nonce>>
    BY DEF MetadataPrice, Quiet, nodeVars
  <1>2. PICK price \in IF o.gasPrice = <<>> THEN GasPrices ELSE {0} : Reply(c, "gas", g(price))
    BY DEF MetadataPrice
  <1>3. /\ Shape(h) /\ Answers(i) = "C" /\ why[c] = "none" /\ i \in IntentType
        /\ MadeOptions(i, h)
    BY <1>1, AtNode DEF Stages, Getting
  <1> DEFINE k == g(price)
  <1>4. /\ k.options = o /\ k.seen = h.seen /\ k.metadata.nonce = h.metadata.nonce
        /\ k.metadata.gasPrice = SuggestedGasPrice(o, price)
    BY <1>3 DEF Shape
  <1>5. Reply(c, "gas", k)
    BY <1>2
  <1> HIDE DEF k, g
  <1>6. ASSUME Supported(i) PROVE Facts("gas", "none", i, k)
    <2>1. Facts("price", "none", i, h)
      BY <1>1, <1>3, <1>6, SoFar
    <2>2. Decodes(SuggestedGasPrice(o, price))
      BY <1>2, <1>3, <1>6, SupportedDecodes DEF MadeOptions
    <2>3. QED
      BY <1>4, <2>1, <2>2 DEF Facts, Consents, Parsing, Submitting
  <1>7. QED
    BY <1>1, <1>3, <1>5, <1>6, FlowReply

LEMMA MetadataGasFlow ==
  ASSUME IInv, HInv, NEW c \in Client, MetadataGas(c)
  PROVE  HInv'
  <1> DEFINE i == intent[c]
             h == held[c]
             o == h.options
             gas == GasLimit(o)
             g == [h EXCEPT !.metadata = MetadataOfOptions(@, o, gas.limit),
                            !.fee = Int64(Int64(h.metadata.gasPrice) * Int64(gas.limit)),
                            !.estimated = gas.msg]
  <1>1. pc[c] = "gas" /\ UNCHANGED <<intent, nonce>> /\ Reply(c, "payloads", g)
    BY DEF MetadataGas, Quiet, nodeVars
  <1>2. Shape(h) /\ Answers(i) = "C" /\ why[c] = "none"
    BY <1>1, AtNode
  <1>3. /\ g.options = o /\ g.seen = h.seen /\ g.metadata.nonce = h.metadata.nonce
        /\ g.metadata.gasPrice = h.metadata.gasPrice
    BY <1>2 DEF Shape, MetadataOfOptions
  <1> HIDE DEF g
  <1>4. ASSUME Supported(i) PROVE Facts("payloads", "none", i, g)
    <2>1. Facts("gas", "none", i, h)
      BY <1>1, <1>2, <1>4, SoFar
    <2>2. QED
      BY <1>3, <2>1 DEF Facts, Consents, Parsing, Submitting
  <1>5. QED
    BY <1>1, <1>2, <1>4, FlowReply

LEMMA MetadataFaultFlow ==
  ASSUME IInv, HInv, NEW c \in Client, MetadataFault(c)
  PROVE  HInv'
  <1>1. /\ pc[c] \in {"metadata", "price", "gas"} /\ Fail(c, "rpc") /\ UNCHANGED <<intent, nonce>>
        /\ Calls(c, "metadata") \/ pc[c] \in {"price", "gas"}
    BY DEF MetadataFault, NeedsNode, Calls, nodeVars
  <1>2. Answers(intent[c]) = "C"
    BY <1>1, CalledC, AtNode DEF Endpoint
  <1>3. ClientInv(pc[c], why[c], intent[c], held[c])
    BY DEF IInv
  <1>4. held[c].format \notin Signed
    BY <1>1, <1>2, <1>3 DEF ClientInv, Stages, Getting, Signed
  <1>5. Facts("refused", "rpc", intent[c], held[c])
    BY <1>4, GaveUp DEF Consents
  <1>6. QED
    BY <1>1, <1>2, <1>5, FlowFail DEF Reason

LEMMA PayloadsFlow ==
  ASSUME IInv, HInv, NEW c \in Client, Payloads(c)
  PROVE  HInv'
  <1> DEFINE i == intent[c]
             h == held[c]
             md == h.metadata
             M == Matches(i, i.ops)
             g == [h EXCEPT
                    !.tx = Tx(UnsignedMessage(md, M), md.nonce, md.gasPrice, md.gasLimit),
                    !.format = "unsigned", !.cur = M[1].cur, !.signer = From(M)]
  <1>1. /\ pc[c] = "payloads" /\ ClientInv("payloads", why[c], i, h)
        /\ Answers(i) = "C" /\ why[c] = "none" /\ Stages("payloads", why[c], i, h)
    BY CalledC DEF Payloads, Endpoint
  <1>2. Shape(h) /\ i \in IntentType /\ MadeOptions(i, h) /\ MadeMetadata(i, h)
    BY <1>1 DEF ClientInv, Stages, Getting
  <1>3. Matches(md, i.ops) = M /\ M # <<>>
    BY <1>2, MatchesSame DEF MadeMetadata, MadeOptions, Says
  <1>4. UNCHANGED <<intent, nonce>>
    BY DEF Payloads, Quiet, nodeVars
  <1>5. (Fail(c, "invalid") /\ ~Decodes(md.gasPrice)) \/ Reply(c, "parse unsigned", g)
    BY <1>3 DEF Payloads
  <1>6. ASSUME Supported(i) PROVE Facts("payloads", "none", i, h)
    BY <1>1, <1>6, SoFar
  <1>7. CASE Fail(c, "invalid") /\ ~Decodes(md.gasPrice)
    <2>1. ~Supported(i)
      BY <1>6, <1>7 DEF Facts
    <2>2. QED
      BY <1>1, <1>4, <1>7, <2>1, FlowFail
  <1>8. CASE Reply(c, "parse unsigned", g)
    <2>1. UnsignedMessage(md, M) = MessageOf(i) /\ From(M) = MessageOf(i).from
          /\ M[1].cur = i.ops[1].cur
      BY <1>2, <1>3, MessageRight, MessageFrom, IntentFits DEF MadeMetadata
    <2>2. /\ g.options = h.options /\ g.metadata = md /\ g.seen = h.seen
          /\ g.signer = MessageOf(i).from /\ g.cur = i.ops[1].cur
          /\ g.tx = Tx(MessageOf(i), md.nonce, md.gasPrice, md.gasLimit)
      BY <1>2, <2>1 DEF Shape
    <2> HIDE DEF g
    <2>3. g.tx.from = g.signer
      BY <2>2 DEF Tx
    <2>4. ASSUME Supported(i) PROVE Facts("parse unsigned", "none", i, g)
      BY <1>6, <2>2, <2>3, <2>4 DEF Facts, Consents, Parsing, Submitting
    <2>5. QED
      BY <1>1, <1>4, <1>8, <2>4, FlowReply
  <1>9. QED
    BY <1>5, <1>7, <1>8

(* The transaction has the contents that were intended, whoever signs.     *)
LEMMA HeldContents ==
  ASSUME IInv, NEW c \in Client, NEW e \in Endpoint, Calls(c, e), e \in Parsing \cup Submitting
  PROVE  /\ Contents(held[c].tx, MessageOf(intent[c]))
         /\ held[c].signer = MessageOf(intent[c]).from
         /\ held[c].options.from = held[c].signer
         /\ intent[c] \in IntentType
  <1> DEFINE i == intent[c]
             h == held[c]
  <1>1. i \in IntentType /\ MadeOptions(i, h) /\ MadeTx(i, h)
    BY AfterPayloads
  <1>2. h.options.from = From(Matches(i, i.ops))
    <2>1. OptionsSay(h.options, i, Matches(i, i.ops))
      BY <1>1, OptionsFacts DEF MadeOptions
    <2>2. QED
      BY <2>1 DEF OptionsSay
  <1>3. MessageOf(i).from = From(Matches(i, i.ops))
    BY <1>1, MessageFrom DEF MadeOptions
  <1>4. QED
    BY <1>1, <1>2, <1>3 DEF MadeTx, Contents

LEMMA ParseUnsignedFlow ==
  ASSUME IInv, HInv, NEW c \in Client, ParseUnsigned(c)
  PROVE  HInv'
  <1> DEFINE i == intent[c]
             h == held[c]
             ops == ParsedOps(h.tx, h.cur)
  <1>1. Calls(c, "parse unsigned") /\ UNCHANGED <<intent, nonce>>
    BY DEF ParseUnsigned, Quiet, nodeVars
  <1>2. \/ Fail(c, "invalid") /\ ops = <<>>
        \/ Fail(c, "not as intended") /\ ~AsIntended(ops, i)
        \/ Reply(c, "sign", h)
    BY DEF ParseUnsigned
  <1>3. "parse unsigned" \in Endpoint /\ "parse unsigned" \in Parsing
    BY DEF Endpoint, Parsing
  <1>4. pc[c] = "parse unsigned" /\ Answers(i) = "C" /\ why[c] = "none"
    BY <1>1, <1>3, AfterPayloads
  <1>5. ASSUME Supported(i)
        PROVE  Facts("parse unsigned", "none", i, h) /\ ops # <<>> /\ AsIntended(ops, i)
    <2>1. Facts("parse unsigned", "none", i, h)
      BY <1>4, <1>5, SoFar
    <2>2. h.cur = i.ops[1].cur /\ h.tx.from = h.signer
      BY <1>3, <2>1 DEF Facts
    <2>3. Parses(h.tx, i) /\ h.tx.from = MessageOf(i).from
      BY <1>1, <1>3, <1>5, <2>2, HeldContents, SupportedParses
    <2>4. QED
      BY <2>1, <2>2, <2>3 DEF Parses
  <1> HIDE DEF ops
  <1>6. CASE Fail(c, "invalid") /\ ops = <<>>
    BY <1>1, <1>4, <1>5, <1>6, FlowFail
  <1>7. CASE Fail(c, "not as intended") /\ ~AsIntended(ops, i)
    BY <1>1, <1>4, <1>5, <1>7, FlowFail
  <1>8. CASE Reply(c, "sign", h)
    <2>1. Facts("parse unsigned", "none", i, h) => Facts("sign", "none", i, h)
      BY DEF Facts, Consents, Parsing, Submitting
    <2>2. QED
      BY <1>1, <1>4, <1>5, <1>8, <2>1, FlowReply
  <1>9. QED
    BY <1>2, <1>6, <1>7, <1>8

LEMMA SignPayloadFlow ==
  ASSUME IInv, HInv, NEW c \in Client, SignPayload(c)
  PROVE  HInv'
  <1> DEFINE i == intent[c]
             h == held[c]
             g(key) == [h EXCEPT !.key = key]
  <1>1. pc[c] = "sign" /\ ClientInv("sign", why[c], i, h)
    BY DEF SignPayload, IInv
  <1>2. PICK key \in Account : held' = [held EXCEPT ![c].key = key]
    BY DEF SignPayload, Account
  <1>3. Becomes(c, "combine", why[c], i, g(key))
    BY <1>2 DEF SignPayload, Goto, Quiet, Becomes, IInv
  <1> DEFINE k == g(key)
  <1>4. Shape(h) /\ why[c] = "none"
    BY <1>1 DEF ClientInv
  <1>5. /\ k.options = h.options /\ k.metadata = h.metadata /\ k.seen = h.seen /\ k.tx = h.tx
        /\ k.signer = h.signer /\ k.cur = h.cur /\ k.key = key
    BY <1>4 DEF Shape
  <1>6. Becomes(c, "combine", why[c], i, k)
    BY <1>3
  <1> HIDE DEF g, k
  <1>7. Handles(c, {}) /\ nonce' = nonce
    BY DEF SignPayload, Handles, HInv, Quiet, nodeVars
  <1>8. ASSUME Supported(i), Answers(i) = "C" PROVE Facts("combine", "none", i, k)
    <2>1. Facts("sign", "none", i, h)
      BY <1>1, <1>4, <1>8, SoFar
    <2>2. QED
      BY <1>2, <1>5, <2>1 DEF Facts, Consents, Parsing, Submitting
  <1>9. Flow("combine", why[c], i, k, nonce)
    BY <1>4, <1>8 DEF Flow
  <1>10. QED
    BY <1>6, <1>7, <1>9, HInvKept

LEMMA CombineFlow ==
  ASSUME IInv, HInv, NEW c \in Client, Combine(c)
  PROVE  HInv'
  <1> DEFINE i == intent[c]
             h == held[c]
             g == [h EXCEPT !.tx.from = h.key,
                            !.format = IF "signed" \in i.legacy THEN "signed tx" ELSE "wrapper"]
  <1>1. Calls(c, "combine") /\ UNCHANGED <<intent, nonce>> /\ Reply(c, "parse signed", g)
    BY DEF Combine, Quiet, nodeVars
  <1>2. "combine" \in Endpoint /\ "combine" \in Parsing
    BY DEF Endpoint, Parsing
  <1>3. pc[c] = "combine" /\ Answers(i) = "C" /\ why[c] = "none" /\ Shape(h)
    BY <1>1, <1>2, AfterPayloads
  <1>4. /\ g.options = h.options /\ g.metadata = h.metadata /\ g.seen = h.seen
        /\ g.cur = h.cur /\ g.key = h.key /\ g.tx.from = h.key
        /\ g.format = "signed tx" => "signed" \in i.legacy
    BY <1>3 DEF Shape
  <1> HIDE DEF g
  <1>5. ASSUME Supported(i) PROVE Facts("parse signed", "none", i, g)
    <2>1. Facts("combine", "none", i, h)
      BY <1>3, <1>5, SoFar
    <2>2. QED
      BY <1>4, <2>1 DEF Facts, Consents, Parsing, Submitting
  <1>6. QED
    BY <1>1, <1>3, <1>5, FlowReply

LEMMA ParseSignedFlow ==
  ASSUME IInv, HInv, NEW c \in Client, ParseSigned(c)
  PROVE  HInv'
  <1> DEFINE i == intent[c]
             h == held[c]
             ops == ParsedOps(h.tx, WrappedCurrency(h))
  <1>1. Calls(c, "parse signed") /\ UNCHANGED <<intent, nonce>>
    BY DEF ParseSigned, Quiet, nodeVars
  <1>2. \/ Fail(c, "invalid") /\ ops = <<>>
        \/ Fail(c, "not as intended") /\ (h.tx.from # h.signer \/ ~AsIntended(ops, i))
        \/ Reply(c, "hash", h)
    BY DEF ParseSigned
  <1>3. "parse signed" \in Endpoint /\ "parse signed" \in Parsing
    BY DEF Endpoint, Parsing
  <1>4. pc[c] = "parse signed" /\ Answers(i) = "C" /\ why[c] = "none"
    BY <1>1, <1>3, AfterPayloads
  <1>5. ASSUME Supported(i)
        PROVE  /\ Facts("parse signed", "none", i, h) /\ ops # <<>>
               /\ h.tx.from = h.key /\ h.key \in Account
               /\ h.tx.from = h.signer => AsIntended(ops, i)
    <2>1. Facts("parse signed", "none", i, h)
      BY <1>4, <1>5, SoFar
    <2>2. /\ h.cur = i.ops[1].cur /\ h.tx.from = h.key /\ h.key \in Account
          /\ h.format = "signed tx" => "signed" \in i.legacy
      BY <1>3, <2>1 DEF Facts
    <2>3. WrappedCurrency(h) = i.ops[1].cur
      BY <1>5, <2>2 DEF WrappedCurrency, Supported
    <2>4. Parses(h.tx, i) /\ h.signer = MessageOf(i).from
      BY <1>1, <1>3, <1>5, HeldContents, SupportedParses
    <2>5. QED
      BY <2>1, <2>2, <2>3, <2>4 DEF Parses
  <1> HIDE DEF ops
  <1>6. CASE Fail(c, "invalid") /\ ops = <<>>
    BY <1>1, <1>4, <1>5, <1>6, FlowFail
  <1>7. CASE Fail(c, "not as intended") /\ (h.tx.from # h.signer \/ ~AsIntended(ops, i))
    <2>1. Supported(i) => Reason("not as intended", i, h, nonce)
      BY <1>5, <1>7, AddressFacts DEF Reason, Account
    <2>2. Facts("refused", "not as intended", i, h)
      BY GaveUp DEF Consents, Submitting
    <2>3. QED
      BY <1>1, <1>4, <1>7, <2>1, <2>2, FlowFail
  <1>8. CASE Reply(c, "hash", h)
    <2>1. ASSUME Supported(i) PROVE Facts("hash", "none", i, h)
      BY <1>3, <1>5, <2>1 DEF Facts, Consents, Parsing, Submitting
    <2>2. QED
      BY <1>1, <1>4, <1>8, <2>1, FlowReply
  <1>9. QED
    BY <1>2, <1>6, <1>7, <1>8

LEMMA HashFlow ==
  ASSUME IInv, HInv, NEW c \in Client, Hash(c)
  PROVE  HInv'
  <1>1. Calls(c, "hash") /\ UNCHANGED <<intent, nonce>> /\ Reply(c, "submit", held[c])
    BY DEF Hash, Quiet, nodeVars
  <1>2. pc[c] = "hash" /\ Answers(intent[c]) = "C" /\ why[c] = "none"
    BY <1>1, CalledC DEF Endpoint
  <1>3. ASSUME Supported(intent[c]) PROVE Facts("submit", "none", intent[c], held[c])
    <2>1. Facts("hash", "none", intent[c], held[c])
      BY <1>2, <1>3, SoFar
    <2>2. QED
      BY <2>1 DEF Facts, Consents, Parsing, Submitting
  <1>4. QED
    BY <1>1, <1>2, <1>3, FlowReply

LEMMA SubmitFlow ==
  ASSUME IInv, HInv, NEW c \in Client, Submit(c)
  PROVE  HInv'
  <1> DEFINE i == intent[c]
             h == held[c]
             reason == SendError(h.tx)
  <1>1. Calls(c, "submit") /\ UNCHANGED <<intent, nonce>>
    BY DEF Submit, SendTransaction, nodeVars
  <1>2. (Fail(c, reason) /\ reason # "none") \/ Reply(c, "done", h)
    BY DEF Submit
  <1>3. "submit" \in Endpoint /\ "submit" \in Submitting
    BY DEF Endpoint, Submitting
  <1>4. /\ pc[c] = "submit" /\ Answers(i) = "C" /\ why[c] = "none"
        /\ KeptNonce(i, h) /\ MadeTx(i, h) /\ Checked(i, h)
    BY <1>1, <1>3, AfterPayloads
  <1>5. ASSUME Supported(i) PROVE Facts("submit", "none", i, h)
    BY <1>4, <1>5, SoFar
  <1>6. CASE Fail(c, reason) /\ reason # "none"
    <2>1. /\ reason \in {"already known", "nonce too low", "underpriced"}
          /\ reason = "nonce too low" => h.tx.nonce < nonce[h.tx.from]
      BY <1>6 DEF SendError
    <2> HIDE DEF reason
    <2>2. ASSUME Supported(i) PROVE Facts("refused", reason, i, h)
      BY <1>5, <2>2 DEF Facts, Parsing, Submitting
    <2>3. ASSUME Supported(i) PROVE Reason(reason, i, h, nonce)
      <3>1. h.tx.from = h.signer /\ h.options.from = h.signer
        BY <1>1, <1>3, <1>4, HeldContents DEF Checked
      <3>2. /\ h.tx.from \in Account
            /\ i.nonce = <<>> => h.metadata.nonce = h.seen
            /\ h.options.from \in Account => h.seen \in Nat
        BY <1>3, <1>5, <2>3 DEF Facts
      <3>3. h.seen \in Nat /\ h.signer \in Account /\ nonce[h.signer] \in Nat
        BY <3>1, <3>2 DEF HInv, Account
      <3>4. i.nonce = <<>> => h.tx.nonce = h.seen
        BY <1>4, <3>2 DEF MadeTx
      <3>5. QED
        BY <2>1, <3>1, <3>3, <3>4 DEF Reason
    <2>4. QED
      BY <1>1, <1>4, <1>6, <2>2, <2>3, FlowFail
  <1>7. CASE Reply(c, "done", h)
    <2>1. ASSUME Supported(i) PROVE Facts("done", "none", i, h)
      BY <1>5, <2>1 DEF Facts, Consents, Parsing, Submitting
    <2>2. QED
      BY <1>1, <1>4, <1>7, <2>1, FlowReply
  <1>8. QED
    BY <1>2, <1>6, <1>7

LEMMA SubmitFaultFlow ==
  ASSUME IInv, HInv, NEW c \in Client, SubmitFault(c)
  PROVE  HInv'
  <1>1. Calls(c, "submit") /\ UNCHANGED <<intent, nonce>> /\ Fail(c, "rpc")
    BY DEF SubmitFault, SendTransaction, nodeVars
  <1>2. pc[c] = "submit" /\ Answers(intent[c]) = "C" /\ why[c] = "none"
    BY <1>1, CalledC DEF Endpoint
  <1>3. ASSUME Supported(intent[c]) PROVE Facts("refused", "rpc", intent[c], held[c])
    <2>1. Facts("submit", "none", intent[c], held[c])
      BY <1>2, <1>3, SoFar
    <2>2. QED
      BY <2>1 DEF Facts, Parsing, Submitting
  <1>4. QED
    BY <1>1, <1>2, <1>3, FlowFail DEF Reason

LEMMA ResubmitFlow ==
  ASSUME IInv, HInv, NEW c \in Client, Resubmit(c)
  PROVE  HInv'
  <1> DEFINE i == intent[c]
             h == held[c]
  <1>1. pc[c] = "refused" /\ why[c] = "rpc" /\ Consents("refused", "rpc", h)
    BY DEF Resubmit, Consents, Signed
  <1>2. Becomes(c, "submit", "none", i, h)
    BY DEF Resubmit, Becomes, Goto, Quiet, IInv
  <1>3. Handles(c, {}) /\ nonce' = nonce
    BY DEF Resubmit, Handles, HInv, Quiet, nodeVars
  <1>4. ASSUME Supported(i), Answers(i) = "C" PROVE Facts("submit", "none", i, h)
    <2>1. Facts("refused", "rpc", i, h)
      BY <1>1, <1>4, SoFar
    <2>2. QED
      BY <1>1, <2>1 DEF Facts, Parsing, Submitting
  <1>5. Flow("submit", "none", i, h, nonce)
    BY <1>4 DEF Flow
  <1>6. QED
    BY <1>2, <1>3, <1>5, HInvKept

(* Nonces only grow.                                                       *)
LEMMA AcceptFlow ==
  ASSUME HInv, NEW acct, AcceptNonce(acct), UNCHANGED clientVars
  PROVE  HInv'
  <1>0. nonce' = [nonce EXCEPT ![acct] = nonce[acct] + 1] /\ nonce \in [Address -> Nat]
    BY DEF HInv, AcceptNonce
  <1>1. nonce' \in [Address -> Nat] /\ \A a \in Address : nonce'[a] >= nonce[a]
    <2>1. ASSUME NEW a \in Address
          PROVE  nonce'[a] \in Nat /\ nonce'[a] >= nonce[a]
      <3>1. CASE a = acct
        BY <1>0, <3>1
      <3>2. CASE a # acct
        BY <1>0, <3>2
      <3>3. QED
        BY <3>1, <3>2
    <2>2. nonce' = [a \in Address |-> nonce'[a]]
      BY <1>0
    <2>3. QED
      BY <2>1, <2>2
  <1>2. ASSUME NEW c \in Client
        PROVE  Flow(pc[c], why[c], intent[c], held[c], nonce')
    <2>1. Flow(pc[c], why[c], intent[c], held[c], nonce)
      BY DEF HInv
    <2>2. ASSUME Reason(why[c], intent[c], held[c], nonce)
          PROVE  Reason(why[c], intent[c], held[c], nonce')
      <3>1. ASSUME held[c].signer \in Account, held[c].seen \in Nat,
                   nonce[held[c].signer] > held[c].seen
            PROVE  nonce'[held[c].signer] > held[c].seen
        <4>1. nonce[held[c].signer] \in Nat /\ nonce'[held[c].signer] \in Nat
              /\ nonce'[held[c].signer] >= nonce[held[c].signer]
          BY <1>1, <3>1 DEF HInv, Account
        <4>2. QED
          BY <3>1, <4>1
      <3>2. QED
        BY <2>2, <3>1 DEF Reason
    <2>3. QED
      BY <2>1, <2>2 DEF Flow
  <1>3. QED
    BY <1>1, <1>2 DEF HInv, clientVars

LEMMA StillFlow ==
  ASSUME HInv, UNCHANGED <<clientVars, nonce>>
  PROVE  HInv'
  BY DEF HInv, clientVars

LEMMA NextFlow ==
  ASSUME IInv, HInv, [Next]_vars
  PROVE  HInv'
  <1>1. ASSUME NEW c \in Client, ClientStep(c) PROVE HInv'
    <2>1. CASE Begin(c)
      BY <2>1, BeginFlow
    <2>2. CASE Delegate(c)
      BY <2>2, DelegateFlow
    <2>3. CASE UnavailableOffline(c)
      BY <2>3, UnavailableFlow
    <2>4. CASE Preprocess(c)
      BY <2>4, PreprocessFlow
    <2>5. CASE Metadata(c)
      BY <2>5, MetadataFlow
    <2>6. CASE MetadataPrice(c)
      BY <2>6, MetadataPriceFlow
    <2>7. CASE MetadataGas(c)
      BY <2>7, MetadataGasFlow
    <2>8. CASE MetadataFault(c)
      BY <2>8, MetadataFaultFlow
    <2>9. CASE Payloads(c)
      BY <2>9, PayloadsFlow
    <2>10. CASE ParseUnsigned(c)
      BY <2>10, ParseUnsignedFlow
    <2>11. CASE SignPayload(c)
      BY <2>11, SignPayloadFlow
    <2>12. CASE Combine(c)
      BY <2>12, CombineFlow
    <2>13. CASE ParseSigned(c)
      BY <2>13, ParseSignedFlow
    <2>14. CASE Hash(c)
      BY <2>14, HashFlow
    <2>15. CASE Submit(c)
      BY <2>15, SubmitFlow
    <2>16. CASE SubmitFault(c)
      BY <2>16, SubmitFaultFlow
    <2>17. CASE Resubmit(c)
      BY <2>17, ResubmitFlow
    <2>18. QED
      BY <1>1, <2>1, <2>2, <2>3, <2>4, <2>5, <2>6, <2>7, <2>8, <2>9, <2>10, <2>11, <2>12, <2>13,
         <2>14, <2>15, <2>16, <2>17 DEF ClientStep
  <1>2. CASE AcceptBlock
    <2>1. PICK tx \in pool : AcceptNonce(tx.from)
      BY <1>2 DEF AcceptBlock
    <2>2. UNCHANGED clientVars
      BY <1>2 DEF AcceptBlock
    <2>3. QED
      BY <2>1, <2>2, AcceptFlow
  <1>3. ASSUME NEW acct \in Address \ Contract, OtherWallet(acct) PROVE HInv'
    <2>1. AcceptNonce(acct) /\ UNCHANGED clientVars
      BY <1>3 DEF OtherWallet
    <2>2. QED
      BY <2>1, AcceptFlow
  <1>4. CASE UNCHANGED vars
    BY <1>4, StillFlow DEF vars, nodeVars
  <1>5. QED
    BY <1>1, <1>2, <1>3, <1>4 DEF Next

-----------------------------------------------------------------------------
(* Theorems *)

LEMMA FlowInvariantHolds == Spec => [](IInv /\ HInv)
  <1>1. Init => IInv /\ HInv
    BY InitInv, InitFlow
  <1>2. IInv /\ HInv /\ [Next]_vars => (IInv /\ HInv)'
    BY NextInv, NextFlow
  <1>3. QED
    BY <1>1, <1>2, PTL DEF Spec

LEMMA FlowGetsThrough == IInv /\ HInv => HonestFlowsGetThrough
  <1> SUFFICES ASSUME IInv, HInv, NEW c \in Client
      PROVE  LET i == intent[c]
                 h == held[c]
             IN  /\ why[c] # "none" /\ Supported(i) =>
                        \/ why[c] \in {"offline", "rpc", "already known", "underpriced"}
                        \/ why[c] = "nonce too low"
                           /\ (i.nonce = <<>> => nonce[h.signer] > h.seen)
                        \/ why[c] = "not as intended" /\ h.key \notin {"", h.signer}
                 /\ handled[c] \subseteq {Answers(i)}
    BY DEF HonestFlowsGetThrough
  <1>1. handled[c] \subseteq {Answers(intent[c])}
    BY DEF HInv
  <1>2. ASSUME why[c] # "none", Supported(intent[c])
        PROVE  Reason(why[c], intent[c], held[c], nonce)
    <2>1. pc[c] # "idle"
      BY <1>2 DEF IInv, ClientInv
    <2>2. Flow(pc[c], why[c], intent[c], held[c], nonce)
      BY DEF HInv
    <2>3. QED
      BY <1>2, <2>1, <2>2 DEF Flow
  <1>3. QED
    BY <1>1, <1>2 DEF Reason

(* No endpoint of service_construction.go turns down what another endpoint *)
(* made for the same supported intent, and all the calls of one flow are   *)
(* routed to the same backend: whatever the clients, their intents, the    *)
(* order of their calls and the transactions of other wallets, a supported *)
(* intent fails only for a fault of the node, for a nonce that has been    *)
(* used since it was suggested, or for a signature with another key.       *)
THEOREM SupportedGetThrough == Spec => []HonestFlowsGetThrough
  <1>1. QED
    BY FlowInvariantHolds, FlowGetsThrough, PTL

-----------------------------------------------------------------------------
(* Types.  What a client holds fits the types the server has for it, and   *)
(* only transactions of accounts are sent.                                 *)

Int64s == -(MaxInt64 + 1) .. MaxInt64

Fitting(p, w, i, h) ==
    /\ h.metadata.nonce \in Uint64s /\ h.metadata.gasLimit \in Uint64s
    /\ h.metadata.gasPrice \in Int /\ h.fee \in Int64s
    /\ w # "none" <=> p = "refused"
    /\ p = "combine" => h.key \in Address
    /\ Answers(i) = "C" /\ (p \in {"parse signed"} \cup Submitting \/ h.format \in Signed)
       => h.tx.from \in Address

ClientTypes ==
    \A c \in Client : /\ intent[c] \in Intents[c] \cup {NoIntent}
                      /\ Fitting(pc[c], why[c], intent[c], held[c])

PoolTypes ==
    /\ nonce \in [Address -> Uint64s]
    /\ \A t \in pool : t.from \in Address /\ t.nonce \in Uint64s /\ t.nonce >= nonce[t.from]
    /\ \A t1, t2 \in pool : t1.from = t2.from /\ t1.nonce = t2.nonce => t1 = t2

Bounded == offline \in BOOLEAN /\ others \in 0 .. MaxOthers /\ faults \in 0 .. MaxFaults

TypeInv == ClientTypes /\ PoolTypes /\ Bounded

LEMMA Int64Fits ==
  ASSUME NEW n \in Int
  PROVE  Int64(n) \in Int64s /\ Int64(n) \in Int
  BY WidthFacts DEF Int64, Int64s

LEMMA SmallFits ==
  /\ 0 \in Uint64s /\ 1 \in Uint64s /\ 0 \in Int64s /\ Uint64s \subseteq Nat
  /\ \A n \in Uint64s : n \in Int
  BY WidthFacts DEF Uint64s, Int64s

LEMMA SenderFits ==
  ASSUME NEW i \in IntentType, NEW M, M = Matches(i, i.ops), M # <<>>
  PROVE  From(M) \in Address
  <1>1. CASE Kind(i) = "unwrap"
    BY <1>1, IntentFits DEF Fits, UnwrapFits, From
  <1>2. CASE Kind(i) = "call"
    BY <1>2, IntentFits DEF Fits, CallFits, From
  <1>3. CASE Kind(i) = "transfer"
    BY <1>3, IntentFits DEF Fits, TransferFits, From
  <1>4. QED
    BY <1>1, <1>2, <1>3, IntentFits

LEMMA FitsKept ==
  ASSUME ClientTypes, NEW c \in Client, NEW p, NEW w, NEW i, NEW h, Becomes(c, p, w, i, h),
         i = intent[c] \/ i \in Intents[c], Fitting(p, w, i, h)
  PROVE  ClientTypes'
  <1>1. ASSUME NEW d \in Client
        PROVE  /\ intent'[d] \in Intents[d] \cup {NoIntent}
               /\ Fitting(pc'[d], why'[d], intent'[d], held'[d])
    <2>1. CASE d = c
      <3>1. pc'[d] = p /\ why'[d] = w /\ intent'[d] = i /\ held'[d] = h
        BY <2>1 DEF Becomes
      <3>2. i \in Intents[c] \cup {NoIntent}
        BY DEF ClientTypes
      <3>3. QED
        BY <2>1, <3>1, <3>2
    <2>2. CASE d # c
      <3>1. /\ pc'[d] = pc[d] /\ why'[d] = why[d] /\ intent'[d] = intent[d] /\ held'[d] = held[d]
        BY <2>2 DEF Becomes
      <3>2. QED
        BY <3>1 DEF ClientTypes
    <2>3. QED
      BY <2>1, <2>2
  <1>2. QED
    BY <1>1 DEF ClientTypes

(* Steps that leave the client with what it has                            *)
LEMMA FitsSame ==
  ASSUME ClientTypes, NEW c \in Client, NEW p, NEW w, Becomes(c, p, w, intent[c], held[c]),
         w # "none" <=> p = "refused", p # "combine",
         p \in {"parse signed"} \cup Submitting /\ Answers(intent[c]) = "C"
         => held[c].tx.from \in Address
  PROVE  ClientTypes'
  <1>1. Fitting(pc[c], why[c], intent[c], held[c])
    BY DEF ClientTypes
  <1>2. Fitting(p, w, intent[c], held[c])
    BY <1>1 DEF Fitting
  <1>3. QED
    BY <1>2, FitsKept

LEMMA FitsFailed ==
  ASSUME IInv, ClientTypes, NEW c \in Client, NEW reason, reason # "none", Fail(c, reason),
         UNCHANGED intent
  PROVE  ClientTypes'
  <1>1. Becomes(c, "refused", reason, intent[c], held[c])
    BY Failed
  <1>2. "refused" \notin {"parse signed"} \cup Submitting
    BY DEF Submitting
  <1>3. QED
    BY <1>1, <1>2, FitsSame

LEMMA BeginFits ==
  ASSUME IInv, ClientTypes, NEW c \in Client, Begin(c)
  PROVE  ClientTypes'
  <1>1. PICK i \in Intents[c] : intent' = [intent EXCEPT ![c] = i]
    BY DEF Begin
  <1>2. Becomes(c, "preprocess", why[c], i, held[c])
    BY <1>1 DEF Becomes, Begin, Goto, IInv
  <1>3. ClientInv("idle", why[c], intent[c], held[c])
    BY DEF Begin, IInv
  <1>4. held[c] = NoHeld /\ why[c] = "none" /\ held[c].format \notin Signed
    BY <1>3, NoHeldFacts DEF ClientInv, Signed
  <1>5. Fitting(pc[c], why[c], intent[c], held[c])
    BY DEF ClientTypes
  <1>6. Fitting("preprocess", why[c], i, held[c])
    BY <1>4, <1>5 DEF Fitting, Submitting
  <1>7. QED
    BY <1>2, <1>6, FitsKept

LEMMA DelegateFits ==
  ASSUME IInv, ClientTypes, NEW c \in Client, Delegate(c)
  PROVE  ClientTypes'
  <1> DEFINE p == pc[c]
             i == intent[c]
             h == held[c]
             backend == Backend(p, i, h)
             g == [h EXCEPT !.options.atomicTxGas = @ \/ (p = "preprocess" /\ backend = "atomic"),
                            !.format = IF p = "payloads"
                                       THEN IF backend = "P" THEN "P-chain tx" ELSE "rosettaTx"
                                       ELSE @]
  <1>1. p \in Endpoint /\ backend # "C" /\ ClientInv(p, why[c], i, h)
    BY DEF Delegate, IInv
  <1>2. backend = Answers(i)
    BY <1>1, BackendRight
  <1>3. Becomes(c, Following(p), why[c], i, g)
    BY DEF Delegate, Becomes, Goto, Quiet, IInv
  <1>4. Shape(h) /\ why[c] = "none"
    BY <1>1 DEF ClientInv, Endpoint
  <1>5. g.metadata = h.metadata /\ g.fee = h.fee
    BY <1>4 DEF Shape
  <1> HIDE DEF g
  <1>6. Following(p) \notin {"refused", "combine"}
    BY <1>1 DEF Endpoint, Following
  <1>7. Fitting(p, why[c], i, h)
    BY DEF ClientTypes
  <1>8. Fitting(Following(p), why[c], i, g)
    BY <1>1, <1>2, <1>4, <1>5, <1>6, <1>7 DEF Fitting
  <1>9. QED
    BY <1>3, <1>8, FitsKept

LEMMA UnavailableFits ==
  ASSUME IInv, ClientTypes, NEW c \in Client, UnavailableOffline(c)
  PROVE  ClientTypes'
  <1>1. Becomes(c, "refused", "offline", intent[c], held[c])
    BY DEF UnavailableOffline, Becomes, Goto, Quiet, IInv
  <1>2. "refused" \notin {"parse signed"} \cup Submitting /\ "offline" # "none"
    BY DEF Submitting
  <1>3. ASSUME NEW reason, reason = "offline" PROVE ClientTypes'
    BY <1>1, <1>2, <1>3, FitsSame
  <1>4. QED
    BY <1>3

LEMMA PreprocessFits ==
  ASSUME IInv, ClientTypes, NEW c \in Client, Preprocess(c)
  PROVE  ClientTypes'
  <1> DEFINE i == intent[c]
             h == held[c]
             g == [h EXCEPT !.options = LegacyOptions(i, PreprocessOptions(i, Matches(i, i.ops)))]
  <1>1. /\ ClientInv("preprocess", why[c], i, h) /\ why[c] = "none"
        /\ Stages("preprocess", why[c], i, h)
    BY CalledC DEF Preprocess, Endpoint
  <1>2. UNCHANGED intent /\ (Fail(c, "invalid") \/ Reply(c, "metadata", g))
    BY DEF Preprocess, Quiet
  <1>3. CASE Fail(c, "invalid")
    BY <1>2, <1>3, FitsFailed
  <1>4. CASE Reply(c, "metadata", g)
    <2>1. Becomes(c, "metadata", "none", i, g)
      BY <1>1, <1>2, <1>4, Replied
    <2>2. Shape(h) /\ h.format \notin Signed
      BY <1>1 DEF ClientInv, Stages, Getting, Signed
    <2>3. g.metadata = h.metadata /\ g.fee = h.fee /\ g.format = h.format
      BY <2>2 DEF Shape
    <2> HIDE DEF g
    <2>4. Fitting(pc[c], why[c], i, h)
      BY DEF ClientTypes
    <2>5. Fitting("metadata", "none", i, g)
      BY <2>2, <2>3, <2>4 DEF Fitting, Submitting
    <2>6. QED
      BY <2>1, <2>5, FitsKept
  <1>5. QED
    BY <1>2, <1>3, <1>4

LEMMA MetadataFits ==
  ASSUME IInv, ClientTypes, PoolTypes, NEW c \in Client, Metadata(c)
  PROVE  ClientTypes'
  <1> DEFINE i == intent[c]
             h == held[c]
             o == h.options
             g == [h EXCEPT
                    !.metadata.nonce = IF o.nonce = <<>> THEN NonceAt(o.from) ELSE Uint64(o.nonce[1]),
                    !.seen = nonce[o.from]]
  <1>1. /\ ClientInv("metadata", why[c], i, h) /\ why[c] = "none" /\ Answers(i) = "C"
        /\ Stages("metadata", why[c], i, h)
    BY CalledC DEF Metadata, Endpoint
  <1>2. UNCHANGED intent /\ (Fail(c, "invalid") \/ Reply(c, "price", g))
    BY DEF Metadata, Quiet
  <1>3. CASE Fail(c, "invalid")
    BY <1>2, <1>3, FitsFailed
  <1>4. CASE Reply(c, "price", g)
    <2>1. Becomes(c, "price", "none", i, g)
      BY <1>1, <1>2, <1>4, Replied
    <2>2. Shape(h) /\ i \in IntentType /\ MadeOptions(i, h) /\ h.format \notin Signed
      BY <1>1 DEF ClientInv, Stages, Getting, Signed
    <2>3. o.from \in Address /\ o.nonce = i.nonce
      <3>1. OptionsSay(o, i, Matches(i, i.ops))
        BY <2>2, OptionsFacts DEF MadeOptions
      <3>2. From(Matches(i, i.ops)) \in Address
        BY <2>2, SenderFits DEF MadeOptions
      <3>3. QED
        BY <3>1, <3>2 DEF OptionsSay
    <2>4. o.nonce # <<>> => Uint64(o.nonce[1]) \in Uint64s
      <3>1. o.nonce \in Seq(Int)
        BY <2>2, <2>3 DEF IntentType
      <3>2. o.nonce # <<>> => o.nonce[1] \in Int
        BY <3>1
      <3>3. QED
        BY <3>2, Uint64Fits
    <2>5. NonceAt(o.from) \in Uint64s
      BY <2>3 DEF NonceAt, PoolTypes
    <2>6. /\ g.metadata.nonce \in Uint64s /\ g.metadata.gasLimit = h.metadata.gasLimit
          /\ g.metadata.gasPrice = h.metadata.gasPrice /\ g.fee = h.fee /\ g.format = h.format
      BY <2>2, <2>4, <2>5 DEF Shape
    <2> HIDE DEF g
    <2>7. Fitting(pc[c], why[c], i, h)
      BY DEF ClientTypes
    <2>8. Fitting("price", "none", i, g)
      BY <2>2, <2>6, <2>7 DEF Fitting, Submitting
    <2>9. QED
      BY <2>1, <2>8, FitsKept
  <1>5. QED
    BY <1>2, <1>3, <1>4

LEMMA PriceFits ==
  ASSUME NEW i \in IntentType, NEW o, o.gasPrice = i.gasPrice, o.multiplier = i.multiplier,
         NEW price \in Nat
  PROVE  SuggestedGasPrice(o, price) \in Int
  <1>1. i.gasPrice \in Seq(Int) /\ i.multiplier \in Seq(Nat \X (Nat \ {0}))
    BY DEF IntentType
  <1>2. CASE o.gasPrice # <<>>
    BY <1>1, <1>2 DEF SuggestedGasPrice
  <1>3. CASE o.gasPrice = <<>> /\ o.multiplier # <<>>
    <2>1. o.multiplier[1] \in Nat \X (Nat \ {0})
      BY <1>1, <1>3
    <2>2. o.multiplier[1][1] \in Nat /\ o.multiplier[1][2] \in Nat \ {0}
      BY <2>1
    <2>3. \A a \in Nat, b \in Nat \ {0} : (a * price) \div b \in Int
      <3>1. ASSUME NEW a \in Nat, NEW b \in Nat \ {0} PROVE (a * price) \div b \in Int
        <4>1. a * price \in Int
          OBVIOUS
        <4>2. QED
          BY <4>1
      <3>2. QED
        BY <3>1
    <2>4. QED
      BY <1>3, <2>2, <2>3 DEF SuggestedGasPrice
  <1>4. CASE o.gasPrice = <<>> /\ o.multiplier = <<>>
    BY <1>4 DEF SuggestedGasPrice
  <1>5. QED
    BY <1>2, <1>3, <1>4

LEMMA MetadataPriceFits ==
  ASSUME IInv, ClientTypes, NEW c \in Client, MetadataPrice(c)
  PROVE  ClientTypes'
  <1> DEFINE i == intent[c]
             h == held[c]
             o == h.options
             g(price) == [h EXCEPT !.metadata.gasPrice = SuggestedGasPrice(o, price)]
  <1>1. pc[c] = "price" /\ UNCHANGED intent
    BY DEF MetadataPrice, Quiet
  <1>2. PICK price \in Nat : Reply(c, "gas", g(price))
    BY ConstantsAssumption DEF MetadataPrice
  <1>3. Shape(h) /\ why[c] = "none" /\ i \in IntentType /\ MadeOptions(i, h) /\ h.format \notin Signed
    BY <1>1, AtNode DEF Stages, Getting, Signed
  <1>4. Becomes(c, "gas", "none", i, g(price))
    BY <1>1, <1>2, <1>3, Replied
  <1>5. SuggestedGasPrice(o, price) \in Int
    <2>1. OptionsSay(o, i, Matches(i, i.ops))
      BY <1>3, OptionsFacts DEF MadeOptions
    <2>2. QED
      BY <1>3, <2>1, PriceFits DEF OptionsSay
  <1> DEFINE k == g(price)
  <1>6. /\ k.metadata.nonce = h.metadata.nonce /\ k.metadata.gasLimit = h.metadata.gasLimit
        /\ k.metadata.gasPrice \in Int /\ k.fee = h.fee /\ k.format = h.format
    BY <1>3, <1>5 DEF Shape
  <1>7. Becomes(c, "gas", "none", i, k)
    BY <1>4
  <1> HIDE DEF k
  <1>8. Fitting(pc[c], why[c], i, h)
    BY DEF ClientTypes
  <1>9. Fitting("gas", "none", i, k)
    BY <1>3, <1>6, <1>8 DEF Fitting, Submitting
  <1>10. QED
    BY <1>7, <1>9, FitsKept

LEMMA MetadataGasFits ==
  ASSUME IInv, ClientTypes, NEW c \in Client, MetadataGas(c)
  PROVE  ClientTypes'
  <1> DEFINE i == intent[c]
             h == held[c]
             o == h.options
             gas == GasLimit(o)
             g == [h EXCEPT !.metadata = MetadataOfOptions(@, o, gas.limit),
                            !.fee = Int64(Int64(h.metadata.gasPrice) * Int64(gas.limit)),
                            !.estimated = gas.msg]
  <1>1. pc[c] = "gas" /\ UNCHANGED intent /\ Reply(c, "payloads", g)
    BY DEF MetadataGas, Quiet
  <1>2. /\ Shape(h) /\ why[c] = "none" /\ i \in IntentType /\ Gas[i.method] \in Uint64s
        /\ MadeOptions(i, h) /\ h.format \notin Signed
    BY <1>1, AtNode DEF Stages, Getting, Signed
  <1>3. Becomes(c, "payloads", "none", i, g)
    BY <1>1, <1>2, Replied
  <1>4. /\ g.metadata.nonce = h.metadata.nonce /\ g.metadata.gasPrice = h.metadata.gasPrice
        /\ g.metadata.gasLimit = gas.limit /\ g.format = h.format
        /\ g.fee = Int64(Int64(h.metadata.gasPrice) * Int64(gas.limit))
    BY <1>2 DEF Shape, MetadataOfOptions
  <1>5. gas.limit \in Uint64s
    BY <1>2, EstimatedRight DEF MadeOptions, Estimates
  <1> HIDE DEF g, gas
  <1>6. Fitting(pc[c], why[c], i, h)
    BY DEF ClientTypes
  <1>7. g.fee \in Int64s
    <2>1. h.metadata.gasPrice \in Int /\ gas.limit \in Int
      BY <1>5, <1>6, SmallFits DEF Fitting
    <2>2. Int64(h.metadata.gasPrice) \in Int /\ Int64(gas.limit) \in Int
      BY <2>1, Int64Fits
    <2>3. \A a, b \in Int : a * b \in Int
      OBVIOUS
    <2>4. Int64(h.metadata.gasPrice) * Int64(gas.limit) \in Int
      BY <2>2, <2>3
    <2>5. QED
      BY <1>4, <2>4, Int64Fits
  <1>8. Fitting("payloads", "none", i, g)
    BY <1>2, <1>4, <1>5, <1>6, <1>7 DEF Fitting, Submitting
  <1>9. QED
    BY <1>3, <1>8, FitsKept

LEMMA MetadataFaultFits ==
  ASSUME IInv, ClientTypes, NEW c \in Client, MetadataFault(c)
  PROVE  ClientTypes'
  <1>1. Fail(c, "rpc") /\ UNCHANGED intent
    BY DEF MetadataFault
  <1>2. QED
    BY <1>1, FitsFailed

LEMMA PayloadsFits ==
  ASSUME IInv, ClientTypes, NEW c \in Client, Payloads(c)
  PROVE  ClientTypes'
  <1> DEFINE i == intent[c]
             h == held[c]
             md == h.metadata
             M == Matches(md, i.ops)
             g == [h EXCEPT
                    !.tx = Tx(UnsignedMessage(md, M), md.nonce, md.gasPrice, md.gasLimit),
                    !.format = "unsigned", !.cur = M[1].cur, !.signer = From(M)]
  <1>1. ClientInv("payloads", why[c], i, h) /\ why[c] = "none"
    BY CalledC DEF Payloads, Endpoint
  <1>2. UNCHANGED intent /\ (Fail(c, "invalid") \/ Reply(c, "parse unsigned", g))
    BY DEF Payloads, Quiet
  <1>3. CASE Fail(c, "invalid")
    BY <1>2, <1>3, FitsFailed
  <1>4. CASE Reply(c, "parse unsigned", g)
    <2>1. Becomes(c, "parse unsigned", "none", i, g)
      BY <1>1, <1>2, <1>4, Replied
    <2>2. Shape(h)
      BY <1>1 DEF ClientInv
    <2>3. g.metadata = h.metadata /\ g.fee = h.fee /\ g.format \notin Signed
      BY <2>2 DEF Shape, Signed
    <2> HIDE DEF g
    <2>4. Fitting(pc[c], why[c], i, h)
      BY DEF ClientTypes
    <2>5. Fitting("parse unsigned", "none", i, g)
      BY <2>3, <2>4 DEF Fitting, Submitting
    <2>6. QED
      BY <2>1, <2>5, FitsKept
  <1>5. QED
    BY <1>2, <1>3, <1>4

LEMMA ParseUnsignedFits ==
  ASSUME IInv, ClientTypes, NEW c \in Client, ParseUnsigned(c)
  PROVE  ClientTypes'
  <1>1. why[c] = "none"
    BY CalledC DEF ParseUnsigned, Endpoint
  <1>2. /\ UNCHANGED intent
        /\ Fail(c, "invalid") \/ Fail(c, "not as intended") \/ Reply(c, "sign", held[c])
    BY DEF ParseUnsigned, Quiet
  <1>3. CASE Reply(c, "sign", held[c])
    <2>1. Becomes(c, "sign", "none", intent[c], held[c])
      BY <1>1, <1>2, <1>3, Replied
    <2>2. QED
      BY <2>1, FitsSame DEF Submitting
  <1>4. QED
    BY <1>2, <1>3, FitsFailed

LEMMA SignPayloadFits ==
  ASSUME IInv, ClientTypes, NEW c \in Client, SignPayload(c)
  PROVE  ClientTypes'
  <1> DEFINE i == intent[c]
             h == held[c]
             g(key) == [h EXCEPT !.key = key]
  <1>1. ClientInv("sign", why[c], i, h)
    BY DEF SignPayload, IInv
  <1>2. PICK key \in Address : held' = [held EXCEPT ![c].key = key]
    BY DEF SignPayload
  <1>3. Becomes(c, "combine", why[c], i, g(key))
    BY <1>2 DEF SignPayload, Goto, Quiet, Becomes, IInv
  <1> DEFINE k == g(key)
  <1>4. Shape(h) /\ why[c] = "none"
    BY <1>1 DEF ClientInv
  <1>5. /\ k.metadata = h.metadata /\ k.fee = h.fee /\ k.tx = h.tx /\ k.format = h.format
        /\ k.key \in Address
    BY <1>4 DEF Shape
  <1>6. Becomes(c, "combine", why[c], i, k)
    BY <1>3
  <1> HIDE DEF g, k
  <1>7. Fitting(pc[c], why[c], i, h)
    BY DEF ClientTypes
  <1>8. Fitting("combine", why[c], i, k)
    BY <1>4, <1>5, <1>7 DEF Fitting, Submitting
  <1>9. QED
    BY <1>6, <1>8, FitsKept

LEMMA CombineFits ==
  ASSUME IInv, ClientTypes, NEW c \in Client, Combine(c)
  PROVE  ClientTypes'
  <1> DEFINE i == intent[c]
             h == held[c]
             g == [h EXCEPT !.tx.from = h.key,
                            !.format = IF "signed" \in i.legacy THEN "signed tx" ELSE "wrapper"]
  <1>1. Calls(c, "combine") /\ UNCHANGED intent /\ Reply(c, "parse signed", g)
    BY DEF Combine, Quiet
  <1>2. "combine" \in Endpoint /\ "combine" \in Parsing
    BY DEF Endpoint, Parsing
  <1>3. pc[c] = "combine" /\ why[c] = "none" /\ Shape(h)
    BY <1>1, <1>2, AfterPayloads
  <1>4. Becomes(c, "parse signed", "none", i, g)
    BY <1>1, <1>3, Replied
  <1>5. g.metadata = h.metadata /\ g.fee = h.fee /\ g.tx.from = h.key
    BY <1>3 DEF Shape
  <1> HIDE DEF g
  <1>6. Fitting(pc[c], why[c], i, h)
    BY DEF ClientTypes
  <1>7. Fitting("parse signed", "none", i, g)
    BY <1>3, <1>5, <1>6 DEF Fitting
  <1>8. QED
    BY <1>4, <1>7, FitsKept

LEMMA SignedFits ==
  ASSUME IInv, ClientTypes, NEW c \in Client, NEW e \in {"parse signed", "hash", "submit"},
         Calls(c, e)
  PROVE  why[c] = "none" /\ Answers(intent[c]) = "C" /\ held[c].tx.from \in Address
         /\ pc[c] = e /\ held[c].tx.nonce = held[c].metadata.nonce
         /\ held[c].tx.nonce \in Uint64s
  <1>1. e \in Endpoint /\ e \in Parsing \cup Submitting /\ e \in {"parse signed"} \cup Submitting
    BY DEF Endpoint, Parsing, Submitting
  <1>2. /\ pc[c] = e /\ Answers(intent[c]) = "C" /\ why[c] = "none"
        /\ MadeTx(intent[c], held[c])
    BY <1>1, AfterPayloads
  <1>3. Fitting(pc[c], why[c], intent[c], held[c])
    BY DEF ClientTypes
  <1>4. QED
    BY <1>1, <1>2, <1>3 DEF Fitting, MadeTx

LEMMA ParseSignedFits ==
  ASSUME IInv, ClientTypes, NEW c \in Client, ParseSigned(c)
  PROVE  ClientTypes'
  <1>1. why[c] = "none" /\ held[c].tx.from \in Address
    BY SignedFits DEF ParseSigned
  <1>2. /\ UNCHANGED intent
        /\ Fail(c, "invalid") \/ Fail(c, "not as intended") \/ Reply(c, "hash", held[c])
    BY DEF ParseSigned, Quiet
  <1>3. CASE Reply(c, "hash", held[c])
    <2>1. Becomes(c, "hash", "none", intent[c], held[c])
      BY <1>1, <1>2, <1>3, Replied
    <2>2. QED
      BY <1>1, <2>1, FitsSame
  <1>4. QED
    BY <1>2, <1>3, FitsFailed

LEMMA HashFits ==
  ASSUME IInv, ClientTypes, NEW c \in Client, Hash(c)
  PROVE  ClientTypes'
  <1>1. why[c] = "none" /\ held[c].tx.from \in Address
    BY SignedFits DEF Hash
  <1>2. UNCHANGED intent /\ Reply(c, "submit", held[c])
    BY DEF Hash, Quiet
  <1>3. Becomes(c, "submit", "none", intent[c], held[c])
    BY <1>1, <1>2, Replied
  <1>4. QED
    BY <1>1, <1>3, FitsSame

LEMMA SubmitFits ==
  ASSUME IInv, ClientTypes, NEW c \in Client, Submit(c)
  PROVE  ClientTypes'
  <1>1. why[c] = "none" /\ held[c].tx.from \in Address
    BY SignedFits DEF Submit
  <1>2. /\ UNCHANGED intent
        /\ \/ SendError(held[c].tx) # "none" /\ Fail(c, SendError(held[c].tx))
           \/ Reply(c, "done", held[c])
    BY DEF Submit
  <1>3. CASE Reply(c, "done", held[c])
    <2>1. Becomes(c, "done", "none", intent[c], held[c])
      BY <1>1, <1>2, <1>3, Replied
    <2>2. QED
      BY <1>1, <2>1, FitsSame
  <1>4. QED
    BY <1>2, <1>3, FitsFailed

LEMMA SubmitFaultFits ==
  ASSUME IInv, ClientTypes, NEW c \in Client, SubmitFault(c)
  PROVE  ClientTypes'
  <1>1. Fail(c, "rpc") /\ UNCHANGED intent
    BY DEF SubmitFault
  <1>2. QED
    BY <1>1, FitsFailed

LEMMA ResubmitFits ==
  ASSUME IInv, ClientTypes, NEW c \in Client, Resubmit(c)
  PROVE  ClientTypes'
  <1>1. Becomes(c, "submit", "none", intent[c], held[c])
    BY DEF Resubmit, Becomes, Goto, Quiet, IInv
  <1>2. Fitting(pc[c], why[c], intent[c], held[c]) /\ held[c].format \in Signed
    BY DEF ClientTypes, Resubmit, Signed
  <1>3. QED
    BY <1>1, <1>2, FitsSame DEF Fitting

(* The node: of the transactions of an account with one nonce the pool     *)
(* keeps one, and none whose nonce has been used.                          *)
LEMMA SendFits ==
  ASSUME PoolTypes, NEW tx, tx.from \in Address, tx.nonce \in Uint64s, SendError(tx) = "none",
         SendTransaction(tx)
  PROVE  PoolTypes'
  <1>1. pool' = (pool \ Rivals(tx)) \cup {tx} /\ nonce' = nonce
    BY DEF SendTransaction
  <1>2. tx.nonce >= nonce[tx.from]
    <2>1. ~(tx.nonce < nonce[tx.from])
      BY DEF SendError
    <2>2. nonce[tx.from] \in Int /\ tx.nonce \in Int
      BY SmallFits DEF PoolTypes
    <2>3. QED
      BY <2>1, <2>2
  <1>3. ASSUME NEW t \in pool' PROVE t.from \in Address /\ t.nonce \in Uint64s /\ t.nonce >= nonce'[t.from]
    BY <1>1, <1>2 DEF PoolTypes
  <1>4. ASSUME NEW t1 \in pool', NEW t2 \in pool', t1.from = t2.from, t1.nonce = t2.nonce
        PROVE  t1 = t2
    BY <1>1, <1>4 DEF PoolTypes, Rivals
  <1>5. QED
    BY <1>1, <1>3, <1>4 DEF PoolTypes

LEMMA AcceptFits ==
  ASSUME PoolTypes, NEW acct \in Address, AcceptNonce(acct)
  PROVE  PoolTypes'
  <1>1. /\ nonce[acct] + 1 \in Uint64s /\ nonce' = [nonce EXCEPT ![acct] = nonce[acct] + 1]
        /\ pool' = {t \in pool : t.from # acct \/ t.nonce > nonce[acct]}
    BY DEF AcceptNonce
  <1>2. nonce' \in [Address -> Uint64s]
    BY <1>1 DEF PoolTypes
  <1>3. ASSUME NEW t \in pool' PROVE t.from \in Address /\ t.nonce \in Uint64s /\ t.nonce >= nonce'[t.from]
    <2>1. t \in pool /\ (t.from # acct \/ t.nonce > nonce[acct])
      BY <1>1
    <2>2. t.from \in Address /\ t.nonce \in Uint64s /\ t.nonce >= nonce[t.from]
      BY <2>1 DEF PoolTypes
    <2>3. CASE t.from # acct
      <3>1. nonce'[t.from] = nonce[t.from]
        BY <1>1, <2>2, <2>3 DEF PoolTypes
      <3>2. QED
        BY <2>2, <3>1
    <2>4. CASE t.from = acct
      <3>1. nonce'[t.from] = nonce[acct] + 1 /\ nonce[acct] \in Int /\ t.nonce \in Int
        BY <1>1, <2>2, <2>4, SmallFits DEF PoolTypes
      <3>2. QED
        BY <2>1, <2>2, <2>4, <3>1
    <2>5. QED
      BY <2>3, <2>4
  <1>4. \A t1, t2 \in pool' : t1.from = t2.from /\ t1.nonce = t2.nonce => t1 = t2
    BY <1>1 DEF PoolTypes
  <1>5. QED
    BY <1>2, <1>3, <1>4 DEF PoolTypes

LEMMA BoundsFit ==
  /\ 0 \in 0 .. MaxFaults /\ 0 \in 0 .. MaxOthers
  /\ \A n \in 0 .. MaxFaults : n < MaxFaults => n + 1 \in 0 .. MaxFaults
  /\ \A n \in 0 .. MaxOthers : n < MaxOthers => n + 1 \in 0 .. MaxOthers
  <1>1. MaxFaults \in Nat /\ MaxOthers \in Nat
    BY ConstantsAssumption
  <1>2. QED
    BY <1>1

LEMMA InitFits == Init => TypeInv
  <1> SUFFICES ASSUME Init PROVE TypeInv
    OBVIOUS
  <1>1. ASSUME NEW c \in Client
        PROVE  /\ intent[c] \in Intents[c] \cup {NoIntent}
               /\ Fitting(pc[c], why[c], intent[c], held[c])
    <2>1. /\ pc[c] = "idle" /\ why[c] = "none" /\ intent[c] = NoIntent /\ held[c] = NoHeld
      BY DEF Init
    <2>2. /\ NoHeld.metadata.nonce = 0 /\ NoHeld.metadata.gasLimit = 0
          /\ NoHeld.metadata.gasPrice = 0 /\ NoHeld.fee = 0 /\ NoHeld.format = "none"
      BY DEF NoHeld, NoMetadata
    <2>3. Fitting("idle", "none", NoIntent, NoHeld)
      BY <2>2, SmallFits DEF Fitting, Submitting, Signed
    <2>4. QED
      BY <2>1, <2>3
  <1>2. PoolTypes
    <2>1. nonce = [a \in Address |-> IF a \in Contract THEN 1 ELSE 0] /\ pool = {}
      BY DEF Init
    <2>2. nonce \in [Address -> Uint64s]
      BY <2>1, SmallFits
    <2>3. QED
      BY <2>1, <2>2 DEF PoolTypes
  <1>3. Bounded
    BY BoundsFit DEF Init, Bounded
  <1>4. QED
    BY <1>1, <1>2, <1>3 DEF TypeInv, ClientTypes

LEMMA StillClients == ClientTypes /\ UNCHANGED clientVars => ClientTypes'
  BY DEF ClientTypes, clientVars

LEMMA StillPool == PoolTypes /\ UNCHANGED nodeVars => PoolTypes'
  BY DEF PoolTypes, nodeVars

LEMMA ClientsFit ==
  ASSUME IInv, TypeInv, [Next]_vars
  PROVE  ClientTypes'
  <1>1. ClientTypes /\ PoolTypes
    BY DEF TypeInv
  <1>2. ASSUME NEW c \in Client, ClientStep(c) PROVE ClientTypes'
    <2>1. CASE Begin(c) \/ Delegate(c) \/ UnavailableOffline(c)
      BY <1>1, <2>1, BeginFits, DelegateFits, UnavailableFits
    <2>2. CASE Preprocess(c) \/ Metadata(c) \/ MetadataPrice(c)
      BY <1>1, <2>2, PreprocessFits, MetadataFits, MetadataPriceFits
    <2>3. CASE MetadataGas(c) \/ MetadataFault(c) \/ Payloads(c)
      BY <1>1, <2>3, MetadataGasFits, MetadataFaultFits, PayloadsFits
    <2>4. CASE ParseUnsigned(c) \/ SignPayload(c) \/ Combine(c)
      BY <1>1, <2>4, ParseUnsignedFits, SignPayloadFits, CombineFits
    <2>5. CASE ParseSigned(c) \/ Hash(c) \/ Submit(c)
      BY <1>1, <2>5, ParseSignedFits, HashFits, SubmitFits
    <2>6. CASE SubmitFault(c) \/ Resubmit(c)
      BY <1>1, <2>6, SubmitFaultFits, ResubmitFits
    <2>7. QED
      BY <1>2, <2>1, <2>2, <2>3, <2>4, <2>5, <2>6 DEF ClientStep
  <1>3. CASE AcceptBlock
    BY <1>1, <1>3, StillClients DEF AcceptBlock
  <1>4. ASSUME NEW acct \in Address \ Contract, OtherWallet(acct) PROVE ClientTypes'
    BY <1>1, <1>4, StillClients DEF OtherWallet
  <1>5. CASE UNCHANGED vars
    BY <1>1, <1>5, StillClients DEF vars
  <1>6. QED
    BY <1>2, <1>3, <1>4, <1>5 DEF Next

LEMMA NodeFits ==
  ASSUME IInv, TypeInv, [Next]_vars
  PROVE  PoolTypes' /\ Bounded'
  <1>1. ClientTypes /\ PoolTypes /\ Bounded
    BY DEF TypeInv
  <1>2. ASSUME NEW c \in Client, ClientStep(c) PROVE PoolTypes' /\ Bounded'
    <2>1. CASE /\ UNCHANGED <<offline, nodeVars>>
               /\ \/ UNCHANGED faults
                  \/ faults < MaxFaults /\ faults' = faults + 1
      <3>1. Bounded'
        BY <1>1, <2>1, BoundsFit DEF Bounded, nodeVars
      <3>2. QED
        BY <1>1, <2>1, <3>1, StillPool
    <2>2. CASE Submit(c)
      <3>1. Calls(c, "submit") /\ UNCHANGED <<offline, faults>>
        BY <2>2 DEF Submit
      <3>2. held[c].tx.from \in Address /\ held[c].tx.nonce \in Uint64s
        BY <1>1, <3>1, SignedFits
      <3>3. CASE UNCHANGED nodeVars
        BY <2>1, <3>1, <3>3
      <3>4. CASE SendError(held[c].tx) = "none" /\ SendTransaction(held[c].tx)
        <4>1. PoolTypes'
          BY <1>1, <3>2, <3>4, SendFits
        <4>2. QED
          BY <1>1, <3>1, <3>4, <4>1 DEF Bounded, SendTransaction
      <3>5. QED
        BY <2>2, <3>3, <3>4 DEF Submit
    <2>3. CASE SubmitFault(c)
      <3>1. Calls(c, "submit") /\ UNCHANGED offline /\ faults < MaxFaults /\ faults' = faults + 1
        BY <2>3 DEF SubmitFault
      <3>2. held[c].tx.from \in Address /\ held[c].tx.nonce \in Uint64s
        BY <1>1, <3>1, SignedFits
      <3>3. CASE UNCHANGED nodeVars
        BY <2>1, <3>1, <3>3
      <3>4. CASE SendError(held[c].tx) = "none" /\ SendTransaction(held[c].tx)
        <4>1. PoolTypes'
          BY <1>1, <3>2, <3>4, SendFits
        <4>2. QED
          BY <1>1, <3>1, <3>4, <4>1, BoundsFit DEF Bounded, SendTransaction
      <3>5. QED
        BY <2>3, <3>3, <3>4 DEF SubmitFault
    <2>4. CASE Begin(c) \/ Delegate(c) \/ UnavailableOffline(c) \/ SignPayload(c) \/ Resubmit(c)
      BY <2>1, <2>4 DEF Begin, Delegate, UnavailableOffline, SignPayload, Resubmit, Quiet
    <2>5. CASE Preprocess(c) \/ Metadata(c) \/ MetadataPrice(c) \/ MetadataGas(c) \/ MetadataFault(c)
      BY <2>1, <2>5 DEF Preprocess, Metadata, MetadataPrice, MetadataGas, MetadataFault, Quiet
    <2>6. CASE Payloads(c) \/ ParseUnsigned(c) \/ Combine(c) \/ ParseSigned(c) \/ Hash(c)
      BY <2>1, <2>6 DEF Payloads, ParseUnsigned, Combine, ParseSigned, Hash, Quiet
    <2>7. QED
      BY <1>2, <2>2, <2>3, <2>4, <2>5, <2>6 DEF ClientStep
  <1>3. CASE AcceptBlock
    <2>1. PICK tx \in pool : AcceptNonce(tx.from)
      BY <1>3 DEF AcceptBlock
    <2>2. tx.from \in Address
      BY <1>1 DEF PoolTypes
    <2>3. PoolTypes'
      BY <1>1, <2>1, <2>2, AcceptFits
    <2>4. QED
      BY <1>1, <1>3, <2>3 DEF AcceptBlock, Bounded
  <1>4. ASSUME NEW acct \in Address \ Contract, OtherWallet(acct) PROVE PoolTypes' /\ Bounded'
    <2>1. AcceptNonce(acct)
      BY <1>4 DEF OtherWallet
    <2>2. PoolTypes'
      BY <1>1, <2>1, AcceptFits
    <2>3. QED
      BY <1>1, <1>4, <2>2, BoundsFit DEF OtherWallet, Bounded
  <1>5. CASE UNCHANGED vars
    BY <1>1, <1>5, StillPool DEF vars, Bounded, nodeVars
  <1>6. QED
    BY <1>2, <1>3, <1>4, <1>5 DEF Next

LEMMA TypesHold == Spec => [](IInv /\ HInv /\ TypeInv)
  <1>1. Init => IInv /\ HInv /\ TypeInv
    BY InitInv, InitFlow, InitFits
  <1>2. IInv /\ HInv /\ TypeInv /\ [Next]_vars => (IInv /\ HInv /\ TypeInv)'
    <2>1. ASSUME IInv, TypeInv, [Next]_vars PROVE TypeInv'
      BY <2>1, ClientsFit, NodeFits DEF TypeInv
    <2>2. QED
      BY <2>1, NextInv, NextFlow
  <1>3. QED
    BY <1>1, <1>2, PTL DEF Spec

LEMMA TypesFit == IInv /\ HInv /\ TypeInv => TypeOK
  <1> SUFFICES ASSUME IInv, HInv, TypeInv PROVE TypeOK
    OBVIOUS
  <1>1. ASSUME NEW c \in Client
        PROVE  /\ intent[c] \in Intents[c] \cup {NoIntent}
               /\ held[c].metadata.nonce \in Uint64s /\ held[c].metadata.gasLimit \in Uint64s
               /\ held[c].fee \in -(MaxInt64 + 1) .. MaxInt64
               /\ why[c] # "none" <=> pc[c] = "refused"
               /\ handled[c] \subseteq {"C", "P", "atomic"}
    <2>1. handled[c] \subseteq {Answers(intent[c])}
      BY DEF HInv
    <2>2. Answers(intent[c]) \in {"C", "P", "atomic"}
      BY DEF Answers
    <2>3. QED
      BY <2>1, <2>2 DEF TypeInv, ClientTypes, Fitting, Int64s
  <1>2. QED
    BY <1>1 DEF TypeInv, PoolTypes, Bounded, TypeOK

(* For any intents, numbers, clients and transactions of other wallets:    *)
(* nonces and gas limits are uint64, suggested fees int64 also where a     *)
(* product of two overflows, and the node's pool has for each nonce of an  *)
(* account one transaction, whose nonce has not been used.                 *)
THEOREM TypesCorrect == Spec => []TypeOK
  BY TypesHold, TypesFit, PTL

=============================================================================
