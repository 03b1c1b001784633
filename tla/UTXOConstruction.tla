--------------------------- MODULE UTXOConstruction ---------------------------
(***************************************************************************)
(* Construction of P-chain and C-chain atomic transactions                 *)
(* (server/service/backend/common/construction.go with the builders and    *)
(* parsers of both chains): a client takes the operations it intends       *)
(* through the /construction endpoints, checks what the server parses,     *)
(* signs, and submits, while coins are spent and nonces used elsewhere.    *)
(*                                                                         *)
(* The server keeps nothing between the calls: the transaction travels     *)
(* with the client, with the accounts of its inputs beside it.  Accounts   *)
(* and coins are numbers, whose order is that of their bytes.  Rewards     *)
(* owners, keys and times of validators, fees and asset identifiers are    *)
(* left out; an identifier of a transaction is the transaction.            *)
(***************************************************************************)
EXTENDS Enumeration, Functions

CONSTANTS
    Account,    \* accounts
    Coins,      \* coins that may be spent
    Owner,      \* Owner[c]: the account that owns coin c
    Imported,   \* the coins that are in shared memory
    Intents,    \* what clients may intend: see Intent
    FirstNonce, \* FirstNonce[a]: the nonce account a has when the client begins
    MaxSpends   \* bound: times that others spend a coin or use a nonce

PTypes == {"IMPORT_AVAX", "EXPORT_AVAX", "ADD_VALIDATOR"}
CTypes == {"IMPORT", "EXPORT"}

(* coin is 0 where there is none; kind is the "type" of the metadata and   *)
(* sigs the number of signature indices, of which outputs have none.       *)
Kind == {"INPUT", "IMPORT", "OUTPUT", "STAKE", "EXPORT"}
Operation == [side : {"in"}, account : Account, coin : Coins \cup {0}, amount : Nat,
              kind : Kind, sigs : Nat]
    \cup [side : {"out"}, account : Account, coin : {0}, amount : Nat, kind : Kind, sigs : {0}]

(* The client may name the nonce of an export, or leave it to the server:  *)
(* -1.                                                                     *)
Intent == [type : PTypes \cup CTypes, ops : Seq(Operation), nonce : Nat \cup {-1}]

(* The kind of an operation of the C-chain is the part of the transaction  *)
(* it becomes, and each input takes one signature.  Elsewhere the client   *)
(* names one account for a coin.                                           *)
Meaningful(q) ==
    /\ q.type \in CTypes => \A i \in DOMAIN q.ops :
            IF q.ops[i].side = "in"
            THEN q.ops[i].sigs = 1 /\ q.ops[i].kind = (IF q.type = "IMPORT" THEN "IMPORT" ELSE "INPUT")
            ELSE q.ops[i].kind = (IF q.type = "IMPORT" THEN "OUTPUT" ELSE "EXPORT")
    /\ q.type # "EXPORT" => \A i, j \in DOMAIN q.ops :
            q.ops[i].coin = q.ops[j].coin /\ q.ops[i].coin # 0 => q.ops[i].account = q.ops[j].account

ASSUME ConstantsAssumption ==
    /\ Account \subseteq Nat \ {0} /\ IsFiniteSet(Account)
    /\ Coins \subseteq Nat \ {0} /\ IsFiniteSet(Coins) /\ Imported \subseteq Coins
    /\ Owner \in [Coins -> Account]
    /\ Intents \subseteq Intent /\ \A q \in Intents : Meaningful(q)
    /\ FirstNonce \in [Account -> Nat]
    /\ MaxSpends \in Nat

VARIABLES
    intent,      \* the client: operations it intends
    phase,       \* the client: what it does next
    options,     \* answer of preprocess
    metadata,    \* answer of metadata
    rosettaTx,   \* the transaction as the client holds it, unsigned or signed
    payloads,    \* accounts of the signing payloads
    parsed,      \* last answer of parse: operations and signers
    hash,        \* answer of hash
    accepted,    \* the node: transactions of the client it has accepted
    spent,       \* the node: coins that are spent
    nonce,       \* the node: nonce of each account
    nonceThen,   \* history: what the nonces were when metadata was answered
    spends       \* bound: spends of others so far

nodeVars == <<accepted, spent, nonce, spends>>
vars == <<intent, phase, options, metadata, rosettaTx, payloads, parsed, hash, nodeVars, nonceThen>>

-----------------------------------------------------------------------------
(* Matching of operations *)

Ins(ops) == Where(ops, LAMBDA op : op.side = "in")
Outs(ops) == Where(ops, LAMBDA op : op.side = "out")

NoMatch(type, ops) ==
    \/ Ins(ops) = <<>> \/ Outs(ops) = <<>>
    \/ type \in CTypes /\ Len(Outs(ops)) > 1
    \/ type # "EXPORT" /\ \E i \in DOMAIN ops : ops[i].side = "in" /\ ops[i].coin = 0

-----------------------------------------------------------------------------
(* BuildTx *)

OfKind(ops, kind) == Where(ops, LAMBDA op : op.kind = kind)
Map(s, F(_)) == [i \in DOMAIN s |-> F(s[i])]
ByCoin(ins) == Arranged(ins, LAMBDA i, j : i.coin < j.coin)
ByAccount(ins) == Arranged(ins, LAMBDA i, j : i.account < j.account)
ByAmount(outs) ==
    Arranged(outs, LAMBDA o, p : o.amount < p.amount \/ (o.amount = p.amount /\ o.account < p.account))

Input(op) == [coin |-> op.coin, amount |-> op.amount, sigs |-> op.sigs]
EVMInput(op) == [account |-> op.account, amount |-> op.amount]
Out(op) == [account |-> op.account, amount |-> op.amount]

buildInputsUnsorted(ops, kind) == Map(OfKind(Ins(ops), kind), Input)
buildInputs(ops, kind) ==
    ByCoin(Map(OfKind(Ins(ops), kind), Input))
buildOutputs(ops, kind) == ByAmount(Map(OfKind(Outs(ops), kind), Out))

(* Each type of transaction takes some kinds of inputs and outputs and     *)
(* drops the others.  Validators and delegators, permissionless or not,    *)
(* are one type: they differ in what is left out.                          *)
EmptyTx == [type |-> "none", ins |-> <<>>, imported |-> <<>>, evmIns |-> <<>>,
            outs |-> <<>>, extra |-> <<>>, nonce |-> 0]

BaseTx(type, ops) ==
    [EmptyTx EXCEPT !.type = type, !.ins = buildInputs(ops, "INPUT"),
                    !.outs = buildOutputs(ops, "OUTPUT")]

buildImportTx(ops) ==
    [BaseTx("IMPORT_AVAX", ops) EXCEPT !.imported = buildInputs(ops, "IMPORT")]
buildExportTx(ops) ==
    [BaseTx("EXPORT_AVAX", ops) EXCEPT !.extra = buildOutputs(ops, "EXPORT")]
buildStakingTx(ops) ==
    [BaseTx("ADD_VALIDATOR", ops) EXCEPT !.extra = buildOutputs(ops, "STAKE")]

(* Imported coins need one signature each, whatever the operation says.    *)
buildImportedInputs(ops) ==
    ByCoin(Map(Ins(ops), LAMBDA op : [Input(op) EXCEPT !.sigs = 1]))
buildIns(ops) == ByAccount(Map(Ins(ops), EVMInput))

buildAtomicImportTx(ops) ==
    [EmptyTx EXCEPT !.type = "IMPORT", !.imported = buildImportedInputs(ops),
                    !.outs = ByAmount(Map(Outs(ops), Out))]
buildAtomicExportTx(ops, md) ==
    [EmptyTx EXCEPT !.type = "EXPORT", !.evmIns = buildIns(ops),
                    !.extra = ByAmount(Map(Outs(ops), Out)), !.nonce = md.nonce]

BuildTx(type, ops, md) ==
    CASE type = "IMPORT_AVAX" -> buildImportTx(ops)
      [] type = "EXPORT_AVAX" -> buildExportTx(ops)
      [] type = "ADD_VALIDATOR" -> buildStakingTx(ops)
      [] type = "IMPORT" -> buildAtomicImportTx(ops)
      [] type = "EXPORT" -> buildAtomicExportTx(ops, md)

BuildFails(type, ops) ==
    /\ type \in PTypes
    /\ \E i \in DOMAIN ops : \/ ops[i].side = "in" /\ ops[i].kind \notin {"INPUT", "IMPORT"}
                             \/ ops[i].side = "out" /\ ops[i].kind \notin {"OUTPUT", "STAKE", "EXPORT"}

-----------------------------------------------------------------------------
(* Parse during construction *)

(* getInputAddresses and GetAccountIdentifiers: maps by coin, in which a   *)
(* later entry replaces an earlier one; operations without a coin share    *)
(* one entry.                                                              *)
KnownCoins(signers) == {signers[i].coin : i \in DOMAIN signers}
AccountOf(signers, coin) ==
    LET last == CHOOSE i \in DOMAIN signers :
                    signers[i].coin = coin /\ \A j \in DOMAIN signers : signers[j].coin = coin => j <= i
    IN  signers[last].account

InOp(signers, in, kind) ==
    [side |-> "in", account |-> AccountOf(signers, in.coin), coin |-> in.coin,
     amount |-> in.amount, kind |-> kind, sigs |-> in.sigs]
EVMInOp(in) ==
    [side |-> "in", account |-> in.account, coin |-> 0, amount |-> in.amount,
     kind |-> "INPUT", sigs |-> 1]
OutOp(out, kind) ==
    [side |-> "out", account |-> out.account, coin |-> 0, amount |-> out.amount,
     kind |-> kind, sigs |-> 0]

ExtraKind(type) == IF type = "ADD_VALIDATOR" THEN "STAKE" ELSE "EXPORT"

ParseTxAlike(tx, signers) ==
    Map(tx.ins \o tx.imported, LAMBDA in : InOp(signers, in, "INPUT"))
    \o Map(tx.evmIns, EVMInOp)
    \o Map(tx.outs, LAMBDA out : OutOp(out, "OUTPUT"))
    \o Map(tx.extra, LAMBDA out : OutOp(out, ExtraKind(tx.type)))
ParseTx(tx, signers) ==
    Map(tx.ins, LAMBDA in : InOp(signers, in, "INPUT"))
    \o Map(tx.imported, LAMBDA in : InOp(signers, in, "IMPORT"))
    \o Map(tx.evmIns, EVMInOp)
    \o Map(tx.outs, LAMBDA out : OutOp(out, "OUTPUT"))
    \o Map(tx.extra, LAMBDA out : OutOp(out, ExtraKind(tx.type)))

TxCoins(tx) == {tx.ins[i].coin : i \in DOMAIN tx.ins}
    \cup {tx.imported[i].coin : i \in DOMAIN tx.imported}

ParseFails(rtx) ==
    \/ TxCoins(rtx.tx) \ KnownCoins(rtx.signers) # {}
    \/ rtx.tx.type \in {"EXPORT_AVAX", "EXPORT"} /\ ~rtx.destination

GetAccountIdentifiers(rtx, ops) ==
    Map(Ins(ops), LAMBDA op : AccountOf(rtx.signers, op.coin))
SignersMissing(rtx, ops) ==
    \E i \in DOMAIN Ins(ops) : Ins(ops)[i].coin \notin KnownCoins(rtx.signers)

-----------------------------------------------------------------------------
(* Combine *)

getTxInputs(tx) ==
    IF tx.type \in {"IMPORT_AVAX", "IMPORT"} THEN tx.imported ELSE tx.ins

(* Signatures that the first n inputs take *)
sigOffset(ins, n) == SumFunctionOnSet([i \in DOMAIN ins |-> ins[i].sigs], 1 .. n)

BuildCredentialList(ins, signatures) ==
    [i \in DOMAIN ins |->
        SubSeq(signatures, sigOffset(ins, i - 1) + 1, sigOffset(ins, i - 1) + ins[i].sigs)]

CombineFails(tx, signatures) ==
    IF tx.type = "EXPORT" THEN Len(signatures) < 1
    ELSE Len(signatures) # sigOffset(getTxInputs(tx), Len(getTxInputs(tx)))

Credentials(tx, signatures) ==
    IF tx.type = "EXPORT" THEN <<SubSeq(signatures, 1, 1)>>
    ELSE BuildCredentialList(getTxInputs(tx), signatures)

-----------------------------------------------------------------------------
(* What the node checks: inputs in order and signed, coins where they are  *)
(* taken from and unspent, nonces right                                    *)

Sorted(ins) == \A i \in 1 .. Len(ins) - 1 : ins[i].coin < ins[i + 1].coin

Signed(rtx) ==
    LET tx == rtx.tx
        owners == Map(tx.ins \o tx.imported, LAMBDA in : Owner[in.coin])
                  \o Map(tx.evmIns, LAMBDA in : in.account)
    IN  /\ Sorted(tx.ins) /\ Sorted(tx.imported)
        /\ rtx.creds = Map(owners, LAMBDA a : <<a>>)

Current(rtx) ==
    /\ TxCoins(rtx.tx) \cap spent = {}
    /\ \A i \in DOMAIN rtx.tx.ins : rtx.tx.ins[i].coin \notin Imported
    /\ \A i \in DOMAIN rtx.tx.imported : rtx.tx.imported[i].coin \in Imported
    /\ \A i \in DOMAIN rtx.tx.evmIns : nonce[rtx.tx.evmIns[i].account] = rtx.tx.nonce

-----------------------------------------------------------------------------
(* The client's calls, one after the other.  A call that fails ends the    *)
(* construction.                                                           *)

Calling(p) == phase = p
Failed == /\ phase' = "failed"
          /\ UNCHANGED <<intent, options, metadata, rosettaTx, payloads, parsed, hash, nodeVars, nonceThen>>

ConstructionPreprocess ==
    /\ Calling("preprocess")
    /\ \/ NoMatch(intent.type, intent.ops) /\ Failed
       \/ /\ ~NoMatch(intent.type, intent.ops)
          /\ options' = intent
          /\ phase' = "metadata"
          /\ UNCHANGED <<intent, metadata, rosettaTx, payloads, parsed, hash, nodeVars, nonceThen>>

(* The nonce of an export is the one the client named, or the one of the   *)
(* first input's account now.                                              *)
NonceNamed(q) == IF q.type # "EXPORT" THEN 0 ELSE q.nonce
NonceOfFirst(q) ==
    IF q.type # "EXPORT" THEN 0
    ELSE IF q.nonce # -1 THEN q.nonce ELSE nonce[q.ops[1].account]
NonceOf(q) ==
    IF q.type # "EXPORT" THEN 0
    ELSE IF q.nonce # -1 THEN q.nonce ELSE nonce[Ins(q.ops)[1].account]

ConstructionMetadata ==
    /\ Calling("metadata")
    /\ \/ BuildFails(options.type, options.ops) /\ Failed
       \/ /\ ~BuildFails(options.type, options.ops)
          /\ metadata' = [nonce |-> NonceOf(options),
                          destination |-> options.type \in {"EXPORT_AVAX", "EXPORT"}]
          /\ nonceThen' = nonce
          /\ phase' = "payloads"
          /\ UNCHANGED <<intent, options, rosettaTx, payloads, parsed, hash, nodeVars>>

ConstructionPayloads ==
    /\ Calling("payloads")
    /\ \/ (NoMatch(intent.type, intent.ops) \/ BuildFails(intent.type, intent.ops)) /\ Failed
       \/ /\ ~NoMatch(intent.type, intent.ops) /\ ~BuildFails(intent.type, intent.ops)
          /\ rosettaTx' = [tx |-> BuildTx(intent.type, intent.ops, metadata),
                           creds |-> <<>>,
                           signers |-> Map(Ins(intent.ops),
                                           LAMBDA op : [coin |-> op.coin, account |-> op.account]),
                           destination |-> metadata.destination]
          /\ payloads' = Map(Ins(intent.ops), LAMBDA op : op.account)
          /\ phase' = "parse"
          /\ UNCHANGED <<intent, options, metadata, parsed, hash, nodeVars, nonceThen>>

Parse(signed, then) ==
    LET ops == ParseTx(rosettaTx.tx, rosettaTx.signers)
        fails == ParseFails(rosettaTx) \/ (signed /\ SignersMissing(rosettaTx, ops))
    IN  \/ fails /\ Failed
        \/ /\ ~fails
           /\ parsed' = [ops |-> ops,
                         signers |-> IF signed THEN GetAccountIdentifiers(rosettaTx, ops) ELSE <<>>]
           /\ phase' = then
           /\ UNCHANGED <<intent, options, metadata, rosettaTx, payloads, hash, nodeVars, nonceThen>>

ParseUnsigned == Calling("parse") /\ Parse(FALSE, "combine")

(* The client signs the payloads in their order. *)
ConstructionCombine ==
    /\ Calling("combine")
    /\ LET signatures == payloads
       IN  \/ CombineFails(rosettaTx.tx, signatures) /\ Failed
           \/ /\ ~CombineFails(rosettaTx.tx, signatures)
              /\ rosettaTx' = [rosettaTx EXCEPT !.creds = Credentials(rosettaTx.tx, signatures)]
              /\ phase' = "parse signed"
              /\ UNCHANGED <<intent, options, metadata, payloads, parsed, hash, nodeVars, nonceThen>>

ParseSigned == Calling("parse signed") /\ Parse(TRUE, "hash")

(* The identifier is that of the signed transaction. *)
TxID(rtx) == [tx |-> rtx.tx, creds |-> rtx.creds]
HashTx(rtx) == TxID(rtx)

ConstructionHash ==
    /\ Calling("hash")
    /\ hash' = HashTx(rosettaTx)
    /\ phase' = "submit"
    /\ UNCHANGED <<intent, options, metadata, rosettaTx, payloads, parsed, nodeVars, nonceThen>>

(* The answer may be lost, after which the client submits again. *)
ConstructionSubmit ==
    /\ Calling("submit")
    /\ \/ ~(Signed(rosettaTx) /\ Current(rosettaTx)) /\ Failed
       \/ /\ Signed(rosettaTx) /\ Current(rosettaTx)
          /\ accepted' = accepted \cup {TxID(rosettaTx)}
          /\ spent' = spent \cup TxCoins(rosettaTx.tx)
          /\ nonce' = [a \in Account |-> IF \E i \in DOMAIN rosettaTx.tx.evmIns :
                                                rosettaTx.tx.evmIns[i].account = a
                                         THEN nonce[a] + 1 ELSE nonce[a]]
          /\ phase' \in {"done", "submit"}
          /\ UNCHANGED <<intent, options, metadata, rosettaTx, payloads, parsed, hash, spends, nonceThen>>

-----------------------------------------------------------------------------
(* Others spend coins and use nonces. *)

SpendElsewhere ==
    /\ spends < MaxSpends
    /\ spends' = spends + 1
    /\ \/ \E c \in Coins \ spent : spent' = spent \cup {c} /\ UNCHANGED nonce
       \/ \E a \in Account : nonce' = [nonce EXCEPT ![a] = @ + 1] /\ UNCHANGED spent
    /\ UNCHANGED <<intent, phase, options, metadata, rosettaTx, payloads, parsed, hash, accepted, nonceThen>>

None == [type |-> "none", ops |-> <<>>, nonce |-> -1]

Init ==
    /\ intent \in Intents
    /\ phase = "preprocess"
    /\ options = None
    /\ metadata = [nonce |-> 0, destination |-> FALSE]
    /\ rosettaTx = [tx |-> EmptyTx, creds |-> <<>>, signers |-> <<>>,
                    destination |-> FALSE]
    /\ payloads = <<>>
    /\ parsed = [ops |-> <<>>, signers |-> <<>>]
    /\ hash = TxID(rosettaTx)
    /\ accepted = {}
    /\ spent = {}
    /\ nonce = FirstNonce
    /\ nonceThen = FirstNonce
    /\ spends = 0

Next ==
    \/ ConstructionPreprocess \/ ConstructionMetadata \/ ConstructionPayloads
    \/ ParseUnsigned \/ ConstructionCombine \/ ParseSigned
    \/ ConstructionHash \/ ConstructionSubmit \/ SpendElsewhere

Spec == Init /\ [][Next]_vars

-----------------------------------------------------------------------------
(* Type invariant: the transaction travels in one piece, with the accounts *)
(* of all its coins and, once signed, a credential for each signature.     *)
Phase == {"preprocess", "metadata", "payloads", "parse", "combine", "parse signed",
          "hash", "submit", "done", "failed"}
IsSigned == phase \in {"parse signed", "hash", "submit", "done"}

TypeOK ==
    /\ intent \in Intents /\ phase \in Phase
    /\ options \in Intents \cup {None}
    /\ metadata \in [nonce : Nat, destination : BOOLEAN]
    /\ payloads \in Seq(Account)
    /\ parsed \in [ops : Seq(Operation), signers : Seq(Account)]
    /\ TxCoins(rosettaTx.tx) \subseteq KnownCoins(rosettaTx.signers)
    /\ rosettaTx.creds \in Seq(Seq(Account))
    /\ IsSigned => rosettaTx.creds # <<>>
    /\ spent \subseteq Coins
    /\ nonce \in [Account -> Nat] /\ nonceThen \in [Account -> Nat]
    /\ spends \in 0 .. MaxSpends

(* The parts of a transaction that its type has *)
Parts(type) ==
    CASE type = "IMPORT_AVAX" -> {"INPUT", "IMPORT", "OUTPUT"}
      [] type = "EXPORT_AVAX" -> {"INPUT", "OUTPUT", "EXPORT"}
      [] type = "ADD_VALIDATOR" -> {"INPUT", "OUTPUT", "STAKE"}
      [] type = "IMPORT" -> {"IMPORT", "OUTPUT"}
      [] type = "EXPORT" -> {"INPUT", "EXPORT"}

WellTyped(q) ==
    \A i \in DOMAIN q.ops :
        /\ q.ops[i].kind \in Parts(q.type)
        /\ q.type = "EXPORT" => q.ops[i].coin = 0

Count(ops, op) == Cardinality({i \in DOMAIN ops : ops[i] = op})
Members(s) == {s[i] : i \in DOMAIN s}

(* What the client confirms before and after signing is what it intended:  *)
(* the operations parsed from the transaction are the intended ones up to  *)
(* their order, none twice and none lost, though the transaction sorts its *)
(* inputs and outputs and forgets accounts; operations of a kind its type  *)
(* has no place for may be missing, but nothing is ever added.  The        *)
(* signers are the accounts of the payloads, but for exports of several    *)
(* accounts from the C-chain, whose inputs are not told apart.  The        *)
(* identifier that /construction/hash gave offline is the one under which  *)
(* the node accepts the transaction, however often it is submitted.        *)
IntentConfirmed ==
    /\ accepted \subseteq {hash}
    /\ parsed.ops # <<>> =>
           /\ \A op \in Members(parsed.ops) : Count(parsed.ops, op) <= Count(intent.ops, op)
                   \/ (intent.type = "EXPORT" /\ ~WellTyped(intent))
           /\ WellTyped(intent) => Len(parsed.ops) = Len(intent.ops)
           /\ parsed.signers # <<>> /\ WellTyped(intent)
              /\ (intent.type = "EXPORT" => Cardinality(Members(payloads)) = 1)
                  => Members(parsed.signers) = Members(payloads)

(* Intents whose signatures end up at the inputs they are for: inputs of   *)
(* one kind with one signature each, given so that their accounts, who own *)
(* the coins, are in the order of the coins (or a single account exporting *)
(* from the C-chain).                                                      *)
InPlace(q) ==
    LET ins == Ins(q.ops)
        coins == {ins[i].coin : i \in DOMAIN ins}
        byCoin == IF q.type = "EXPORT" THEN ins ELSE ByCoin(ins)
    IN  /\ WellTyped(q) /\ ~NoMatch(q.type, q.ops) /\ ~BuildFails(q.type, q.ops)
        /\ q.type = "EXPORT" => Len(ins) = 1
        /\ q.type # "EXPORT" =>
                Cardinality(coins) = Len(ins) /\ \A i \in DOMAIN ins : ins[i].account = Owner[ins[i].coin]
        /\ \A i \in DOMAIN ins :
                /\ ins[i].sigs = 1
                /\ ins[i].kind = (IF q.type \in {"IMPORT_AVAX", "IMPORT"} THEN "IMPORT" ELSE "INPUT")
                /\ ins[i].kind = "IMPORT" <=> ins[i].coin \in Imported
                /\ ins[i].account = byCoin[i].account

(* The account that exports from the C-chain, and whether the client named *)
(* a nonce that was not that account's when metadata was answered          *)
Exporter == Ins(intent.ops)[1].account
MisnamedNonce == intent.type = "EXPORT" /\ intent.nonce \notin {-1, nonceThen[Exporter]}

(* What others can do to it: they spend one of its coins, or use a nonce   *)
(* of the exporting account after metadata was answered.                   *)
CoinTaken == \E i \in DOMAIN Ins(intent.ops) : Ins(intent.ops)[i].coin \in spent
NonceTaken == intent.type = "EXPORT" /\ nonce[Exporter] # nonceThen[Exporter]

(* Such an intent becomes a transaction that the node accepts, unless      *)
(* others spend its coins, or use its nonce after it was read: no call     *)
(* fails, each credential is that of its input's owner, and the nonce is   *)
(* the one the exporting account had when metadata was answered.  What     *)
(* others do with other coins and accounts, or before, is no excuse.       *)
AcceptedUnlessRaced ==
    phase = "failed" /\ InPlace(intent) /\ ~MisnamedNonce =>
        accepted # {} \/ CoinTaken \/ NonceTaken
=============================================================================
