------------------------------ MODULE PChainCoins ------------------------------
(***************************************************************************)
(* How the operations of P-chain transactions (server/mapper/pchain:       *)
(* tx_parser.go, tx_ops.go, tx_dependency.go) look to a client that        *)
(* follows the chain and keeps the set of unspent coins by applying their  *)
(* coin changes, which is what the data validation of the Rosetta tools    *)
(* does.                                                                   *)
(*                                                                         *)
(* A transaction is named by its position in the chain; the first is the   *)
(* genesis allocation.  An output is the set of its addresses: amounts and *)
(* assets are copied to the operations and left out, like the metadata of  *)
(* validators.  A reward transaction and the option block that commits it  *)
(* are one step of the chain.                                              *)
(***************************************************************************)
EXTENDS Enumeration

CONSTANTS
    Addr,       \* addresses
    Outputs,    \* sequences of outputs a transaction may have
    Extras,     \* sequences of staked, exported or reward outputs
    Refund,     \* the output that disabling an L1 validator refunds
    MaxIns,     \* bound: number of inputs of a transaction
    MaxLag,     \* bound: number of transactions a client may be behind
    MaxTxs      \* bound: number of transactions, with the genesis allocation

Output == SUBSET Addr
UTXOID == (1 .. MaxTxs) \X Nat

(* base: every type that is only a BaseTx to the parser, l1: those among   *)
(* them whose execution refunds a UTXO that is not in their bytes          *)
Kind == {"base", "l1", "import", "export", "stake", "reward", "time"}

(* extra: staked or exported outputs; ref: the staking transaction that a  *)
(* reward transaction ends; imported: number of imported inputs            *)
Tx == [kind : Kind, ins : Seq(UTXOID), imported : Nat, outs : Seq(Output),
       extra : Seq(Output), ref : 0 .. MaxTxs]

ASSUME ConstantsAssumption ==
    /\ IsFiniteSet(Addr)
    /\ Outputs \subseteq Seq(Output) /\ Extras \subseteq Seq(Output)
    /\ Refund \in Output
    /\ MaxIns \in Nat /\ MaxLag \in Nat \ {0} /\ MaxTxs \in Nat \ {0}

VARIABLES
    txs,       \* the chain: its transactions
    unspent,   \* the chain: unspent outputs
    staking,   \* the chain: staking transactions that have not ended
    rewards,   \* the chain: reward outputs of each transaction
    exported,  \* the chain: outputs put into shared memory
    synced,    \* the client: number of transactions read
    coins,     \* the client: coins it holds to be unspent
    sent,      \* the client: coins it holds to be in shared memory
    rejected   \* the client: identifiers of coin changes it cannot apply

chainVars == <<txs, unspent, staking, rewards, exported>>
clientVars == <<synced, coins, sent, rejected>>
vars == <<chainVars, clientVars>>

-----------------------------------------------------------------------------
(* tx_dependency.go *)

InputTxs(tx) == {tx.ins[i][1] : i \in DOMAIN tx.ins}
GetTxDependenciesIDs(tx) ==
    CASE tx.kind = "time" -> {}
      [] tx.kind = "reward" -> {tx.ref}
      [] OTHER -> InputTxs(tx)

(* UTXOs of a dependency: outputs, then stake, then rewards, which the     *)
(* node numbers after them                                                 *)
Numbered(t, outs, from) ==
    {[id |-> <<t, from + i - 1>>, addrs |-> outs[i]] : i \in DOMAIN outs}

GetUtxosWithoutStake(t) ==
    Numbered(t, txs[t].outs, 0)
    \cup Numbered(t, rewards[t], Len(txs[t].outs) + Len(txs[t].extra))
GetUtxos(t) ==
    Numbered(t, txs[t].outs, 0)
    \cup Numbered(t, rewards[t], Len(txs[t].outs) + Len(txs[t].extra))
    \cup (IF txs[t].kind = "stake" THEN Numbered(t, txs[t].extra, Len(txs[t].outs)) ELSE {})

(* Accounts of the single-owner outputs among them: inputTxAccounts *)
Owner(addrs) == CHOOSE a \in addrs : TRUE
Single(addrs) == Cardinality(addrs) = 1

Coin(u) == [id |-> u.id, account |-> Owner(u.addrs)]

GetReferencedAccounts(deps) ==
    {Coin(u) : u \in {u \in UNION {GetUtxos(t) : t \in deps} : Single(u.addrs)}}

-----------------------------------------------------------------------------
(* tx_ops.go *)

newTxOps == [Ins |-> <<>>, Outs |-> <<>>, StakeOuts |-> <<>>,
             ImportIns |-> <<>>, ExportOuts |-> <<>>]

IncludedOperations(ops) == ops.Ins \o ops.Outs \o ops.StakeOuts
OpsLen(ops) == Len(ops.Ins) + Len(ops.Outs) + Len(ops.StakeOuts)
OutputLenNone(ops) == 0
OutputLen(ops) == Len(ops.Outs) + Len(ops.StakeOuts)

(* Imported and exported operations get their identifier at the end. *)
AppendOps(ops, field, new) == [ops EXCEPT ![field] = @ \o new]

-----------------------------------------------------------------------------
(* tx_parser.go *)

Op(index, id, account) == [index |-> index, id |-> id, account |-> account]

(* isMultisig: whether an input is skipped.  One that is not among the     *)
(* outputs of its transaction counts as multisig if the network may have   *)
(* generated it, and is an error otherwise.                                *)
UTXOsAt(deps, id) == {u \in UNION {GetUtxos(t) : t \in deps} : u.id = id}

isMultisigOrError(deps, id) ==
    UTXOsAt(deps, id) # {} /\ \A u \in UTXOsAt(deps, id) : ~Single(u.addrs)
isMultisig(deps, id) ==
    IF UTXOsAt(deps, id) = {}
    THEN id[1] \in deps /\ txs[id[1]].kind = "l1"
    ELSE \A u \in UTXOsAt(deps, id) : ~Single(u.addrs)

(* insToOperations, for the inputs of the P-chain: it fails on one that is *)
(* neither skipped nor of a known account ...                              *)
InputsFail(tx) ==
    LET deps == GetTxDependenciesIDs(tx)
    IN  \E i \in DOMAIN tx.ins :
            /\ ~isMultisig(deps, tx.ins[i])
            /\ tx.ins[i] \notin {c.id : c \in GetReferencedAccounts(deps)}

insToOperations(ops, tx) ==
    LET deps == GetTxDependenciesIDs(tx)
        kept == Positions(tx.ins, LAMBDA id : ~isMultisig(deps, id))
        account(id) == (CHOOSE c \in GetReferencedAccounts(deps) : c.id = id).account
    IN  AppendOps(ops, "Ins", [k \in DOMAIN kept |->
            Op(OpsLen(ops) + k - 1, tx.ins[kept[k]], account(tx.ins[kept[k]]))])

(* ... and for imported inputs, whose owners are not looked up *)
importsAsInputs(ops, tx) ==
    AppendOps(ops, "Ins", [k \in 1 .. tx.imported |-> Op(OpsLen(ops) + k - 1, <<-1, k>>, "none")])
importsToOperations(ops, tx) ==
    AppendOps(ops, "ImportIns", [k \in 1 .. tx.imported |-> Op(-1, <<-1, k>>, "none")])

(* outsToOperations: outputs without exactly one address are skipped.      *)
outsToOperations(ops, t, outs, field) ==
    LET kept == Positions(outs, Single)
        outIndexOffset == OutputLen(ops)
    IN  AppendOps(ops, field, [k \in DOMAIN kept |->
            Op(IF field = "ExportOuts" THEN -1 ELSE OpsLen(ops) + k - 1,
               <<t, outIndexOffset + kept[k] - 1>>, Owner(outs[kept[k]]))])

baseTxToCombinedOperations(t, tx) ==
    outsToOperations(insToOperations(newTxOps, tx), t, tx.outs, "Outs")

(* utxosToOperations, of the reward UTXOs of staking transaction t *)
utxosToOperations(ops, t) ==
    LET kept == Positions(rewards[t], Single)
    IN  AppendOps(ops, "StakeOuts", [k \in DOMAIN kept |->
            Op(OpsLen(ops) + k - 1,
               <<t, Len(txs[t].outs) + Len(txs[t].extra) + kept[k] - 1>>,
               Owner(rewards[t][kept[k]]))])

ParseFails(t) ==
    LET tx == txs[t]
    IN  \/ tx.kind \notin {"time", "reward"} /\ InputsFail(tx)
        \/ tx.kind = "reward" /\ txs[tx.ref].kind # "stake"

TxOpsWithRewards(t) ==
    IF txs[t].kind = "stake" THEN utxosToOperations(baseTxToCombinedOperations(t, txs[t]), t)
    ELSE IF txs[t].kind = "reward" THEN utxosToOperations(newTxOps, txs[t].ref)
    ELSE newTxOps

TxOps(t) ==
    LET tx == txs[t]
        combined == baseTxToCombinedOperations(t, tx)
    IN  CASE tx.kind = "time" -> newTxOps
          [] tx.kind = "reward" -> utxosToOperations(newTxOps, tx.ref)
          [] tx.kind = "stake" -> outsToOperations(combined, t, tx.extra, "StakeOuts")
          [] tx.kind = "export" -> outsToOperations(combined, t, tx.extra, "ExportOuts")
          [] tx.kind = "import" ->
                outsToOperations(
                    importsToOperations(insToOperations(newTxOps, tx), tx),
                    t, tx.outs, "Outs")
          [] OTHER -> combined

(* Parse: the operations, with the imported and exported ones, which go to *)
(* the metadata, numbered after those included                             *)
addOperationIdentifiersFromZero(ops, startIdx) ==
    [k \in DOMAIN ops |-> [ops[k] EXCEPT !.index = k - 1]]
addOperationIdentifiers(ops, startIdx) ==
    [k \in DOMAIN ops |-> [ops[k] EXCEPT !.index = startIdx + k - 1]]

Parse(t) ==
    LET ops == TxOps(t)
        included == IncludedOperations(ops)
    IN  [operations |-> included,
         spent |-> Len(ops.Ins),
         imported |-> addOperationIdentifiers(ops.ImportIns, Len(included)),
         exported |-> addOperationIdentifiers(ops.ExportOuts, Len(included) + Len(ops.ImportIns))]

-----------------------------------------------------------------------------
(* The client applies the coin changes of the next transaction. *)

CoinsOf(ops) == {[id |-> ops[k].id, account |-> ops[k].account] : k \in DOMAIN ops}
Ids(cs) == {c.id : c \in cs}
Repeated(ops) == {ops[i].id : i \in {i \in DOMAIN ops : \E j \in 1 .. i - 1 : ops[j].id = ops[i].id}}

Sync ==
    /\ synced < Len(txs)
    /\ ~ParseFails(synced + 1)
    /\ synced' = synced + 1
    /\ \E parsed \in {Parse(synced + 1)} :
       LET ops == parsed.operations
           spent == CoinsOf(SubSeq(ops, 1, parsed.spent))
           created == CoinsOf(SubSeq(ops, parsed.spent + 1, Len(ops)))
       IN  /\ coins' = (coins \ spent) \cup created
           /\ sent' = sent \cup CoinsOf(parsed.exported)
           /\ rejected' = rejected \cup Ids(spent \ coins)
                \cup (Ids(created) \cap Ids(coins)) \cup Repeated(ops)
    /\ UNCHANGED chainVars

-----------------------------------------------------------------------------
(* The chain accepts a transaction. *)

(* The node demands that inputs are sorted by identifier: by transaction,  *)
(* whose identifiers may have any order, and then by index.                *)
Ordered(id1, id2) == id1[1] # id2[1] \/ id1[2] < id2[2]

Inputs == {<<>>} \cup {<<u.id>> : u \in unspent}
    \cup {ins \in {<<u.id, v.id>> : u \in unspent, v \in unspent} : Ordered(ins[1], ins[2])}

Spend(ins) == {u \in unspent : \E i \in DOMAIN ins : ins[i] = u.id}
next == Len(txs) + 1

MayAccept == Len(txs) < MaxTxs /\ Len(txs) < synced + MaxLag

NewTx(kind, ins, imported, outs, extra, ref) ==
    txs' = Append(txs, [kind |-> kind, ins |-> ins, imported |-> imported,
                        outs |-> outs, extra |-> extra, ref |-> ref])

(* Types of transactions that are a BaseTx to the parser.  The execution   *)
(* of type l1 adds an output.                                              *)
PayBase ==
    \E kind \in {"base", "l1"}, ins \in Inputs \ {<<>>}, outs \in Outputs :
        /\ Len(ins) <= MaxIns
        /\ NewTx(kind, ins, 0, outs, <<>>, 0)
        /\ unspent' = (unspent \ Spend(ins)) \cup Numbered(next, outs, 0)
                \cup (IF kind = "l1" THEN Numbered(next, <<Refund>>, Len(outs)) ELSE {})
        /\ rewards' = Append(rewards, <<>>)
        /\ UNCHANGED <<staking, exported, clientVars>>

(* An import may spend outputs of the P-chain too. *)
Import ==
    \E ins \in Inputs, outs \in Outputs :
        /\ Len(ins) <= MaxIns
        /\ NewTx("import", ins, 1, outs, <<>>, 0)
        /\ unspent' = (unspent \ Spend(ins)) \cup Numbered(next, outs, 0)
        /\ rewards' = Append(rewards, <<>>)
        /\ UNCHANGED <<staking, exported, clientVars>>

(* Validators and delegators of the primary network, and exports *)
StakeOrExport ==
    \E kind \in {"stake", "export"}, ins \in Inputs \ {<<>>} :
    \E outs \in Outputs, extra \in Extras :
        /\ Len(ins) <= MaxIns
        /\ NewTx(kind, ins, 0, outs, extra, 0)
        /\ unspent' = (unspent \ Spend(ins)) \cup Numbered(next, outs, 0)
        /\ staking' = staking \cup (IF kind = "stake" THEN {next} ELSE {})
        /\ exported' = exported
                \cup (IF kind = "export" THEN Numbered(next, extra, Len(outs)) ELSE {})
        /\ rewards' = Append(rewards, <<>>)
        /\ UNCHANGED clientVars

(* The end of a staking, with or without a reward *)
Stake(t) == Numbered(t, txs[t].extra, Len(txs[t].outs))

Reward ==
    \E t \in staking, outs \in Extras \cup {<<>>} :
        /\ NewTx("reward", <<>>, 0, <<>>, <<>>, t)
        /\ unspent' = unspent \cup Stake(t)
                \cup Numbered(t, outs, Len(txs[t].outs) + Len(txs[t].extra))
        /\ staking' = staking \ {t}
        /\ rewards' = Append([rewards EXCEPT ![t] = outs], <<>>)
        /\ UNCHANGED <<exported, clientVars>>

AdvanceTime ==
    /\ NewTx("time", <<>>, 0, <<>>, <<>>, 0)
    /\ rewards' = Append(rewards, <<>>)
    /\ UNCHANGED <<unspent, staking, exported, clientVars>>

(* buildGenesisAllocationTx: outputs of an import transaction *)
Init ==
    /\ \E outs \in Outputs :
        /\ txs = <<[kind |-> "import", ins |-> <<>>, imported |-> 0,
                    outs |-> outs, extra |-> <<>>, ref |-> 0]>>
        /\ unspent = Numbered(1, outs, 0)
    /\ staking = {}
    /\ rewards = <<<<>>>>
    /\ exported = {}
    /\ synced = 0
    /\ coins = {}
    /\ sent = {}
    /\ rejected = {}

Next ==
    \/ MayAccept /\ (PayBase \/ Import \/ StakeOrExport \/ Reward \/ AdvanceTime)
    \/ Sync

Spec == Init /\ [][Next]_vars

-----------------------------------------------------------------------------
TypeOK ==
    /\ txs \in Seq(Tx)
    /\ Len(txs) \in 1 .. MaxTxs
    /\ unspent \subseteq [id : UTXOID, addrs : Output]
    /\ staking \subseteq DOMAIN txs
    /\ rewards \in Seq(Seq(Output))
    /\ exported \subseteq [id : UTXOID, addrs : Output]
    /\ synced \in 0 .. Len(txs)
    /\ coins \subseteq [id : UTXOID, account : Addr]
    /\ sent \subseteq [id : UTXOID, account : Addr]
    /\ rejected \subseteq UTXOID

(* Transactions whose stake or exports follow an output without a single   *)
(* address: OutputLen counts operations, not outputs, and their coin       *)
(* identifiers are shifted.                                                *)
Shifted == {t \in DOMAIN txs : /\ txs[t].kind \in {"stake", "export"}
                               /\ \E i \in DOMAIN txs[t].outs : ~Single(txs[t].outs[i])}

(* Outputs the network creates are in no transaction and become no coin. *)
Refunds == {u \in unspent : txs[u.id[1]].kind = "l1" /\ u.id[2] = Len(txs[u.id[1]].outs)}

ToCoins(us) == {Coin(u) : u \in {u \in us : Single(u.addrs) /\ u.id[1] \notin Shifted}}
Unshifted(cs) == {c \in cs : c.id[1] \notin Shifted}

(* Every transaction the chain accepts can be parsed: each of its inputs   *)
(* is found among the outputs of its dependencies or known to be skipped.  *)
EveryTransactionParses == \A t \in synced + 1 .. Len(txs) : ~ParseFails(t)

(* A client that has read the whole chain holds exactly the single-owner   *)
(* outputs that are unspent or staked, under the identifiers by which they *)
(* will be spent and with their owners; the same for shared memory.        *)
CoinsMatchLedger ==
    synced = Len(txs) =>
        /\ Unshifted(coins) = ToCoins((unspent \ Refunds) \cup UNION {Stake(t) : t \in staking})
        /\ Unshifted(sent) = ToCoins(exported)

(* No operation spends a coin that was not created, by another account, or *)
(* before, nor creates one twice.                                          *)
CoinChangesApply == \A id \in rejected : id[1] \in Shifted

(* The operations of a transaction, with those in its metadata, are        *)
(* numbered without gaps or repetitions.                                   *)
OperationsNumbered ==
    \A t \in synced + 1 .. Len(txs) : ~ParseFails(t) =>
        LET parsed == Parse(t)
            all == parsed.operations \o parsed.imported \o parsed.exported
        IN  \A k \in DOMAIN all : all[k].index = k - 1

(* The operations of a transaction are the same whenever its block is      *)
(* asked for, though the end of a staking adds reward outputs to its       *)
(* dependencies or to itself after it was accepted.                        *)
RewardsAdded == SubSeq(rewards', 1, Len(rewards)) # rewards
OperationsNeverChange ==
    [][RewardsAdded => \A t \in DOMAIN txs : TxOps(t)' = TxOps(t)]_chainVars

(* Outputs of several owners are left out of the operations "in order to   *)
(* pass data validation": every coin change can be applied.  (It cannot    *)
(* when such an output precedes a staked one.)                             *)
DataValidationPasses == rejected = {}

=============================================================================
