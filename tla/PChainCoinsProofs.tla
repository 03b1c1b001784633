-------------------------- MODULE PChainCoinsProofs --------------------------
(***************************************************************************)
(* Proofs about PChainCoins, for any addresses, outputs and number of      *)
(* transactions, and a client any number of transactions behind.           *)
(***************************************************************************)
EXTENDS PChainCoins, InductionLemmas

-----------------------------------------------------------------------------
(* The inductive invariant *)

(* The end of staking t is among the first n transactions. *)
Ended(t, n) == \E m \in 1 .. n : txs[m].kind = "reward" /\ txs[m].ref = t

(* What transaction t has created when n transactions are in the chain,    *)
(* the outputs staked with it among them                                   *)
RewardedTo(t) == Numbered(t, rewards[t], Len(txs[t].outs) + Len(txs[t].extra))
StakedBy(t) == IF txs[t].kind = "stake" THEN Stake(t) ELSE {}
ExportedBy(t) == IF txs[t].kind = "export" THEN Stake(t) ELSE {}
RefundedBy(t) == IF txs[t].kind = "l1" THEN Numbered(t, <<Refund>>, Len(txs[t].outs)) ELSE {}

CreatedBy(t, n) ==
    Numbered(t, txs[t].outs, 0)
    \cup StakedBy(t)
    \cup (IF Ended(t, n) THEN RewardedTo(t) ELSE {})

(* What the first n transactions have created, exported and spent *)
Created(n) == UNION {CreatedBy(t, n) : t \in 1 .. n}
Refunded(n) == UNION {RefundedBy(t) : t \in 1 .. n}
Exported(n) == UNION {ExportedBy(t) : t \in 1 .. n}
InputIds(t) == {txs[t].ins[i] : i \in DOMAIN txs[t].ins}
SpentIds(n) == UNION {InputIds(t) : t \in 1 .. n}
Staked == UNION {Stake(t) : t \in staking}

(* A reward transaction ends a staking before it, which no other one does; *)
(* a transaction has rewards only when it has been ended.  Transactions of *)
(* the network itself have no outputs.                                     *)
RewardsInv ==
    /\ Len(rewards) = Len(txs)
    /\ \A t \in DOMAIN txs : txs[t].kind \in {"time", "reward"} =>
            txs[t].ins = <<>> /\ txs[t].outs = <<>>
    /\ \A t \in DOMAIN txs : txs[t].kind = "reward" =>
            txs[t].ref \in 1 .. t - 1 /\ txs[txs[t].ref].kind = "stake"
    /\ \A t, m \in DOMAIN txs :
            txs[t].kind = "reward" /\ txs[m].kind = "reward" /\ txs[t].ref = txs[m].ref => t = m
    /\ \A t \in DOMAIN txs : rewards[t] # <<>> => Ended(t, Len(txs))
    /\ staking = {t \in DOMAIN txs : txs[t].kind = "stake" /\ ~Ended(t, Len(txs))}

(* A transaction spends outputs that those before it created and did not   *)
(* spend, each once.                                                       *)
InputsInv ==
    \A t \in DOMAIN txs :
        /\ \A id \in InputIds(t) :
            /\ \E u \in Created(t - 1) \cup Refunded(t - 1) : u.id = id
            /\ id \notin SpentIds(t - 1)
        /\ \A i, j \in DOMAIN txs[t].ins : txs[t].ins[i] = txs[t].ins[j] => i = j

(* The ledger is what the transactions make of it. *)
LedgerInv ==
    /\ unspent = {u \in Created(Len(txs)) \cup Refunded(Len(txs)) :
                    u.id \notin SpentIds(Len(txs)) /\ u \notin Staked}
    /\ \A u \in Staked : u.id \notin SpentIds(Len(txs))
    /\ exported = Exported(Len(txs))

(* The client holds what the transactions it has read make of it. *)
ClientInv ==
    /\ \A c \in coins \cup sent : c.id[1] \in 1 .. synced
    /\ Unshifted(coins) = ToCoins({u \in Created(synced) : u.id \notin SpentIds(synced)})
    /\ Unshifted(sent) = ToCoins(Exported(synced))
    /\ \A id \in rejected : id[1] \in Shifted

IInv == TypeOK /\ RewardsInv /\ InputsInv /\ LedgerInv /\ ClientInv

-----------------------------------------------------------------------------
(* Positions of a sequence that pass a test *)

LEMMA KeptIndices ==
  ASSUME NEW n \in Nat, NEW S \in SUBSET (1 .. n)
  PROVE  \A k \in DOMAIN Increasing(S) : k \in 1 .. n /\ Increasing(S)[k] \in S
  <1>1. PICK m \in 0 .. n :
            /\ DOMAIN Increasing(S) = 1 .. m
            /\ \A k \in 1 .. m : Increasing(S)[k] \in S
            /\ \A k, l \in 1 .. m : Increasing(S)[k] = Increasing(S)[l] => k = l
            /\ \A x \in S : \E k \in 1 .. m : Increasing(S)[k] = x
            /\ S = 1 .. n => m = n
    BY KeptPositions
  <1>2. QED
    BY <1>1

-----------------------------------------------------------------------------
(* Outputs and their identifiers *)

TxsOK == txs \in Seq(Tx) /\ rewards \in Seq(Seq(Output)) /\ RewardsInv

LEMMA Lengths ==
  ASSUME NEW T, NEW r \in Seq(T), NEW s \in Seq(T)
  PROVE  Len(r) \in Nat /\ Len(s) \in Nat /\ Len(r) + Len(s) \in Nat
  OBVIOUS

LEMMA RefundIsOutput == <<Refund>> \in Seq(Output)
  BY ConstantsAssumption

LEMMA TxFacts ==
  ASSUME TxsOK, NEW t \in DOMAIN txs
  PROVE  /\ t \in 1 .. Len(txs) /\ Len(txs) \in Nat /\ DOMAIN txs = 1 .. Len(txs)
         /\ DOMAIN rewards = 1 .. Len(txs)
         /\ txs[t] \in Tx /\ txs[t].kind \in Kind
         /\ txs[t].ins \in Seq(UTXOID) /\ txs[t].imported \in Nat
         /\ txs[t].outs \in Seq(Output) /\ Len(txs[t].outs) \in Nat
         /\ txs[t].extra \in Seq(Output) /\ Len(txs[t].extra) \in Nat
         /\ Len(txs[t].outs) + Len(txs[t].extra) \in Nat
         /\ rewards[t] \in Seq(Output) /\ Len(rewards[t]) \in Nat
  <1>1. txs \in Seq(Tx) /\ rewards \in Seq(Seq(Output)) /\ Len(rewards) = Len(txs)
    BY DEF TxsOK, RewardsInv
  <1>2. t \in 1 .. Len(txs) /\ Len(txs) \in Nat /\ DOMAIN txs = 1 .. Len(txs) /\ DOMAIN rewards = 1 .. Len(txs)
    BY <1>1
  <1>3. txs[t] \in Tx /\ rewards[t] \in Seq(Output)
    BY <1>1, <1>2
  <1>4. /\ txs[t].outs \in Seq(Output) /\ txs[t].extra \in Seq(Output)
        /\ txs[t].ins \in Seq(UTXOID) /\ txs[t].imported \in Nat /\ txs[t].kind \in Kind
    BY <1>3 DEF Tx
  <1>5. Len(txs[t].outs) \in Nat /\ Len(txs[t].extra) \in Nat /\ Len(txs[t].outs) + Len(txs[t].extra) \in Nat
    BY <1>4, Lengths
  <1>6. Len(rewards[t]) \in Nat
    BY <1>3, Lengths
  <1>7. QED
    BY <1>2, <1>3, <1>4, <1>5, <1>6

(* u is one of outputs s, numbered from from *)
IsAt(u, t, s, from) ==
    /\ u.id[1] = t /\ u.id[2] \in Nat /\ u.id = <<t, u.id[2]>>
    /\ from <= u.id[2] /\ u.id[2] < from + Len(s)
    /\ u = [id |-> u.id, addrs |-> u.addrs] /\ u.addrs \in Output
    /\ u.addrs = s[u.id[2] - from + 1]

LEMMA NumberedFacts ==
  ASSUME NEW t, NEW s \in Seq(Output), NEW from \in Nat
  PROVE  \A u \in Numbered(t, s, from) : IsAt(u, t, s, from)
  <1> SUFFICES ASSUME NEW u \in Numbered(t, s, from) PROVE IsAt(u, t, s, from)
    OBVIOUS
  <1>1. PICK i \in 1 .. Len(s) : u = [id |-> <<t, from + i - 1>>, addrs |-> s[i]]
    BY DEF Numbered
  <1>2. u.id = <<t, from + i - 1>> /\ u.id[1] = t /\ u.id[2] = from + i - 1 /\ u.addrs = s[i]
    BY <1>1
  <1>3. from + i - 1 \in Nat /\ from <= from + i - 1 /\ from + i - 1 < from + Len(s) /\ i = (from + i - 1) - from + 1
    OBVIOUS
  <1>4. s[i] \in Output
    OBVIOUS
  <1>5. u = [id |-> u.id, addrs |-> u.addrs]
    BY <1>1
  <1>6. QED
    BY <1>2, <1>3, <1>4, <1>5 DEF IsAt

LEMMA SameNumber ==
  ASSUME NEW t, NEW s, NEW from, NEW u, NEW v, IsAt(u, t, s, from), IsAt(v, t, s, from), u.id = v.id
  PROVE  u = v
  <1>1. u.addrs = v.addrs
    BY DEF IsAt
  <1>2. u = [id |-> u.id, addrs |-> u.addrs] /\ v = [id |-> v.id, addrs |-> v.addrs]
    BY DEF IsAt
  <1>3. QED
    BY <1>1, <1>2

LEMMA OtherNumber ==
  ASSUME NEW t, NEW r, NEW s, NEW from \in Nat, NEW after \in Nat, Len(r) \in Nat, from + Len(r) <= after,
         NEW u, NEW v, IsAt(u, t, r, from), IsAt(v, t, s, after)
  PROVE  u.id # v.id
  <1>1. u.id[2] \in Nat /\ u.id[2] < from + Len(r) /\ v.id[2] \in Nat /\ after <= v.id[2]
    BY DEF IsAt
  <1>2. u.id[2] # v.id[2]
    BY <1>1
  <1>3. QED
    BY <1>2

(* The outputs of a transaction *)
IsOutputOf(u, t) ==
    /\ u.id[1] = t /\ u.id[2] \in Nat /\ u.id = <<t, u.id[2]>>
    /\ u.addrs \in Output /\ u = [id |-> u.id, addrs |-> u.addrs]

LEMMA CreatedFacts ==
  ASSUME TxsOK, NEW t \in DOMAIN txs, NEW n
  PROVE  \A u \in CreatedBy(t, n) \cup RefundedBy(t) \cup ExportedBy(t) \cup RewardedTo(t) \cup Stake(t) :
            IsOutputOf(u, t)
  <1>0. /\ txs[t].outs \in Seq(Output) /\ Len(txs[t].outs) \in Nat
        /\ txs[t].extra \in Seq(Output) /\ Len(txs[t].extra) \in Nat
        /\ rewards[t] \in Seq(Output) /\ <<Refund>> \in Seq(Output)
    BY TxFacts, RefundIsOutput
  <1>1. \A u \in Numbered(t, txs[t].outs, 0) : IsOutputOf(u, t)
    <2>1. \A u \in Numbered(t, txs[t].outs, 0) : IsAt(u, t, txs[t].outs, 0)
      BY <1>0, NumberedFacts
    <2>2. QED
      BY <2>1 DEF IsAt, IsOutputOf
  <1>2. \A u \in Stake(t) : IsOutputOf(u, t)
    <2>1. \A u \in Stake(t) : IsAt(u, t, txs[t].extra, Len(txs[t].outs))
      BY <1>0, NumberedFacts DEF Stake
    <2>2. QED
      BY <2>1 DEF IsAt, IsOutputOf
  <1>3. \A u \in RewardedTo(t) : IsOutputOf(u, t)
    <2>0. Len(txs[t].outs) + Len(txs[t].extra) \in Nat
      BY TxFacts
    <2>1. \A u \in RewardedTo(t) : IsAt(u, t, rewards[t], Len(txs[t].outs) + Len(txs[t].extra))
      BY <1>0, <2>0, NumberedFacts DEF RewardedTo
    <2>2. QED
      BY <2>1 DEF IsAt, IsOutputOf
  <1>4. \A u \in RefundedBy(t) : IsOutputOf(u, t)
    <2>1. \A u \in RefundedBy(t) : IsAt(u, t, <<Refund>>, Len(txs[t].outs))
      BY <1>0, NumberedFacts DEF RefundedBy
    <2>2. QED
      BY <2>1 DEF IsAt, IsOutputOf
  <1>5. QED
    BY <1>1, <1>2, <1>3, <1>4 DEF CreatedBy, StakedBy, ExportedBy

(* Rewards of a transaction that is no staking *)
LEMMA NoRewards ==
  ASSUME TxsOK, NEW t \in DOMAIN txs, txs[t].kind # "stake"
  PROVE  /\ rewards[t] = <<>> /\ RewardedTo(t) = {}
         /\ \A n \in 0 .. Len(txs) : ~Ended(t, n)
  <1>0. Len(txs) \in Nat /\ DOMAIN txs = 1 .. Len(txs)
    BY TxFacts
  <1>1. ASSUME NEW n \in 0 .. Len(txs), Ended(t, n) PROVE FALSE
    <2>1. PICK m \in 1 .. n : txs[m].kind = "reward" /\ txs[m].ref = t
      BY <1>1 DEF Ended
    <2>2. m \in DOMAIN txs
      BY <1>0
    <2>3. QED
      BY <2>1, <2>2 DEF TxsOK, RewardsInv
  <1>2. rewards[t] = <<>>
    BY <1>0, <1>1 DEF TxsOK, RewardsInv
  <1>3. RewardedTo(t) = {}
    BY <1>2 DEF RewardedTo, Numbered
  <1>4. QED
    BY <1>1, <1>2, <1>3

(* An identifier names one output. *)
LEMMA UniqueOutput ==
  ASSUME TxsOK, NEW t \in DOMAIN txs, NEW n \in Nat, NEW u \in CreatedBy(t, n) \cup RefundedBy(t),
         NEW v \in CreatedBy(t, n) \cup RefundedBy(t) \cup RewardedTo(t), u.id = v.id
  PROVE  u = v
  <1> DEFINE o == Len(txs[t].outs)
             e == Len(txs[t].extra)
             A == Numbered(t, txs[t].outs, 0)
             B == Numbered(t, txs[t].extra, o)
             C == Numbered(t, rewards[t], o + e)
             D == Numbered(t, <<Refund>>, o)
  <1>0. /\ txs[t].outs \in Seq(Output) /\ o \in Nat
        /\ txs[t].extra \in Seq(Output) /\ e \in Nat
        /\ rewards[t] \in Seq(Output) /\ <<Refund>> \in Seq(Output)
        /\ o + e \in Nat
    BY TxFacts, RefundIsOutput
  <1>1. \A x \in A : IsAt(x, t, txs[t].outs, 0)
    BY <1>0, NumberedFacts
  <1>2. \A x \in B : IsAt(x, t, txs[t].extra, o)
    BY <1>0, NumberedFacts
  <1>3. \A x \in C : IsAt(x, t, rewards[t], o + e)
    BY <1>0, NumberedFacts
  <1>4. \A x \in D : IsAt(x, t, <<Refund>>, o)
    BY <1>0, NumberedFacts
  <1>bounds. 0 + o <= o /\ 0 + o <= o + e /\ o + e <= o + e
    <2> HIDE DEF o, e
    <2>1. QED
      BY <1>0
  <1>5. ASSUME NEW x \in A, NEW y \in B \cup C \cup D PROVE x.id # y.id
    <2> HIDE DEF A, B, C, D
    <2>2. IsAt(x, t, txs[t].outs, 0)
      BY <1>1
    <2>3. CASE y \in B
      BY <1>0, <1>2, <1>bounds, <2>2, <2>3, OtherNumber
    <2>4. CASE y \in C
      BY <1>0, <1>3, <1>bounds, <2>2, <2>4, OtherNumber
    <2>5. CASE y \in D
      BY <1>0, <1>4, <1>bounds, <2>2, <2>5, OtherNumber
    <2>6. QED
      BY <2>3, <2>4, <2>5
  <1>6. ASSUME NEW x \in B, NEW y \in C PROVE x.id # y.id
    <2> HIDE DEF A, B, C, D
    <2>1. IsAt(x, t, txs[t].extra, o) /\ IsAt(y, t, rewards[t], o + e)
      BY <1>0, <1>2, <1>3
    <2>2. QED
      BY <1>0, <1>bounds, <2>1, OtherNumber
  <1>7. \A x, y \in A : x.id = y.id => x = y
    BY <1>1, SameNumber
  <1>8. \A x, y \in B : x.id = y.id => x = y
    BY <1>2, SameNumber
  <1>9. \A x, y \in C : x.id = y.id => x = y
    BY <1>3, SameNumber
  <1>10. \A x, y \in D : x.id = y.id => x = y
    BY <1>4, SameNumber
  <1>11. CASE txs[t].kind = "stake"
    <2>1. u \in A \cup B \cup C /\ v \in A \cup B \cup C
      BY <1>11 DEF CreatedBy, RefundedBy, RewardedTo, StakedBy, Stake
    <2> HIDE DEF A, B, C, D, o, e
    <2>2. QED
      BY <2>1, <1>5, <1>6, <1>7, <1>8, <1>9
  <1>12. CASE txs[t].kind # "stake"
    <2>0. RewardedTo(t) = {}
      BY <1>12, NoRewards
    <2>1. u \in A \cup D /\ v \in A \cup D
      BY <1>12, <2>0 DEF CreatedBy, RefundedBy, StakedBy
    <2> HIDE DEF A, B, C, D, o, e
    <2>2. QED
      BY <2>1, <1>5, <1>7, <1>10
  <1>13. QED
    BY <1>11, <1>12

-----------------------------------------------------------------------------
(* What the parser finds for an input *)

LEMMA CreatedIn ==
  ASSUME TxsOK, NEW n \in 0 .. Len(txs), NEW u \in Created(n) \cup Refunded(n)
  PROVE  /\ u.id[1] \in 1 .. n /\ u.id[1] \in DOMAIN txs
         /\ IsOutputOf(u, u.id[1])
         /\ u \in Created(n) => u \in CreatedBy(u.id[1], n)
         /\ u \in Refunded(n) => u \in RefundedBy(u.id[1])
  <1>0. Len(txs) \in Nat /\ DOMAIN txs = 1 .. Len(txs)
    BY DEF TxsOK
  <1>1. \A t \in 1 .. n : t \in DOMAIN txs
    BY <1>0
  <1>2. ASSUME NEW t \in 1 .. n, NEW v \in CreatedBy(t, n) \cup RefundedBy(t) PROVE v.id[1] = t /\ IsOutputOf(v, t)
    <2>1. IsOutputOf(v, t)
      BY <1>1, CreatedFacts
    <2>2. QED
      BY <2>1 DEF IsOutputOf
  <1>3. ASSUME u \in Created(n)
        PROVE  u.id[1] \in 1 .. n /\ u \in CreatedBy(u.id[1], n) /\ IsOutputOf(u, u.id[1])
    <2>1. PICK t \in 1 .. n : u \in CreatedBy(t, n)
      BY <1>3 DEF Created
    <2>2. u.id[1] = t
      BY <1>2, <2>1
    <2>3. QED
      BY <1>2, <2>1, <2>2
  <1>4. ASSUME u \in Refunded(n)
        PROVE  u.id[1] \in 1 .. n /\ u \in RefundedBy(u.id[1]) /\ IsOutputOf(u, u.id[1])
    <2>1. PICK t \in 1 .. n : u \in RefundedBy(t)
      BY <1>4 DEF Refunded
    <2>2. u.id[1] = t
      BY <1>2, <2>1
    <2>3. QED
      BY <1>2, <2>1, <2>2
  <1>5. QED
    BY <1>1, <1>3, <1>4

(* An identifier names one of all outputs. *)
LEMMA UniqueCreated ==
  ASSUME TxsOK, NEW n \in 0 .. Len(txs), NEW u \in Created(n) \cup Refunded(n),
         NEW v \in Created(n) \cup Refunded(n), u.id = v.id
  PROVE  u = v
  <1> DEFINE t == u.id[1]
  <1>1. t \in DOMAIN txs /\ u \in CreatedBy(t, n) \cup RefundedBy(t)
    BY CreatedIn
  <1>2. v \in CreatedBy(v.id[1], n) \cup RefundedBy(v.id[1])
    BY CreatedIn
  <1>3. v \in CreatedBy(t, n) \cup RefundedBy(t) \cup RewardedTo(t)
    BY <1>2
  <1>4. n \in Nat
    OBVIOUS
  <1> HIDE DEF t
  <1>5. QED
    BY <1>1, <1>3, <1>4, UniqueOutput

LEMMA UtxosFacts ==
  ASSUME TxsOK, NEW t \in DOMAIN txs
  PROVE  /\ \A n : GetUtxos(t) \subseteq CreatedBy(t, n) \cup RewardedTo(t)
         /\ \A n : CreatedBy(t, n) \subseteq GetUtxos(t)
         /\ \A v \in GetUtxos(t) : IsOutputOf(v, t)
         /\ txs[t].kind # "stake" => GetUtxos(t) = Numbered(t, txs[t].outs, 0)
  <1>1. /\ \A n : GetUtxos(t) \subseteq CreatedBy(t, n) \cup RewardedTo(t)
        /\ \A n : CreatedBy(t, n) \subseteq GetUtxos(t)
    BY DEF GetUtxos, CreatedBy, RewardedTo, StakedBy, Stake
  <1>2. \A v \in GetUtxos(t) : IsOutputOf(v, t)
    BY <1>1, CreatedFacts
  <1>3. txs[t].kind # "stake" => GetUtxos(t) = Numbered(t, txs[t].outs, 0)
    BY NoRewards DEF GetUtxos, RewardedTo
  <1>4. QED
    BY <1>1, <1>2, <1>3

Looked(t) == txs[t].kind \notin {"time", "reward"}

LEMMA InputResolves ==
  ASSUME TxsOK, InputsInv, NEW t \in DOMAIN txs, Looked(t), NEW id \in InputIds(t),
         NEW deps, deps = GetTxDependenciesIDs(txs[t])
  PROVE  /\ id[1] \in deps /\ id[1] \in 1 .. t - 1
         /\ \/ \E u \in Created(t - 1) : u.id = id /\ UTXOsAt(deps, id) = {u}
            \/ /\ UTXOsAt(deps, id) = {} /\ txs[id[1]].kind = "l1"
               /\ \A u \in Created(t - 1) : u.id # id
  <1>0. Len(txs) \in Nat /\ DOMAIN txs = 1 .. Len(txs) /\ t - 1 \in 0 .. Len(txs)
    BY DEF TxsOK
  <1>1. deps = InputTxs(txs[t])
    BY DEF GetTxDependenciesIDs, Looked
  <1>2. PICK u \in Created(t - 1) \cup Refunded(t - 1) : u.id = id
    BY DEF InputsInv
  <1> DEFINE s == id[1]
  <1>3. /\ s \in 1 .. t - 1 /\ s \in DOMAIN txs
        /\ u \in Created(t - 1) => u \in CreatedBy(s, t - 1)
        /\ u \in Refunded(t - 1) => u \in RefundedBy(s)
    BY <1>0, <1>2, CreatedIn
  <1>4. s \in deps
    BY <1>1 DEF InputTxs, InputIds
  <1>5. deps \subseteq DOMAIN txs
    <2> SUFFICES ASSUME NEW d \in deps PROVE d \in DOMAIN txs
      OBVIOUS
    <2>1. PICK jd \in InputIds(t) : d = jd[1]
      BY <1>1 DEF InputTxs, InputIds
    <2>2. PICK w \in Created(t - 1) \cup Refunded(t - 1) : w.id = jd
      BY DEF InputsInv
    <2>3. QED
      BY <1>0, <2>1, <2>2, CreatedIn
  <1>6. UTXOsAt(deps, id) = {v \in GetUtxos(s) : v.id = id}
    <2>1. ASSUME NEW d \in deps, NEW v \in GetUtxos(d), v.id = id PROVE d = s
      <3>1. IsOutputOf(v, d)
        BY <1>5, UtxosFacts
      <3>2. QED
        BY <2>1, <3>1 DEF IsOutputOf
    <2>2. QED
      BY <1>4, <2>1 DEF UTXOsAt
  <1> HIDE DEF s
  <1>7. CASE u \in Created(t - 1)
    <2>1. u \in GetUtxos(s)
      BY <1>3, <1>7, UtxosFacts
    <2>2. ASSUME NEW v \in GetUtxos(s), v.id = id PROVE v = u
      <3>1. u \in CreatedBy(s, t - 1) \cup RefundedBy(s)
        BY <1>3, <1>7
      <3>2. v \in CreatedBy(s, t - 1) \cup RefundedBy(s) \cup RewardedTo(s)
        BY <1>3, UtxosFacts
      <3>3. u.id = v.id /\ t - 1 \in Nat
        BY <1>0, <1>2, <2>2
      <3>4. QED
        BY <1>3, <3>1, <3>2, <3>3, UniqueOutput
    <2>3. UTXOsAt(deps, id) = {u}
      BY <1>2, <1>6, <2>1, <2>2
    <2>4. QED
      BY <1>2, <1>3, <1>4, <1>7, <2>3 DEF s
  <1>8. CASE u \in Refunded(t - 1)
    <2>1. u \in RefundedBy(s)
      BY <1>3, <1>8
    <2>2. txs[s].kind = "l1" /\ u \in Numbered(s, <<Refund>>, Len(txs[s].outs))
      BY <2>1 DEF RefundedBy
    <2>3. GetUtxos(s) = Numbered(s, txs[s].outs, 0)
      BY <1>3, <2>2, UtxosFacts
    <2>4. txs[s].outs \in Seq(Output) /\ Len(txs[s].outs) \in Nat
      BY <1>3, TxFacts
    <2>5. IsAt(u, s, <<Refund>>, Len(txs[s].outs))
      BY <2>2, <2>4, NumberedFacts, RefundIsOutput
    <2>6. 0 + Len(txs[s].outs) <= Len(txs[s].outs)
      BY <2>4
    <2>7. ASSUME NEW v \in GetUtxos(s) PROVE v.id # u.id
      <3>1. IsAt(v, s, txs[s].outs, 0)
        BY <2>3, <2>4, NumberedFacts
      <3>2. QED
        BY <2>4, <2>5, <2>6, <3>1, OtherNumber
    <2>8. UTXOsAt(deps, id) = {}
      BY <1>2, <1>6, <2>7
    <2>9. ASSUME NEW w \in Created(t - 1), w.id = id PROVE FALSE
      <3>1. w \in CreatedBy(s, t - 1)
        BY <1>0, <2>9, CreatedIn DEF s
      <3>2. w \in GetUtxos(s)
        BY <1>3, <3>1, UtxosFacts
      <3>3. QED
        BY <1>2, <2>7, <2>9, <3>2
    <2>10. QED
      BY <1>3, <1>4, <2>2, <2>8, <2>9 DEF s
  <1>9. QED
    BY <1>2, <1>7, <1>8

(* The single-owner output an input spends, and whose it is *)
LEMMA InputIs ==
  ASSUME TxsOK, InputsInv, NEW t \in DOMAIN txs, Looked(t), NEW id \in InputIds(t),
         NEW deps, deps = GetTxDependenciesIDs(txs[t])
  PROVE  /\ isMultisig(deps, id) <=> ~\E u \in Created(t - 1) : u.id = id /\ Single(u.addrs)
         /\ \A u \in Created(t - 1) : u.id = id /\ Single(u.addrs) =>
                /\ Coin(u) \in GetReferencedAccounts(deps)
                /\ \A c \in GetReferencedAccounts(deps) : c.id = id => c = Coin(u)
  <1>1. /\ id[1] \in deps
        /\ \/ \E u \in Created(t - 1) : u.id = id /\ UTXOsAt(deps, id) = {u}
           \/ /\ UTXOsAt(deps, id) = {} /\ txs[id[1]].kind = "l1"
              /\ \A u \in Created(t - 1) : u.id # id
    BY InputResolves
  <1>2. CASE \E u \in Created(t - 1) : u.id = id /\ UTXOsAt(deps, id) = {u}
    <2>1. PICK u \in Created(t - 1) : u.id = id /\ UTXOsAt(deps, id) = {u}
      BY <1>2
    <2>2. ASSUME NEW v \in Created(t - 1), v.id = id PROVE v = u
      <3>1. t - 1 \in 0 .. Len(txs)
        BY DEF TxsOK
      <3>2. QED
        BY <2>1, <2>2, <3>1, UniqueCreated
    <2>3. isMultisig(deps, id) <=> ~Single(u.addrs)
      BY <2>1 DEF isMultisig
    <2>4. ASSUME Single(u.addrs) PROVE Coin(u) \in GetReferencedAccounts(deps)
      BY <2>1, <2>4 DEF UTXOsAt, GetReferencedAccounts
    <2>5. ASSUME NEW c \in GetReferencedAccounts(deps), c.id = id PROVE c = Coin(u)
      <3>1. PICK v \in UNION {GetUtxos(d) : d \in deps} : c = Coin(v)
        BY DEF GetReferencedAccounts
      <3>2. v.id = id
        BY <2>5, <3>1 DEF Coin
      <3>3. v \in UTXOsAt(deps, id)
        BY <3>1, <3>2 DEF UTXOsAt
      <3>4. QED
        BY <2>1, <3>1, <3>3
    <2>6. QED
      BY <2>1, <2>2, <2>3, <2>4, <2>5
  <1>3. CASE /\ UTXOsAt(deps, id) = {} /\ txs[id[1]].kind = "l1"
             /\ \A u \in Created(t - 1) : u.id # id
    BY <1>1, <1>3 DEF isMultisig
  <1>4. QED
    BY <1>1, <1>2, <1>3

(* EveryTransactionParses, for any transaction of the chain *)
LEMMA NothingFails ==
  ASSUME TxsOK, InputsInv, NEW t \in DOMAIN txs
  PROVE  ~ParseFails(t)
  <1> SUFFICES ASSUME ParseFails(t) PROVE FALSE
    OBVIOUS
  <1>1. CASE txs[t].kind \notin {"time", "reward"} /\ InputsFail(txs[t])
    <2> DEFINE deps == GetTxDependenciesIDs(txs[t])
    <2>1. PICK i \in DOMAIN txs[t].ins :
            /\ ~isMultisig(deps, txs[t].ins[i])
            /\ txs[t].ins[i] \notin {c.id : c \in GetReferencedAccounts(deps)}
      BY <1>1 DEF InputsFail
    <2> DEFINE id == txs[t].ins[i]
    <2>2. id \in InputIds(t) /\ Looked(t)
      BY <1>1 DEF InputIds, Looked
    <2> HIDE DEF deps, id
    <2>3. PICK u \in Created(t - 1) : u.id = id /\ Single(u.addrs) /\ Coin(u) \in GetReferencedAccounts(deps)
      BY <2>1, <2>2, InputIs DEF deps, id
    <2>4. Coin(u).id = id
      BY <2>3 DEF Coin
    <2>5. QED
      BY <2>1, <2>3, <2>4 DEF id
  <1>2. CASE txs[t].kind = "reward" /\ txs[txs[t].ref].kind # "stake"
    BY <1>2 DEF TxsOK, RewardsInv
  <1>3. QED
    BY <1>1, <1>2 DEF ParseFails

-----------------------------------------------------------------------------
(* The operations of the parts of a transaction *)

OpType == [index : Int, id : Int \X Int, account : Addr \cup {"none"}]

DistinctIds(s) == \A k, l \in DOMAIN s : s[k].id = s[l].id => k = l
IndexedFrom(s, from) == \A k \in DOMAIN s : s[k].index = from + k - 1

(* s: one operation for each of the coins cs *)
IsOps(s, cs) == s \in Seq(OpType) /\ CoinsOf(s) = cs /\ DistinctIds(s)

SingleCoins(us) == {Coin(u) : u \in {u \in us : Single(u.addrs)}}
SpentCoins(t) == SingleCoins({u \in Created(t - 1) : u.id \in InputIds(t)})

LEMMA SingleOwner ==
  ASSUME NEW addrs \in Output, Single(addrs)
  PROVE  Owner(addrs) \in Addr
  <1>1. addrs # {}
    BY FS_EmptySet DEF Single
  <1>2. Owner(addrs) \in addrs
    BY <1>1 DEF Owner
  <1>3. QED
    BY <1>2 DEF Output

LEMMA EmptyAppend ==
  ASSUME NEW s \in Seq(OpType)
  PROVE  <<>> \o s = s
  OBVIOUS

(* Operations made from positions S of a sequence of length n *)
OpsAt(S, index, id, account) ==
    [k \in DOMAIN Increasing(S) |-> Op(index[k], id[Increasing(S)[k]], account[Increasing(S)[k]])]
CoinsAt(S, id, account) == {[id |-> id[x], account |-> account[x]] : x \in S}

Sources(n, S, index, id, account) ==
    /\ n \in Nat /\ S \in SUBSET (1 .. n)
    /\ \A x \in S : id[x] \in Int \X Int /\ account[x] \in Addr
    /\ \A x, y \in S : id[x] = id[y] => x = y
    /\ \A k \in 1 .. n : index[k] \in Int

LEMMA OpsOfPositions ==
  ASSUME NEW n, NEW S, NEW index, NEW id, NEW account, Sources(n, S, index, id, account),
         NEW s, s = OpsAt(S, index, id, account)
  PROVE  /\ IsOps(s, CoinsAt(S, id, account))
         /\ DOMAIN s \subseteq 1 .. n
         /\ \A k \in DOMAIN s : s[k].index = index[k]
         /\ Len(s) \in 0 .. n
         /\ S = 1 .. n => Len(s) = n
  <1> USE DEF Sources
  <1> DEFINE p == Increasing(S)
  <1>1. PICK m \in 0 .. n :
            /\ DOMAIN p = 1 .. m
            /\ \A k \in 1 .. m : p[k] \in S
            /\ \A k, l \in 1 .. m : p[k] = p[l] => k = l
            /\ \A x \in S : \E k \in 1 .. m : p[k] = x
            /\ S = 1 .. n => m = n
    BY KeptPositions
  <1> HIDE DEF p
  <1>2. s = [k \in 1 .. m |-> Op(index[k], id[p[k]], account[p[k]])]
    BY <1>1 DEF p, OpsAt
  <1>3. \A k \in 1 .. m : s[k] \in OpType /\ s[k].index = index[k] /\ s[k].id = id[p[k]] /\ s[k].account = account[p[k]]
    <2> SUFFICES ASSUME NEW k \in 1 .. m
                 PROVE s[k] \in OpType /\ s[k].index = index[k] /\ s[k].id = id[p[k]] /\ s[k].account = account[p[k]]
      OBVIOUS
    <2>1. s[k] = [index |-> index[k], id |-> id[p[k]], account |-> account[p[k]]]
      BY <1>2 DEF Op
    <2>2. p[k] \in S /\ k \in 1 .. n
      BY <1>1
    <2>3. index[k] \in Int /\ id[p[k]] \in Int \X Int /\ account[p[k]] \in Addr \cup {"none"}
      BY <2>2
    <2>4. QED
      BY <2>1, <2>3 DEF OpType
  <1>4. s \in [1 .. m -> OpType] /\ DOMAIN s = 1 .. m /\ m \in Nat
    BY <1>2, <1>3
  <1>5. s \in Seq(OpType) /\ Len(s) = m
    BY <1>4
  <1>6. DistinctIds(s)
    <2> SUFFICES ASSUME NEW k \in 1 .. m, NEW l \in 1 .. m, s[k].id = s[l].id PROVE k = l
      BY <1>4 DEF DistinctIds
    <2>1. id[p[k]] = id[p[l]] /\ p[k] \in S /\ p[l] \in S
      BY <1>1, <1>3
    <2>2. p[k] = p[l]
      BY <2>1
    <2>3. QED
      BY <1>1, <2>2
  <1>7. CoinsOf(s) = CoinsAt(S, id, account)
    <2>1. ASSUME NEW k \in 1 .. m PROVE [id |-> s[k].id, account |-> s[k].account] \in CoinsAt(S, id, account)
      <3>1. p[k] \in S
        BY <1>1
      <3>2. s[k].id = id[p[k]] /\ s[k].account = account[p[k]]
        BY <1>3
      <3>3. [id |-> id[p[k]], account |-> account[p[k]]] \in CoinsAt(S, id, account)
        BY <3>1 DEF CoinsAt
      <3>4. QED
        BY <3>2, <3>3
    <2>2. ASSUME NEW x \in S
          PROVE  \E k \in 1 .. m : [id |-> id[x], account |-> account[x]] = [id |-> s[k].id, account |-> s[k].account]
      <3>1. PICK k \in 1 .. m : p[k] = x
        BY <1>1
      <3>2. s[k].id = id[p[k]] /\ s[k].account = account[p[k]]
        BY <1>3
      <3>3. QED
        BY <3>1, <3>2
    <2>3. ASSUME NEW c \in CoinsOf(s) PROVE c \in CoinsAt(S, id, account)
      <3>1. PICK k \in DOMAIN s : c = [id |-> s[k].id, account |-> s[k].account]
        BY DEF CoinsOf
      <3>2. QED
        BY <1>4, <2>1, <3>1
    <2>4. ASSUME NEW c \in CoinsAt(S, id, account) PROVE c \in CoinsOf(s)
      <3>1. PICK x \in S : c = [id |-> id[x], account |-> account[x]]
        BY DEF CoinsAt
      <3>2. PICK k \in 1 .. m : c = [id |-> s[k].id, account |-> s[k].account]
        BY <2>2, <3>1
      <3>3. QED
        BY <1>4, <3>2 DEF CoinsOf
    <2>5. QED
      BY <2>3, <2>4
  <1>8. DOMAIN s \subseteq 1 .. n
    BY <1>1, <1>4
  <1>9. QED
    BY <1>1, <1>3, <1>4, <1>5, <1>6, <1>7, <1>8 DEF IsOps

(* Inputs that are not skipped: for each a coin it spends *)
LEMMA InputOps ==
  ASSUME TxsOK, InputsInv, NEW t \in DOMAIN txs, Looked(t)
  PROVE  \E s : /\ insToOperations(newTxOps, txs[t]) = [newTxOps EXCEPT !.Ins = s]
                /\ IsOps(s, SpentCoins(t)) /\ IndexedFrom(s, 0)
  <1> DEFINE ins == txs[t].ins
             n == Len(ins)
             deps == GetTxDependenciesIDs(txs[t])
             S == {i \in DOMAIN ins : ~isMultisig(deps, ins[i])}
             p == Increasing(S)
             index == [k \in 1 .. n |-> OpsLen(newTxOps) + k - 1]
             account == [i \in S |-> (CHOOSE c \in GetReferencedAccounts(deps) : c.id = ins[i]).account]
             s == [k \in DOMAIN p |-> Op(OpsLen(newTxOps) + k - 1, ins[p[k]],
                        (CHOOSE c \in GetReferencedAccounts(deps) : c.id = ins[p[k]]).account)]
  <1>1. ins \in Seq(UTXOID) /\ n \in Nat /\ DOMAIN ins = 1 .. n
    <2>1. ins \in Seq(UTXOID)
      BY TxFacts
    <2> HIDE DEF ins
    <2>2. QED
      BY <2>1
  <1>2. S \in SUBSET (1 .. n)
    BY <1>1
  <1>3. OpsLen(newTxOps) = 0
    BY DEF OpsLen, newTxOps
  <1>4. insToOperations(newTxOps, txs[t]) = [newTxOps EXCEPT !["Ins"] = @ \o s]
    BY DEF insToOperations, AppendOps, Positions
  <1>5. ASSUME NEW i \in S
        PROVE  \E u \in Created(t - 1) : /\ u.id = ins[i] /\ Single(u.addrs)
                                         /\ account[i] = Owner(u.addrs)
    <2>1. ins[i] \in InputIds(t) /\ ~isMultisig(deps, ins[i])
      BY DEF InputIds
    <2> HIDE DEF deps
    <2>2. PICK u \in Created(t - 1) : u.id = ins[i] /\ Single(u.addrs)
      BY <2>1, InputIs DEF deps
    <2>3. /\ Coin(u) \in GetReferencedAccounts(deps)
          /\ \A c \in GetReferencedAccounts(deps) : c.id = ins[i] => c = Coin(u)
      BY <2>1, <2>2, InputIs DEF deps
    <2>4. (CHOOSE c \in GetReferencedAccounts(deps) : c.id = ins[i]) = Coin(u)
      <3>1. Coin(u).id = ins[i]
        BY <2>2 DEF Coin
      <3>2. QED
        BY <2>3, <3>1
    <2>5. account[i] = Owner(u.addrs)
      BY <2>4 DEF Coin
    <2>6. QED
      BY <2>2, <2>5
  <1>6. \A i \in S : ins[i] \in Int \X Int /\ account[i] \in Addr
    <2> SUFFICES ASSUME NEW i \in S PROVE ins[i] \in Int \X Int /\ account[i] \in Addr
      OBVIOUS
    <2>1. PICK u \in Created(t - 1) : u.id = ins[i] /\ Single(u.addrs) /\ account[i] = Owner(u.addrs)
      BY <1>5
    <2>2. t - 1 \in 0 .. Len(txs)
      BY DEF TxsOK
    <2>3. u.addrs \in Output
      BY <2>2, CreatedIn DEF IsOutputOf
    <2>4. ins[i] \in UTXOID
      BY <1>1, <1>2
    <2>5. QED
      BY <2>1, <2>3, <2>4, SingleOwner DEF UTXOID
  <1>7. \A x, y \in S : ins[x] = ins[y] => x = y
    BY <1>1, <1>2 DEF InputsInv
  <1>8. s = OpsAt(S, index, [i \in DOMAIN ins |-> ins[i]], account)
    <2> DEFINE id == [i \in DOMAIN ins |-> ins[i]]
    <2>1. \A k \in DOMAIN p : k \in 1 .. n /\ p[k] \in S
      <3> HIDE DEF S, n
      <3>1. PICK m \in 0 .. n : DOMAIN p = 1 .. m /\ \A k \in 1 .. m : p[k] \in S
        BY <1>1, <1>2, KeptPositions
      <3>2. QED
        BY <1>1, <3>1
    <2>2. ASSUME NEW k \in DOMAIN p
          PROVE  /\ index[k] = OpsLen(newTxOps) + k - 1 /\ id[p[k]] = ins[p[k]]
                 /\ account[p[k]] = (CHOOSE c \in GetReferencedAccounts(deps) : c.id = ins[p[k]]).account
      <3>1. k \in 1 .. n /\ p[k] \in S
        BY <2>1
      <3> HIDE DEF p, n
      <3>2. QED
        BY <3>1
    <2>3. OpsAt(S, index, id, account) = [k \in DOMAIN p |-> Op(index[k], id[p[k]], account[p[k]])]
      BY DEF OpsAt
    <2> DEFINE one(k) == Op(OpsLen(newTxOps) + k - 1, ins[p[k]],
                            (CHOOSE c \in GetReferencedAccounts(deps) : c.id = ins[p[k]]).account)
               other(k) == Op(index[k], id[p[k]], account[p[k]])
    <2>4. \A k \in DOMAIN p : one(k) = other(k)
      BY <2>2
    <2>5. s = [k \in DOMAIN p |-> one(k)] /\ OpsAt(S, index, id, account) = [k \in DOMAIN p |-> other(k)]
      BY <2>3
    <2> HIDE DEF one, other, p
    <2>6. QED
      BY <2>4, <2>5
  <1>9. \A k \in 1 .. n : index[k] \in Int /\ index[k] = 0 + k - 1
    BY <1>3
  <1> DEFINE id == [i \in DOMAIN ins |-> ins[i]]
  <1> HIDE DEF s, index, account, S, ins, n, deps
  <1>10. /\ IsOps(s, CoinsAt(S, id, account))
         /\ DOMAIN s \subseteq 1 .. n
         /\ \A k \in DOMAIN s : s[k].index = index[k]
    <2>1. Sources(n, S, index, id, account)
      BY <1>1, <1>2, <1>6, <1>7, <1>9 DEF Sources
    <2> HIDE DEF id
    <2>2. QED
      BY <1>8, <2>1, OpsOfPositions DEF id
  <1>11. CoinsAt(S, id, account) = SpentCoins(t)
    <2>0. CoinsAt(S, id, account) = {[id |-> ins[x], account |-> account[x]] : x \in S}
      BY <1>1, <1>2 DEF CoinsAt
    <2>1. ASSUME NEW x \in S PROVE [id |-> ins[x], account |-> account[x]] \in SpentCoins(t)
      <3>1. PICK u \in Created(t - 1) : u.id = ins[x] /\ Single(u.addrs) /\ account[x] = Owner(u.addrs)
        BY <1>5
      <3>2. ins[x] \in InputIds(t)
        BY DEF S, ins, InputIds
      <3>3. QED
        BY <3>1, <3>2 DEF SpentCoins, SingleCoins, Coin
    <2>2. ASSUME NEW c \in SpentCoins(t) PROVE \E x \in S : c = [id |-> ins[x], account |-> account[x]]
      <3>1. PICK v \in Created(t - 1) : v.id \in InputIds(t) /\ Single(v.addrs) /\ c = Coin(v)
        BY DEF SpentCoins, SingleCoins
      <3>2. PICK i \in DOMAIN ins : v.id = ins[i]
        BY <3>1 DEF InputIds, ins
      <3>3. ~isMultisig(deps, v.id)
        BY <3>1, InputIs DEF deps
      <3>4. i \in S
        BY <3>2, <3>3 DEF S
      <3>5. PICK u \in Created(t - 1) : u.id = ins[i] /\ Single(u.addrs) /\ account[i] = Owner(u.addrs)
        BY <1>5, <3>4
      <3>6. u = v
        <4>1. t - 1 \in 0 .. Len(txs) /\ u.id = v.id
          BY <3>2, <3>5 DEF TxsOK
        <4>2. QED
          BY <3>1, <3>5, <4>1, UniqueCreated
      <3>7. QED
        BY <3>1, <3>2, <3>4, <3>5, <3>6 DEF Coin
    <2>3. QED
      BY <2>0, <2>1, <2>2
  <1>12. s \in Seq(OpType)
    BY <1>10 DEF IsOps
  <1>13. insToOperations(newTxOps, txs[t]) = [newTxOps EXCEPT !.Ins = s]
    <2>1. newTxOps["Ins"] \o s = s
      BY <1>12, EmptyAppend DEF newTxOps
    <2>2. QED
      BY <1>4, <2>1
  <1>14. IndexedFrom(s, 0)
    BY <1>9, <1>10 DEF IndexedFrom
  <1>15. QED
    BY <1>10, <1>11, <1>13, <1>14

(* Single-owner outputs: for each the coin it is.  Its identifier is right *)
(* when from is the number of the first output.                            *)
KeptOutputs(outs) == {i \in DOMAIN outs : Single(outs[i])}

OpsOf(t, outs, from, index) ==
    [k \in DOMAIN Increasing(KeptOutputs(outs)) |->
        Op(index[k], <<t, from + Increasing(KeptOutputs(outs))[k] - 1>>,
           Owner(outs[Increasing(KeptOutputs(outs))[k]]))]

LEMMA OpsOfOutputs ==
  ASSUME NEW t \in Nat, NEW outs \in Seq(Output), NEW from \in Nat,
         NEW index, \A k \in 1 .. Len(outs) : index[k] \in Int,
         NEW s, s = OpsOf(t, outs, from, index)
  PROVE  /\ IsOps(s, SingleCoins(Numbered(t, outs, from)))
         /\ DOMAIN s \subseteq 1 .. Len(outs)
         /\ \A k \in DOMAIN s : s[k].index = index[k]
         /\ Len(s) \in Nat
         /\ (\A i \in DOMAIN outs : Single(outs[i])) => Len(s) = Len(outs)
  <1> DEFINE n == Len(outs)
             S == KeptOutputs(outs)
             p == Increasing(S)
             id == [i \in 1 .. n |-> <<t, from + i - 1>>]
             account == [i \in 1 .. n |-> Owner(outs[i])]
  <1>1. n \in Nat /\ DOMAIN outs = 1 .. n
    OBVIOUS
  <1>2. S \in SUBSET (1 .. n)
    BY <1>1 DEF KeptOutputs
  <1>3. Sources(n, S, index, id, account)
    <2>1. ASSUME NEW x \in S PROVE id[x] \in Int \X Int /\ account[x] \in Addr
      <3>1. x \in 1 .. n /\ outs[x] \in Output /\ Single(outs[x])
        BY <1>1 DEF KeptOutputs
      <3>2. Owner(outs[x]) \in Addr
        BY <3>1, SingleOwner
      <3> HIDE DEF n, S
      <3>3. QED
        BY <3>1, <3>2
    <2>2. ASSUME NEW x \in S, NEW y \in S, id[x] = id[y] PROVE x = y
      <3>1. x \in 1 .. n /\ y \in 1 .. n
        BY <1>2
      <3> HIDE DEF n, S
      <3>2. from + x - 1 = from + y - 1
        BY <2>2, <3>1
      <3>3. QED
        BY <3>1, <3>2
    <2> HIDE DEF n, S, id, account
    <2>3. QED
      BY <1>1, <1>2, <2>1, <2>2 DEF Sources, n
  <1>4. s = OpsAt(S, index, id, account)
    <2>1. \A k \in DOMAIN p : p[k] \in 1 .. n
      <3> HIDE DEF S, n
      <3>1. PICK m \in 0 .. n : DOMAIN p = 1 .. m /\ \A k \in 1 .. m : p[k] \in S
        BY <1>1, <1>2, KeptPositions
      <3>2. QED
        BY <1>2, <3>1
    <2> DEFINE one(k) == Op(index[k], <<t, from + p[k] - 1>>, Owner(outs[p[k]]))
               other(k) == Op(index[k], id[p[k]], account[p[k]])
    <2>2. \A k \in DOMAIN p : one(k) = other(k)
      BY <2>1
    <2>3. s = [k \in DOMAIN p |-> one(k)] /\ OpsAt(S, index, id, account) = [k \in DOMAIN p |-> other(k)]
      BY DEF OpsOf, OpsAt
    <2> HIDE DEF one, other, p
    <2>4. QED
      BY <2>2, <2>3
  <1>5. CoinsAt(S, id, account) = SingleCoins(Numbered(t, outs, from))
    <2>1. ASSUME NEW c \in CoinsAt(S, id, account) PROVE c \in SingleCoins(Numbered(t, outs, from))
      <3>1. PICK x \in S : c = [id |-> id[x], account |-> account[x]]
        BY DEF CoinsAt
      <3>2. x \in 1 .. n /\ x \in DOMAIN outs /\ Single(outs[x])
        BY <1>1 DEF KeptOutputs
      <3> DEFINE u == [id |-> <<t, from + x - 1>>, addrs |-> outs[x]]
      <3>3. u \in Numbered(t, outs, from)
        BY <3>2 DEF Numbered
      <3>4. c = Coin(u) /\ Single(u.addrs)
        BY <3>1, <3>2 DEF Coin
      <3> HIDE DEF u
      <3>5. QED
        BY <3>3, <3>4 DEF SingleCoins
    <2>2. ASSUME NEW c \in SingleCoins(Numbered(t, outs, from)) PROVE c \in CoinsAt(S, id, account)
      <3>1. PICK u \in Numbered(t, outs, from) : Single(u.addrs) /\ c = Coin(u)
        BY DEF SingleCoins
      <3>2. PICK x \in DOMAIN outs : u = [id |-> <<t, from + x - 1>>, addrs |-> outs[x]]
        BY DEF Numbered
      <3>3. x \in S /\ x \in 1 .. n
        BY <1>1, <3>1, <3>2 DEF KeptOutputs
      <3>4. c = [id |-> id[x], account |-> account[x]]
        BY <3>1, <3>2, <3>3 DEF Coin
      <3>5. QED
        BY <3>3, <3>4 DEF CoinsAt
    <2>3. QED
      BY <2>1, <2>2
  <1>6. (\A i \in DOMAIN outs : Single(outs[i])) => S = 1 .. n
    BY <1>1 DEF KeptOutputs
  <1>7. /\ IsOps(s, CoinsAt(S, id, account))
        /\ DOMAIN s \subseteq 1 .. n
        /\ \A k \in DOMAIN s : s[k].index = index[k]
        /\ Len(s) \in 0 .. n
        /\ S = 1 .. n => Len(s) = n
    <2> HIDE DEF n, S, id, account
    <2>1. QED
      BY <1>3, <1>4, OpsOfPositions
  <1> HIDE DEF id, account, S
  <1>8. QED
    BY <1>5, <1>6, <1>7

LEMMA OutputOps ==
  ASSUME NEW ops, NEW t \in Nat, NEW outs \in Seq(Output), NEW field,
         NEW from \in Nat, from = OutputLen(ops), NEW len \in Nat, len = OpsLen(ops)
  PROVE  \E s : /\ outsToOperations(ops, t, outs, field) = AppendOps(ops, field, s)
                /\ IsOps(s, SingleCoins(Numbered(t, outs, from)))
                /\ field # "ExportOuts" => IndexedFrom(s, len)
                /\ Len(s) \in Nat
                /\ (\A i \in DOMAIN outs : Single(outs[i])) => Len(s) = Len(outs)
  <1> DEFINE index == [k \in 1 .. Len(outs) |-> IF field = "ExportOuts" THEN -1 ELSE len + k - 1]
             p == Increasing(KeptOutputs(outs))
             s == OpsOf(t, outs, from, index)
  <1>1. \A k \in 1 .. Len(outs) : index[k] \in Int
    OBVIOUS
  <1>2. outsToOperations(ops, t, outs, field) = AppendOps(ops, field, s)
    <2>1. \A k \in DOMAIN p : k \in 1 .. Len(outs)
      <3> DEFINE S == KeptOutputs(outs)
                 n == Len(outs)
      <3>1. S \in SUBSET (1 .. n) /\ n \in Nat
        BY DEF KeptOutputs
      <3> HIDE DEF S, n
      <3>2. \A k \in DOMAIN Increasing(S) : k \in 1 .. n
        BY <3>1, KeptIndices
      <3>3. QED
        BY <3>2 DEF S, n
    <2> DEFINE one(k) == Op(IF field = "ExportOuts" THEN -1 ELSE len + k - 1, <<t, from + p[k] - 1>>, Owner(outs[p[k]]))
               other(k) == Op(index[k], <<t, from + p[k] - 1>>, Owner(outs[p[k]]))
    <2>2. \A k \in DOMAIN p : one(k) = other(k)
      BY <2>1
    <2>3. s = [k \in DOMAIN p |-> other(k)]
      BY DEF OpsOf
    <2>4. outsToOperations(ops, t, outs, field) = AppendOps(ops, field, [k \in DOMAIN p |-> one(k)])
      BY DEF outsToOperations, Positions, KeptOutputs
    <2> HIDE DEF one, other, p, s
    <2>5. s = [k \in DOMAIN p |-> one(k)]
      BY <2>2, <2>3
    <2>6. QED
      BY <2>4, <2>5
  <1>3. /\ IsOps(s, SingleCoins(Numbered(t, outs, from)))
        /\ DOMAIN s \subseteq 1 .. Len(outs)
        /\ \A k \in DOMAIN s : s[k].index = index[k]
        /\ Len(s) \in Nat
        /\ (\A i \in DOMAIN outs : Single(outs[i])) => Len(s) = Len(outs)
    <2> HIDE DEF index
    <2>1. QED
      BY <1>1, OpsOfOutputs
  <1>4. field # "ExportOuts" => IndexedFrom(s, len)
    <2>1. \A k \in 1 .. Len(outs) : field # "ExportOuts" => index[k] = len + k - 1
      OBVIOUS
    <2> HIDE DEF index, s
    <2>2. QED
      BY <1>3, <2>1 DEF IndexedFrom
  <1> HIDE DEF s
  <1>5. QED
    BY <1>2, <1>3, <1>4

(* Rewards *)
LEMMA RewardOps ==
  ASSUME TxsOK, NEW t \in DOMAIN txs
  PROVE  \E s : /\ utxosToOperations(newTxOps, t) = [newTxOps EXCEPT !.StakeOuts = s]
                /\ IsOps(s, SingleCoins(RewardedTo(t)))
                /\ IndexedFrom(s, 0)
  <1> DEFINE outs == rewards[t]
             from == Len(txs[t].outs) + Len(txs[t].extra)
             index == [k \in 1 .. Len(outs) |-> 0 + k - 1]
             p == Increasing(KeptOutputs(outs))
             s == OpsOf(t, outs, from, index)
  <1>0. outs \in Seq(Output) /\ t \in Nat /\ from \in Nat
    <2>1. outs \in Seq(Output) /\ from \in Nat
      BY TxFacts
    <2>2. t \in Nat
      BY DEF TxsOK
    <2>3. QED
      BY <2>1, <2>2
  <1>1. \A k \in 1 .. Len(outs) : index[k] \in Int
    BY <1>0
  <1>2. utxosToOperations(newTxOps, t) = AppendOps(newTxOps, "StakeOuts", s)
    <2>0. OpsLen(newTxOps) = 0
      BY DEF OpsLen, newTxOps
    <2>1. \A k \in DOMAIN p : k \in 1 .. Len(outs)
      <3> DEFINE S == KeptOutputs(outs)
                 n == Len(outs)
      <3>1. S \in SUBSET (1 .. n) /\ n \in Nat
        <4> HIDE DEF outs
        <4>1. QED
          BY <1>0 DEF KeptOutputs
      <3> HIDE DEF S, n
      <3>2. \A k \in DOMAIN Increasing(S) : k \in 1 .. n
        BY <3>1, KeptIndices
      <3>3. QED
        BY <3>2 DEF S, n
    <2> DEFINE one(k) == Op(0 + k - 1, <<t, from + p[k] - 1>>, Owner(outs[p[k]]))
               other(k) == Op(index[k], <<t, from + p[k] - 1>>, Owner(outs[p[k]]))
    <2>2. \A k \in DOMAIN p : one(k) = other(k)
      <3> HIDE DEF p
      <3>1. QED
        BY <2>1
    <2>3. s = [k \in DOMAIN p |-> other(k)]
      BY DEF OpsOf
    <2>4. utxosToOperations(newTxOps, t) = AppendOps(newTxOps, "StakeOuts", [k \in DOMAIN p |-> one(k)])
      BY <2>0 DEF utxosToOperations, Positions, KeptOutputs
    <2> HIDE DEF one, other, p, s
    <2>5. s = [k \in DOMAIN p |-> one(k)]
      BY <2>2, <2>3
    <2>6. QED
      BY <2>4, <2>5
  <1>3. /\ IsOps(s, SingleCoins(Numbered(t, outs, from)))
        /\ DOMAIN s \subseteq 1 .. Len(outs)
        /\ \A k \in DOMAIN s : s[k].index = index[k]
    <2> HIDE DEF index, outs, from
    <2>1. QED
      BY <1>0, <1>1, OpsOfOutputs
  <1>4. IndexedFrom(s, 0)
    <2>1. \A k \in 1 .. Len(outs) : index[k] = 0 + k - 1
      OBVIOUS
    <2> HIDE DEF index, s
    <2>2. QED
      BY <1>3, <2>1 DEF IndexedFrom
  <1>5. AppendOps(newTxOps, "StakeOuts", s) = [newTxOps EXCEPT !.StakeOuts = s]
    <2> HIDE DEF s
    <2>1. newTxOps["StakeOuts"] \o s = s
      BY <1>3, EmptyAppend DEF newTxOps, IsOps
    <2>2. QED
      BY <2>1 DEF AppendOps
  <1>6. SingleCoins(Numbered(t, outs, from)) = SingleCoins(RewardedTo(t))
    BY DEF RewardedTo
  <1> HIDE DEF s
  <1>7. QED
    BY <1>2, <1>3, <1>4, <1>5, <1>6

-----------------------------------------------------------------------------
(* The operations of a transaction *)

Parts(i, o, s, m, e) == [Ins |-> i, Outs |-> o, StakeOuts |-> s, ImportIns |-> m, ExportOuts |-> e]

(* What it creates: outputs, the stake that follows them, or rewards *)
Later(t) ==
    IF txs[t].kind = "stake" THEN Stake(t)
    ELSE IF txs[t].kind = "reward" THEN RewardedTo(txs[t].ref) ELSE {}

AreOps(t, i, o, s, m, e) ==
    /\ TxOps(t) = Parts(i, o, s, m, e)
    /\ IsOps(i, SpentCoins(t)) /\ IndexedFrom(i, 0)
    /\ IsOps(o, SingleCoins(Numbered(t, txs[t].outs, 0))) /\ IndexedFrom(o, Len(i))
    /\ IsOps(s, CoinsOf(s)) /\ IndexedFrom(s, Len(i) + Len(o))
    /\ m \in Seq(OpType)
    /\ e \in Seq(OpType)
    /\ t \notin Shifted => CoinsOf(s) = SingleCoins(Later(t)) /\ CoinsOf(e) = SingleCoins(ExportedBy(t))
    /\ txs[t].kind # "reward" => \A c \in CoinsOf(s) : c.id[1] = t
    /\ \A c \in CoinsOf(s) : c.id[1] \in 1 .. t /\ c.id \in Nat \X Nat /\ c.account \in Addr
    /\ \A c \in CoinsOf(e) : c.id[1] = t /\ c.id \in Nat \X Nat /\ c.account \in Addr

LEMMA EmptyOps == IsOps(<<>>, {}) /\ \A n : IndexedFrom(<<>>, n)
  BY DEF IsOps, DistinctIds, CoinsOf, IndexedFrom

LEMMA OpsIsSeq ==
  ASSUME NEW s, NEW cs, IsOps(s, cs)
  PROVE  s \in Seq(OpType) /\ Len(s) \in Nat /\ <<>> \o s = s /\ CoinsOf(s) = cs
  BY DEF IsOps

LEMMA CoinsHaveIds ==
  ASSUME NEW t \in Nat, NEW outs \in Seq(Output), NEW from \in Nat, NEW c \in SingleCoins(Numbered(t, outs, from))
  PROVE  c.id[1] = t /\ c.id \in Nat \X Nat /\ c.account \in Addr
  <1>1. PICK u \in Numbered(t, outs, from) : c = Coin(u) /\ Single(u.addrs)
    BY DEF SingleCoins
  <1>2. IsAt(u, t, outs, from)
    BY NumberedFacts
  <1>3. Owner(u.addrs) \in Addr
    BY <1>1, <1>2, SingleOwner DEF IsAt
  <1>4. c.id = u.id /\ c.account = Owner(u.addrs)
    BY <1>1 DEF Coin
  <1>5. u.id[1] = t /\ u.id = <<t, u.id[2]>> /\ u.id[2] \in Nat
    BY <1>2 DEF IsAt
  <1>6. c.id[1] = t /\ c.id \in Nat \X Nat
    <2>1. PICK j \in Nat : u.id = <<t, j>>
      BY <1>5
    <2>2. c.id = <<t, j>>
      BY <1>4, <2>1
    <2>3. QED
      BY <2>2
  <1>7. QED
    BY <1>3, <1>4, <1>6

(* Inputs and outputs, after what goes to the metadata *)
LEMMA CombinedOps ==
  ASSUME TxsOK, InputsInv, NEW t \in DOMAIN txs, Looked(t), NEW m
  PROVE  \E i, o :
            /\ insToOperations(newTxOps, txs[t]) = Parts(i, <<>>, <<>>, <<>>, <<>>)
            /\ outsToOperations(Parts(i, <<>>, <<>>, m, <<>>), t, txs[t].outs, "Outs")
                    = Parts(i, o, <<>>, m, <<>>)
            /\ IsOps(i, SpentCoins(t)) /\ IndexedFrom(i, 0)
            /\ IsOps(o, SingleCoins(Numbered(t, txs[t].outs, 0))) /\ IndexedFrom(o, Len(i))
            /\ (\A k \in DOMAIN txs[t].outs : Single(txs[t].outs[k])) => Len(o) = Len(txs[t].outs)
  <1>0. t \in Nat /\ txs[t].outs \in Seq(Output)
    <2>1. txs[t].outs \in Seq(Output)
      BY TxFacts
    <2>2. t \in Nat
      BY DEF TxsOK
    <2>3. QED
      BY <2>1, <2>2
  <1>1. PICK i : /\ insToOperations(newTxOps, txs[t]) = [newTxOps EXCEPT !.Ins = i]
                 /\ IsOps(i, SpentCoins(t)) /\ IndexedFrom(i, 0)
    BY InputOps
  <1>2. i \in Seq(OpType) /\ Len(i) \in Nat
    BY <1>1, OpsIsSeq
  <1> DEFINE ops == Parts(i, <<>>, <<>>, m, <<>>)
             outs == txs[t].outs
  <1>3. 0 = OutputLen(ops) /\ Len(i) = OpsLen(ops)
    BY <1>2 DEF OutputLen, OpsLen, Parts
  <1>4. PICK o : /\ outsToOperations(ops, t, outs, "Outs") = AppendOps(ops, "Outs", o)
                 /\ IsOps(o, SingleCoins(Numbered(t, outs, 0)))
                 /\ "Outs" # "ExportOuts" => IndexedFrom(o, Len(i))
                 /\ Len(o) \in Nat
                 /\ (\A k \in DOMAIN outs : Single(outs[k])) => Len(o) = Len(outs)
    <2> HIDE DEF ops, outs
    <2>1. outs \in Seq(Output)
      BY <1>0 DEF outs
    <2>2. QED
      BY <1>0, <1>2, <1>3, <2>1, OutputOps
  <1>5. <<>> \o o = o
    BY <1>4, OpsIsSeq
  <1>6. AppendOps(ops, "Outs", o) = Parts(i, o, <<>>, m, <<>>)
    BY <1>5 DEF AppendOps, Parts
  <1>7. [newTxOps EXCEPT !.Ins = i] = Parts(i, <<>>, <<>>, <<>>, <<>>)
    BY DEF newTxOps, Parts
  <1>8. QED
    BY <1>1, <1>4, <1>6, <1>7

LEMMA TxOpsAre ==
  ASSUME TxsOK, InputsInv, NEW t \in DOMAIN txs
  PROVE  \E i, o, s, m, e : AreOps(t, i, o, s, m, e)
  <1>0. t \in Nat /\ txs[t].outs \in Seq(Output) /\ txs[t].extra \in Seq(Output) /\ txs[t].kind \in Kind
    <2>1. txs[t].outs \in Seq(Output) /\ txs[t].extra \in Seq(Output) /\ txs[t].kind \in Kind
      BY TxFacts
    <2>2. t \in Nat
      BY DEF TxsOK
    <2>3. QED
      BY <2>1, <2>2
  <1> DEFINE outs == txs[t].outs
             extra == txs[t].extra
  <1>1. \A o \in Seq(OpType) : o \o <<>> = o /\ <<>> \o o = o
    OBVIOUS
  <1>2. CASE txs[t].kind = "time"
    <2>1. TxOps(t) = Parts(<<>>, <<>>, <<>>, <<>>, <<>>)
      BY <1>2 DEF TxOps, newTxOps, Parts
    <2>2. InputIds(t) = {} /\ outs = <<>>
      BY <1>2 DEF TxsOK, RewardsInv, InputIds
    <2>3. SpentCoins(t) = {} /\ SingleCoins(Numbered(t, outs, 0)) = {}
      BY <2>2 DEF SpentCoins, SingleCoins, Numbered
    <2>4. SingleCoins(Later(t)) = {} /\ SingleCoins(ExportedBy(t)) = {}
      BY <1>2 DEF Later, ExportedBy, SingleCoins
    <2>5. CoinsOf(<<>>) = {}
      BY DEF CoinsOf
    <2>6. Len(<<>>) = 0 /\ <<>> \in Seq(OpType)
      OBVIOUS
    <2>7. AreOps(t, <<>>, <<>>, <<>>, <<>>, <<>>)
      BY <2>1, <2>3, <2>4, <2>5, <2>6, EmptyOps DEF AreOps
    <2>8. QED
      BY <2>7
  <1>3. CASE txs[t].kind = "reward"
    <2>0. txs[t].ref \in DOMAIN txs
      BY <1>3 DEF TxsOK, RewardsInv
    <2>1. PICK s : /\ utxosToOperations(newTxOps, txs[t].ref) = [newTxOps EXCEPT !.StakeOuts = s]
                   /\ IsOps(s, SingleCoins(RewardedTo(txs[t].ref)))
                   /\ IndexedFrom(s, 0)
      BY <2>0, RewardOps
    <2>2. TxOps(t) = Parts(<<>>, <<>>, s, <<>>, <<>>)
      BY <1>3, <2>1 DEF TxOps, newTxOps, Parts
    <2>3. InputIds(t) = {} /\ outs = <<>>
      BY <1>3 DEF TxsOK, RewardsInv, InputIds
    <2>4. SpentCoins(t) = {} /\ SingleCoins(Numbered(t, outs, 0)) = {}
      BY <2>3 DEF SpentCoins, SingleCoins, Numbered
    <2>5. CoinsOf(s) = SingleCoins(Later(t)) /\ SingleCoins(ExportedBy(t)) = {}
      BY <1>3, <2>1, OpsIsSeq DEF Later, ExportedBy, SingleCoins
    <2>6. IsOps(s, CoinsOf(s)) /\ CoinsOf(<<>>) = {}
      <3>1. CoinsOf(s) = SingleCoins(RewardedTo(txs[t].ref))
        BY <2>1, OpsIsSeq
      <3>2. CoinsOf(<<>>) = {}
        BY DEF CoinsOf
      <3>3. QED
        BY <2>1, <3>1, <3>2
    <2>7. \A c \in CoinsOf(s) : c.id[1] \in 1 .. t /\ c.id \in Nat \X Nat /\ c.account \in Addr
      <3> DEFINE r == txs[t].ref
      <3>1. rewards[r] \in Seq(Output) /\ Len(txs[r].outs) + Len(txs[r].extra) \in Nat
        BY <2>0, TxFacts
      <3>2. r \in Nat /\ r \in 1 .. t
        <4>1. r \in 1 .. t - 1
          BY <1>3 DEF TxsOK, RewardsInv
        <4> HIDE DEF r
        <4>2. QED
          BY <1>0, <4>1
      <3>3. CoinsOf(s) = SingleCoins(Numbered(r, rewards[r], Len(txs[r].outs) + Len(txs[r].extra)))
        BY <2>1, OpsIsSeq DEF RewardedTo
      <3> DEFINE from == Len(txs[r].outs) + Len(txs[r].extra)
      <3> HIDE DEF r, from
      <3>4. \A c \in SingleCoins(Numbered(r, rewards[r], from)) : c.id[1] = r /\ c.id \in Nat \X Nat /\ c.account \in Addr
        BY <3>1, <3>2, CoinsHaveIds DEF from
      <3>5. QED
        BY <3>2, <3>3, <3>4 DEF from
    <2>8. Len(<<>>) + Len(<<>>) = 0 /\ Len(<<>>) = 0 /\ <<>> \in Seq(OpType)
      OBVIOUS
    <2>9. AreOps(t, <<>>, <<>>, s, <<>>, <<>>)
      BY <1>3, <2>1, <2>2, <2>4, <2>5, <2>6, <2>7, <2>8, EmptyOps DEF AreOps
    <2>10. QED
      BY <2>9
  <1>4. CASE Looked(t)
    <2> DEFINE m == IF txs[t].kind = "import"
                    THEN [k \in 1 .. txs[t].imported |-> Op(-1, <<-1, k>>, "none")] ELSE <<>>
    <2>1. PICK i, o :
            /\ insToOperations(newTxOps, txs[t]) = Parts(i, <<>>, <<>>, <<>>, <<>>)
            /\ outsToOperations(Parts(i, <<>>, <<>>, m, <<>>), t, outs, "Outs") = Parts(i, o, <<>>, m, <<>>)
            /\ IsOps(i, SpentCoins(t)) /\ IndexedFrom(i, 0)
            /\ IsOps(o, SingleCoins(Numbered(t, outs, 0))) /\ IndexedFrom(o, Len(i))
            /\ (\A k \in DOMAIN outs : Single(outs[k])) => Len(o) = Len(outs)
      <3> HIDE DEF m
      <3>1. QED
        BY <1>4, CombinedOps
    <2>2. m \in Seq(OpType)
      <3>1. txs[t].imported \in Nat
        BY TxFacts
      <3>2. \A k \in 1 .. txs[t].imported : Op(-1, <<-1, k>>, "none") \in OpType
        BY <3>1 DEF Op, OpType
      <3> DEFINE n == txs[t].imported
                 new == [k \in 1 .. n |-> Op(-1, <<-1, k>>, "none")]
      <3>3. new \in [1 .. n -> OpType]
        BY <3>2
      <3>4. new \in Seq(OpType)
        <4> HIDE DEF n, new
        <4>1. n \in Nat
          BY <3>1 DEF n
        <4>2. QED
          BY <3>3, <4>1
      <3>5. QED
        BY <3>4
    <2>3. Len(i) \in Nat /\ Len(o) \in Nat /\ i \in Seq(OpType) /\ o \in Seq(OpType)
      BY <2>1, OpsIsSeq
    <2>4. CoinsOf(<<>>) = {} /\ <<>> \in Seq(OpType)
      BY DEF CoinsOf
    <2> DEFINE ops == Parts(i, o, <<>>, <<>>, <<>>)
    <2>5. Len(o) = OutputLen(ops) /\ Len(i) + Len(o) = OpsLen(ops) /\ Len(i) + Len(o) \in Nat
      BY <2>3 DEF OutputLen, OpsLen, Parts
    <2>6. txs[t].kind # "import" => baseTxToCombinedOperations(t, txs[t]) = ops
      BY <2>1 DEF baseTxToCombinedOperations
    <2>7. t \notin Shifted /\ txs[t].kind \in {"stake", "export"} => Len(o) = Len(outs)
      BY <2>1 DEF Shifted
    <2>8. CASE txs[t].kind \in {"stake", "export"}
      <3> DEFINE field == IF txs[t].kind = "stake" THEN "StakeOuts" ELSE "ExportOuts"
      <3>1. PICK x : /\ outsToOperations(ops, t, extra, field) = AppendOps(ops, field, x)
                     /\ IsOps(x, SingleCoins(Numbered(t, extra, Len(o))))
                     /\ field # "ExportOuts" => IndexedFrom(x, Len(i) + Len(o))
        <4> HIDE DEF ops, field, extra
        <4>1. extra \in Seq(Output)
          BY <1>0 DEF extra
        <4> DEFINE from == Len(o)
                   len == Len(i) + Len(o)
        <4>2. from \in Nat /\ from = OutputLen(ops) /\ len \in Nat /\ len = OpsLen(ops)
          BY <2>3, <2>5
        <4> HIDE DEF from, len
        <4>3. t \in Nat
          BY <1>0
        <4>4. PICK x : /\ outsToOperations(ops, t, extra, field) = AppendOps(ops, field, x)
                       /\ IsOps(x, SingleCoins(Numbered(t, extra, from)))
                       /\ field # "ExportOuts" => IndexedFrom(x, len)
          BY <4>1, <4>2, <4>3, OutputOps
        <4>5. QED
          BY <4>4 DEF from, len
      <3>2. x \in Seq(OpType) /\ CoinsOf(x) = SingleCoins(Numbered(t, extra, Len(o))) /\ <<>> \o x = x
        BY <3>1, OpsIsSeq
      <3>3. t \notin Shifted => CoinsOf(x) = SingleCoins(Stake(t))
        BY <2>7, <2>8, <3>2 DEF Stake
      <3>4. \A c \in CoinsOf(x) : c.id[1] = t /\ c.id[1] \in 1 .. t /\ c.id \in Nat \X Nat /\ c.account \in Addr
        <4>1. \A c \in CoinsOf(x) : c.id[1] = t /\ c.id \in Nat \X Nat /\ c.account \in Addr
          BY <1>0, <2>3, <3>2, CoinsHaveIds
        <4>2. t \in 1 .. t
          BY <1>0 DEF TxsOK
        <4>3. QED
          BY <4>1, <4>2
      <3>5. CASE txs[t].kind = "stake"
        <4>1. TxOps(t) = outsToOperations(ops, t, extra, "StakeOuts")
          BY <2>6, <3>5 DEF TxOps
        <4>2. AppendOps(ops, "StakeOuts", x) = Parts(i, o, x, <<>>, <<>>)
          BY <3>2 DEF AppendOps, Parts
        <4>3. TxOps(t) = Parts(i, o, x, <<>>, <<>>) /\ IndexedFrom(x, Len(i) + Len(o))
          BY <3>1, <3>5, <4>1, <4>2
        <4>4. Later(t) = Stake(t) /\ SingleCoins(ExportedBy(t)) = {}
          BY <3>5 DEF Later, ExportedBy, SingleCoins
        <4>5. IsOps(x, CoinsOf(x))
          BY <3>1, <3>2
        <4>6. AreOps(t, i, o, x, <<>>, <<>>)
          BY <2>1, <2>4, <3>2, <3>3, <3>4, <4>3, <4>4, <4>5 DEF AreOps
        <4>7. QED
          BY <4>6
      <3>6. CASE txs[t].kind = "export"
        <4>1. TxOps(t) = outsToOperations(ops, t, extra, "ExportOuts")
          BY <2>6, <3>6 DEF TxOps
        <4>2. AppendOps(ops, "ExportOuts", x) = Parts(i, o, <<>>, <<>>, x)
          BY <3>2 DEF AppendOps, Parts
        <4>3. TxOps(t) = Parts(i, o, <<>>, <<>>, x)
          BY <3>1, <3>6, <4>1, <4>2
        <4>4. SingleCoins(Later(t)) = {} /\ ExportedBy(t) = Stake(t)
          BY <3>6 DEF Later, ExportedBy, SingleCoins
        <4>5. IsOps(<<>>, {}) /\ IndexedFrom(<<>>, Len(i) + Len(o))
          BY EmptyOps
        <4>6. AreOps(t, i, o, <<>>, <<>>, x)
          BY <2>1, <2>4, <3>2, <3>3, <3>4, <4>3, <4>4, <4>5 DEF AreOps
        <4>7. QED
          BY <4>6
      <3>7. QED
        BY <2>8, <3>5, <3>6
    <2>9. CASE txs[t].kind \notin {"stake", "export"}
      <3>1. TxOps(t) = Parts(i, o, <<>>, m, <<>>)
        <4>1. CASE txs[t].kind = "import"
          <5>1. importsToOperations(insToOperations(newTxOps, txs[t]), txs[t]) = Parts(i, <<>>, <<>>, m, <<>>)
            <6>1. <<>> \o m = m
              BY <1>1, <2>2
            <6>2. AppendOps(Parts(i, <<>>, <<>>, <<>>, <<>>), "ImportIns", m) = Parts(i, <<>>, <<>>, m, <<>>)
              <7> HIDE DEF m
              <7>1. QED
                BY <6>1 DEF AppendOps, Parts
            <6>3. m = [k \in 1 .. txs[t].imported |-> Op(-1, <<-1, k>>, "none")]
              BY <4>1
            <6> HIDE DEF m
            <6>4. QED
              BY <2>1, <6>2, <6>3 DEF importsToOperations
          <5> HIDE DEF m
          <5>2. QED
            BY <2>1, <4>1, <5>1 DEF TxOps
        <4>2. CASE txs[t].kind # "import"
          <5>1. m = <<>>
            BY <4>2
          <5> HIDE DEF m
          <5>2. TxOps(t) = ops
            BY <1>4, <2>6, <2>9, <4>2 DEF TxOps, Looked
          <5>3. QED
            BY <5>1, <5>2
        <4>3. QED
          BY <4>1, <4>2
      <3>2. SingleCoins(Later(t)) = {} /\ SingleCoins(ExportedBy(t)) = {}
        BY <1>4, <2>9 DEF Looked, Later, ExportedBy, SingleCoins
      <3>3. IsOps(<<>>, {}) /\ IndexedFrom(<<>>, Len(i) + Len(o))
        BY EmptyOps
      <3> HIDE DEF m
      <3>4. AreOps(t, i, o, <<>>, m, <<>>)
        BY <2>1, <2>2, <2>4, <3>1, <3>2, <3>3 DEF AreOps
      <3>5. QED
        BY <3>4
    <2>10. QED
      BY <2>8, <2>9
  <1>5. QED
    BY <1>0, <1>2, <1>3, <1>4 DEF Looked

-----------------------------------------------------------------------------
(* The operations as the client receives them *)

LEMMA ConcatOps ==
  ASSUME NEW a \in Seq(OpType), NEW b \in Seq(OpType)
  PROVE  /\ a \o b \in Seq(OpType) /\ Len(a) \in Nat /\ Len(b) \in Nat
         /\ Len(a \o b) = Len(a) + Len(b)
         /\ DOMAIN a = 1 .. Len(a) /\ DOMAIN b = 1 .. Len(b)
         /\ DOMAIN (a \o b) = 1 .. Len(a) + Len(b)
         /\ \A k \in 1 .. Len(a) : (a \o b)[k] = a[k]
         /\ \A k \in 1 .. Len(b) : (a \o b)[Len(a) + k] = b[k]
  OBVIOUS

LEMMA ConcatIndexed ==
  ASSUME NEW a \in Seq(OpType), NEW b \in Seq(OpType), IndexedFrom(a, 0),
         NEW n, n = Len(a), IndexedFrom(b, n)
  PROVE  IndexedFrom(a \o b, 0)
  <1> DEFINE c == a \o b
             m == Len(b)
  <1>1. /\ n \in Nat /\ m \in Nat /\ DOMAIN a = 1 .. n /\ DOMAIN b = 1 .. m /\ DOMAIN c = 1 .. n + m
        /\ \A k \in 1 .. n : c[k] = a[k]
        /\ \A k \in 1 .. m : c[n + k] = b[k]
    BY ConcatOps
  <1> HIDE DEF c, m
  <1>2. ASSUME NEW k \in 1 .. n + m PROVE c[k].index = 0 + k - 1
    <2>1. CASE k <= n
      <3>1. k \in 1 .. n
        BY <1>1, <2>1
      <3>2. c[k] = a[k] /\ a[k].index = 0 + k - 1
        BY <1>1, <3>1 DEF IndexedFrom
      <3>3. QED
        BY <3>2
    <2>2. CASE ~(k <= n)
      <3>1. k - n \in 1 .. m /\ n + (k - n) = k
        BY <1>1, <2>2
      <3>2. c[k] = b[k - n]
        BY <1>1, <3>1
      <3>3. b[k - n].index = n + (k - n) - 1
        BY <1>1, <3>1 DEF IndexedFrom
      <3>4. QED
        BY <1>1, <3>2, <3>3
    <2>3. QED
      BY <1>1, <2>1, <2>2
  <1>3. QED
    BY <1>1, <1>2 DEF IndexedFrom, c

LEMMA ConcatCoins ==
  ASSUME NEW a \in Seq(OpType), NEW b \in Seq(OpType)
  PROVE  CoinsOf(a \o b) = CoinsOf(a) \cup CoinsOf(b)
  <1> DEFINE c == a \o b
             n == Len(a)
             m == Len(b)
  <1>1. /\ n \in Nat /\ m \in Nat /\ DOMAIN a = 1 .. n /\ DOMAIN b = 1 .. m /\ DOMAIN c = 1 .. n + m
        /\ \A k \in 1 .. n : c[k] = a[k]
        /\ \A k \in 1 .. m : c[n + k] = b[k]
    BY ConcatOps
  <1> HIDE DEF c, m, n
  <1>2. \A k \in 1 .. n : k \in 1 .. n + m
    BY <1>1
  <1>3. \A k \in 1 .. m : n + k \in 1 .. n + m
    BY <1>1
  <1>4. ASSUME NEW k \in 1 .. n + m
        PROVE  (\E j \in 1 .. n : c[k] = a[j]) \/ (\E j \in 1 .. m : c[k] = b[j])
    <2>1. CASE k <= n
      BY <1>1, <2>1
    <2>2. CASE ~(k <= n)
      <3>1. k - n \in 1 .. m /\ n + (k - n) = k
        BY <1>1, <2>2
      <3>2. QED
        BY <1>1, <3>1
    <2>3. QED
      BY <2>1, <2>2
  <1>5. CoinsOf(c) \subseteq CoinsOf(a) \cup CoinsOf(b)
    <2> SUFFICES ASSUME NEW x \in CoinsOf(c) PROVE x \in CoinsOf(a) \cup CoinsOf(b)
      OBVIOUS
    <2>1. PICK k \in 1 .. n + m : x = [id |-> c[k].id, account |-> c[k].account]
      BY <1>1 DEF CoinsOf
    <2>2. CASE \E j \in 1 .. n : c[k] = a[j]
      BY <1>1, <2>1, <2>2 DEF CoinsOf
    <2>3. CASE \E j \in 1 .. m : c[k] = b[j]
      BY <1>1, <2>1, <2>3 DEF CoinsOf
    <2>4. QED
      BY <1>4, <2>2, <2>3
  <1>6. CoinsOf(a) \subseteq CoinsOf(c)
    BY <1>1, <1>2 DEF CoinsOf
  <1>7. CoinsOf(b) \subseteq CoinsOf(c)
    BY <1>1, <1>3 DEF CoinsOf
  <1>8. QED
    BY <1>5, <1>6, <1>7 DEF c

(* The first part of a sequence, and the rest *)
LEMMA SplitOps ==
  ASSUME NEW a \in Seq(OpType), NEW b \in Seq(OpType)
  PROVE  /\ SubSeq(a \o b, 1, Len(a)) = a
         /\ SubSeq(a \o b, Len(a) + 1, Len(a \o b)) = b
  OBVIOUS

LEMMA AddedIdentifiers ==
  ASSUME NEW m \in Seq(OpType), NEW n \in Nat, NEW a, a = addOperationIdentifiers(m, n)
  PROVE  a \in Seq(OpType) /\ Len(a) = Len(m) /\ IndexedFrom(a, n) /\ CoinsOf(a) = CoinsOf(m)
  <1> DEFINE len == Len(m)
  <1>1. len \in Nat /\ DOMAIN m = 1 .. len /\ \A k \in 1 .. len : m[k] \in OpType
    OBVIOUS
  <1> HIDE DEF len
  <1>2. a = [k \in 1 .. len |-> [m[k] EXCEPT !.index = n + k - 1]]
    BY <1>1 DEF addOperationIdentifiers
  <1>3. ASSUME NEW k \in 1 .. len
        PROVE  a[k] \in OpType /\ a[k].index = n + k - 1 /\ a[k].id = m[k].id /\ a[k].account = m[k].account
    <2>1. a[k] = [m[k] EXCEPT !.index = n + k - 1]
      BY <1>2
    <2>2. m[k] \in OpType /\ n + k - 1 \in Int
      BY <1>1
    <2>3. QED
      BY <2>1, <2>2 DEF OpType
  <1>4. a \in [1 .. len -> OpType] /\ DOMAIN a = 1 .. len
    BY <1>2, <1>3
  <1>5. a \in Seq(OpType) /\ Len(a) = len
    BY <1>1, <1>4
  <1>6. IndexedFrom(a, n)
    BY <1>3, <1>4 DEF IndexedFrom
  <1>7. CoinsOf(a) = CoinsOf(m)
    BY <1>1, <1>3, <1>4 DEF CoinsOf
  <1>8. QED
    BY <1>5, <1>6, <1>7 DEF len

(* What Parse returns, when ops are the operations included *)
IsParsed(t, ops, i, m, e) ==
    /\ Parse(t).operations = ops
    /\ Parse(t).spent = Len(i)
    /\ ops \in Seq(OpType) /\ IndexedFrom(ops, 0)
    /\ Parse(t).imported = addOperationIdentifiers(m, Len(ops))
    /\ Parse(t).exported = addOperationIdentifiers(e, Len(ops) + Len(m))

LEMMA ParsedOps ==
  ASSUME NEW t, NEW i, NEW o, NEW s, NEW m, NEW e, AreOps(t, i, o, s, m, e)
  PROVE  /\ IsParsed(t, i \o (o \o s), i, m, e)
         /\ i \in Seq(OpType) /\ o \in Seq(OpType) /\ s \in Seq(OpType) /\ o \o s \in Seq(OpType)
  <1>1. /\ TxOps(t) = Parts(i, o, s, m, e)
        /\ i \in Seq(OpType) /\ o \in Seq(OpType) /\ s \in Seq(OpType)
        /\ IndexedFrom(i, 0) /\ IndexedFrom(o, Len(i)) /\ IndexedFrom(s, Len(i) + Len(o))
    BY DEF AreOps, IsOps
  <1>2. o \o s \in Seq(OpType) /\ i \o (o \o s) \in Seq(OpType) /\ i \o o \in Seq(OpType)
    BY <1>1, ConcatOps
  <1>3. (i \o o) \o s = i \o (o \o s)
    BY <1>1
  <1>4. IncludedOperations(Parts(i, o, s, m, e)) = i \o (o \o s)
    BY <1>3 DEF IncludedOperations, Parts
  <1>5. IndexedFrom(i \o o, 0)
    BY <1>1, ConcatIndexed
  <1>6. Len(i \o o) = Len(i) + Len(o)
    BY <1>1, ConcatOps
  <1>7. IndexedFrom((i \o o) \o s, 0)
    <2> DEFINE n == Len(i) + Len(o)
    <2>1. n = Len(i \o o) /\ IndexedFrom(s, n)
      BY <1>1, <1>6
    <2> HIDE DEF n
    <2>2. QED
      BY <1>1, <1>2, <1>5, <2>1, ConcatIndexed
  <1> DEFINE p == Parts(i, o, s, m, e)
  <1>8. /\ Parse(t).operations = IncludedOperations(p)
        /\ Parse(t).spent = Len(p.Ins)
        /\ Parse(t).imported = addOperationIdentifiers(p.ImportIns, Len(IncludedOperations(p)))
        /\ Parse(t).exported = addOperationIdentifiers(p.ExportOuts, Len(IncludedOperations(p)) + Len(p.ImportIns))
    <2> HIDE DEF p
    <2>1. QED
      BY <1>1 DEF Parse, p
  <1>9. p.Ins = i /\ p.ImportIns = m /\ p.ExportOuts = e
    BY DEF Parts
  <1> HIDE DEF p
  <1>10. QED
    BY <1>1, <1>2, <1>3, <1>4, <1>7, <1>8, <1>9 DEF p, IsParsed

LEMMA NumberedWithoutGaps ==
  ASSUME TxsOK, InputsInv, NEW t \in DOMAIN txs
  PROVE  LET parsed == Parse(t)
             all == parsed.operations \o parsed.imported \o parsed.exported
         IN  \A k \in DOMAIN all : all[k].index = k - 1
  <1>1. PICK i, o, s, m, e : AreOps(t, i, o, s, m, e)
    BY TxOpsAre
  <1>2. m \in Seq(OpType) /\ e \in Seq(OpType)
    BY <1>1 DEF AreOps
  <1> DEFINE a == i \o (o \o s)
  <1>0. IsParsed(t, a, i, m, e)
    BY <1>1, ParsedOps
  <1>3. /\ Parse(t).operations = a /\ a \in Seq(OpType) /\ IndexedFrom(a, 0)
        /\ Parse(t).imported = addOperationIdentifiers(m, Len(a))
        /\ Parse(t).exported = addOperationIdentifiers(e, Len(a) + Len(m))
    <2> HIDE DEF a
    <2>1. QED
      BY <1>0 DEF IsParsed
  <1> DEFINE b == Parse(t).imported
             c == Parse(t).exported
  <1> HIDE DEF a, b, c
  <1>4. Len(a) \in Nat /\ Len(m) \in Nat
    BY <1>2, <1>3
  <1>5. Len(a) + Len(m) \in Nat
    BY <1>2, <1>3, ConcatOps
  <1>6. b \in Seq(OpType) /\ Len(b) = Len(m) /\ IndexedFrom(b, Len(a))
    <2> DEFINE n == Len(a)
    <2>1. n \in Nat /\ b = addOperationIdentifiers(m, n)
      BY <1>3, <1>4 DEF b
    <2> HIDE DEF n
    <2>2. b \in Seq(OpType) /\ Len(b) = Len(m) /\ IndexedFrom(b, n)
      BY <1>2, <2>1, AddedIdentifiers
    <2>3. QED
      BY <2>2 DEF n
  <1>7. c \in Seq(OpType) /\ IndexedFrom(c, Len(a) + Len(m))
    <2> DEFINE n == Len(a) + Len(m)
    <2>1. n \in Nat /\ c = addOperationIdentifiers(e, n)
      BY <1>3, <1>5 DEF c
    <2> HIDE DEF n
    <2>2. c \in Seq(OpType) /\ IndexedFrom(c, n)
      BY <1>2, <2>1, AddedIdentifiers
    <2>3. QED
      BY <2>2 DEF n
  <1>8. a \o b \in Seq(OpType) /\ Len(a \o b) = Len(a) + Len(b)
    BY <1>3, <1>6, ConcatOps
  <1>9. IndexedFrom(a \o b, 0)
    BY <1>3, <1>6, ConcatIndexed
  <1>10. IndexedFrom((a \o b) \o c, 0)
    <2> DEFINE n == Len(a) + Len(m)
    <2>1. n = Len(a \o b) /\ IndexedFrom(c, n)
      BY <1>6, <1>7, <1>8
    <2> HIDE DEF n
    <2>2. QED
      BY <1>7, <1>8, <1>9, <2>1, ConcatIndexed
  <1> DEFINE all == (a \o b) \o c
  <1>11. all \in Seq(OpType)
    BY <1>7, <1>8, ConcatOps
  <1>12. \A k \in DOMAIN all : all[k].index = k - 1
    <2>1. \A k \in DOMAIN all : all[k].index = 0 + k - 1 /\ k \in Int
      <3> HIDE DEF all
      <3>1. QED
        BY <1>10, <1>11 DEF IndexedFrom, all
    <2> HIDE DEF all
    <2>2. QED
      BY <2>1
  <1>13. all = Parse(t).operations \o Parse(t).imported \o Parse(t).exported
    BY <1>3 DEF a, b, c
  <1> HIDE DEF all
  <1>14. QED
    BY <1>12, <1>13

-----------------------------------------------------------------------------
(* One transaction more *)

New(t) == Numbered(t, txs[t].outs, 0) \cup Later(t)

(* What a transaction creates has identifiers of its own. *)
LEMMA FreshRewards ==
  ASSUME TxsOK, NEW t \in DOMAIN txs, txs[t].kind = "stake", NEW n \in Nat, ~Ended(t, n),
         NEW v \in RewardedTo(t), NEW u \in CreatedBy(t, n) \cup RefundedBy(t)
  PROVE  u.id # v.id
  <1> DEFINE o == Len(txs[t].outs)
             e == Len(txs[t].extra)
             A == Numbered(t, txs[t].outs, 0)
             B == Numbered(t, txs[t].extra, o)
             C == Numbered(t, rewards[t], o + e)
  <1>0. /\ txs[t].outs \in Seq(Output) /\ o \in Nat
        /\ txs[t].extra \in Seq(Output) /\ e \in Nat
        /\ rewards[t] \in Seq(Output) /\ o + e \in Nat
    BY TxFacts
  <1>1. \A x \in A : IsAt(x, t, txs[t].outs, 0)
    BY <1>0, NumberedFacts
  <1>2. \A x \in B : IsAt(x, t, txs[t].extra, o)
    BY <1>0, NumberedFacts
  <1>3. \A x \in C : IsAt(x, t, rewards[t], o + e)
    BY <1>0, NumberedFacts
  <1>4. 0 + o <= o + e /\ o + e <= o + e
    <2> HIDE DEF o, e
    <2>1. QED
      BY <1>0
  <1>5. v \in C /\ u \in A \cup B
    BY DEF RewardedTo, CreatedBy, RefundedBy, StakedBy, Stake
  <1> HIDE DEF A, B, C
  <1>6. CASE u \in A
    <2>1. IsAt(u, t, txs[t].outs, 0) /\ IsAt(v, t, rewards[t], o + e)
      BY <1>1, <1>3, <1>5, <1>6
    <2>2. QED
      BY <1>0, <1>4, <2>1, OtherNumber
  <1>7. CASE u \in B
    <2>1. IsAt(u, t, txs[t].extra, o) /\ IsAt(v, t, rewards[t], o + e)
      BY <1>2, <1>3, <1>5, <1>7
    <2>2. QED
      BY <1>0, <1>4, <2>1, OtherNumber
  <1>8. QED
    BY <1>5, <1>6, <1>7

LEMMA EndedOnce ==
  ASSUME TxsOK, NEW t \in DOMAIN txs, NEW n \in 0 .. Len(txs)
  PROVE  /\ n <= t => ~Ended(t, n)
         /\ txs[t].kind = "reward" /\ n < t => ~Ended(txs[t].ref, n)
  <1>0. Len(txs) \in Nat /\ DOMAIN txs = 1 .. Len(txs)
    BY DEF TxsOK
  <1>1. ASSUME n <= t, Ended(t, n) PROVE FALSE
    <2>1. PICK m \in 1 .. n : txs[m].kind = "reward" /\ txs[m].ref = t
      BY <1>1 DEF Ended
    <2>2. m \in DOMAIN txs
      BY <1>0
    <2>3. txs[m].ref \in 1 .. m - 1
      BY <2>1, <2>2 DEF TxsOK, RewardsInv
    <2>4. QED
      BY <1>0, <1>1, <2>1, <2>2, <2>3
  <1>2. ASSUME txs[t].kind = "reward", n < t, Ended(txs[t].ref, n) PROVE FALSE
    <2>1. PICK m \in 1 .. n : txs[m].kind = "reward" /\ txs[m].ref = txs[t].ref
      BY <1>2 DEF Ended
    <2>2. m \in DOMAIN txs
      BY <1>0
    <2>3. m = t
      BY <1>2, <2>1, <2>2 DEF TxsOK, RewardsInv
    <2>4. QED
      BY <1>0, <1>2, <2>3
  <1>3. QED
    BY <1>1, <1>2

LEMMA CreatedGrows ==
  ASSUME TxsOK, NEW t \in DOMAIN txs
  PROVE  /\ Created(t) = Created(t - 1) \cup New(t)
         /\ Refunded(t) = Refunded(t - 1) \cup RefundedBy(t)
         /\ SpentIds(t) = SpentIds(t - 1) \cup InputIds(t)
         /\ Exported(t) = Exported(t - 1) \cup ExportedBy(t)
  <1>0. Len(txs) \in Nat /\ DOMAIN txs = 1 .. Len(txs) /\ t \in Nat /\ t - 1 \in 0 .. Len(txs) /\ t \in 0 .. Len(txs)
    BY DEF TxsOK
  <1>1. 1 .. t = (1 .. t - 1) \cup {t}
    BY <1>0
  <1>2. /\ Refunded(t) = Refunded(t - 1) \cup RefundedBy(t)
        /\ SpentIds(t) = SpentIds(t - 1) \cup InputIds(t)
        /\ Exported(t) = Exported(t - 1) \cup ExportedBy(t)
    BY <1>1 DEF Refunded, SpentIds, Exported
  <1>3. \A d : Ended(d, t) <=> Ended(d, t - 1) \/ (txs[t].kind = "reward" /\ txs[t].ref = d)
    BY <1>1 DEF Ended
  <1>4. ASSUME NEW d \in 1 .. t - 1
        PROVE  CreatedBy(d, t) = CreatedBy(d, t - 1) \cup
                    (IF txs[t].kind = "reward" /\ txs[t].ref = d THEN RewardedTo(d) ELSE {})
    <2>1. CASE txs[t].kind = "reward" /\ txs[t].ref = d
      BY <1>3, <2>1 DEF CreatedBy
    <2>2. CASE ~(txs[t].kind = "reward" /\ txs[t].ref = d)
      BY <1>3, <2>2 DEF CreatedBy
    <2>3. QED
      BY <2>1, <2>2
  <1>5. CreatedBy(t, t) = Numbered(t, txs[t].outs, 0) \cup StakedBy(t)
    <2>1. ~Ended(t, t)
      BY <1>0, EndedOnce
    <2>2. QED
      BY <2>1 DEF CreatedBy
  <1>6. \A x : x \in Created(t) <=> (\E d \in 1 .. t - 1 : x \in CreatedBy(d, t)) \/ x \in CreatedBy(t, t)
    BY <1>1 DEF Created
  <1>7. CASE txs[t].kind = "reward"
    <2>1. txs[t].ref \in 1 .. t - 1
      BY <1>7 DEF TxsOK, RewardsInv
    <2>2. \A x : (\E d \in 1 .. t - 1 : x \in CreatedBy(d, t)) <=> x \in Created(t - 1) \cup RewardedTo(txs[t].ref)
      BY <1>4, <1>7, <2>1 DEF Created
    <2>3. StakedBy(t) = {} /\ Later(t) = RewardedTo(txs[t].ref)
      BY <1>7 DEF StakedBy, Later
    <2>4. QED
      BY <1>2, <1>5, <1>6, <2>2, <2>3 DEF New
  <1>8. CASE txs[t].kind # "reward"
    <2>1. \A x : (\E d \in 1 .. t - 1 : x \in CreatedBy(d, t)) <=> x \in Created(t - 1)
      BY <1>4, <1>8 DEF Created
    <2>2. StakedBy(t) = Later(t)
      BY <1>8 DEF StakedBy, Later
    <2>3. QED
      BY <1>2, <1>5, <1>6, <2>1, <2>2 DEF New
  <1>9. QED
    BY <1>7, <1>8

LEMMA NewIsFresh ==
  ASSUME TxsOK, NEW t \in DOMAIN txs, NEW v \in New(t) \cup RefundedBy(t)
  PROVE  /\ \A u \in Created(t - 1) \cup Refunded(t - 1) : u.id # v.id
         /\ v.id[1] \in 1 .. t
         /\ txs[t].kind # "reward" => v.id[1] = t
         /\ v \in New(t) => v \in Created(t)
  <1>0. Len(txs) \in Nat /\ DOMAIN txs = 1 .. Len(txs) /\ t \in Nat /\ t - 1 \in 0 .. Len(txs) /\ t \in 1 .. t
    BY DEF TxsOK
  <1>1. ASSUME v \in Numbered(t, txs[t].outs, 0) \cup StakedBy(t) \cup RefundedBy(t)
        PROVE  v.id[1] = t
    <2>1. v \in CreatedBy(t, 0) \cup RefundedBy(t)
      BY <1>1 DEF CreatedBy
    <2>2. IsOutputOf(v, t)
      BY <2>1, CreatedFacts
    <2>3. QED
      BY <2>2 DEF IsOutputOf
  <1>2. ASSUME v.id[1] = t, NEW u \in Created(t - 1) \cup Refunded(t - 1) PROVE u.id # v.id
    <2>1. u.id[1] \in 1 .. t - 1
      BY <1>0, CreatedIn
    <2>2. QED
      BY <1>0, <1>2, <2>1
  <1>3. CASE txs[t].kind = "reward" /\ v \in RewardedTo(txs[t].ref)
    <2> DEFINE d == txs[t].ref
    <2>1. d \in 1 .. t - 1 /\ d \in DOMAIN txs /\ txs[d].kind = "stake"
      BY <1>0, <1>3 DEF TxsOK, RewardsInv
    <2>2. ~Ended(d, t - 1)
      BY <1>0, <1>3, EndedOnce
    <2>3. v \in RewardedTo(d) /\ IsOutputOf(v, d)
      BY <1>3, <2>1, CreatedFacts
    <2> HIDE DEF d
    <2>4. v.id[1] = d
      BY <2>3 DEF IsOutputOf
    <2>5. ASSUME NEW u \in Created(t - 1) \cup Refunded(t - 1) PROVE u.id # v.id
      <3>1. CASE u.id[1] = d
        <4>1. u \in CreatedBy(d, t - 1) \cup RefundedBy(d)
          BY <1>0, <3>1, CreatedIn
        <4>2. t - 1 \in Nat
          BY <1>0
        <4>3. QED
          BY <2>1, <2>2, <2>3, <4>1, <4>2, FreshRewards
      <3>2. CASE u.id[1] # d
        BY <2>4, <3>2
      <3>3. QED
        BY <3>1, <3>2
    <2>6. v.id[1] \in 1 .. t
      BY <1>0, <2>1, <2>4
    <2>7. QED
      BY <1>3, <2>5, <2>6, CreatedGrows
  <1>4. CASE v \in Numbered(t, txs[t].outs, 0) \cup StakedBy(t) \cup RefundedBy(t)
    BY <1>0, <1>1, <1>2, <1>4, CreatedGrows
  <1>5. QED
    BY <1>3, <1>4 DEF New, Later, StakedBy

(* An output and one that comes later in the same transaction *)
LEMMA LaterIsOther ==
  ASSUME TxsOK, NEW t \in DOMAIN txs, NEW u \in Numbered(t, txs[t].outs, 0), NEW v \in Later(t)
  PROVE  u.id # v.id
  <1>0. txs[t].outs \in Seq(Output) /\ txs[t].extra \in Seq(Output) /\ Len(txs[t].outs) \in Nat
    BY TxFacts
  <1>1. CASE txs[t].kind = "stake"
    <2>1. IsAt(u, t, txs[t].outs, 0)
      BY <1>0, NumberedFacts
    <2>2. v \in Numbered(t, txs[t].extra, Len(txs[t].outs))
      BY <1>1 DEF Later, Stake
    <2>3. IsAt(v, t, txs[t].extra, Len(txs[t].outs))
      BY <1>0, <2>2, NumberedFacts
    <2>4. 0 + Len(txs[t].outs) <= Len(txs[t].outs)
      BY <1>0
    <2>5. QED
      BY <1>0, <2>1, <2>3, <2>4, OtherNumber
  <1>2. CASE txs[t].kind = "reward"
    <2>1. txs[t].outs = <<>>
      BY <1>2 DEF TxsOK, RewardsInv
    <2>2. QED
      BY <2>1 DEF Numbered
  <1>3. QED
    BY <1>1, <1>2 DEF Later

(* Spent are outputs that were created. *)
LEMMA SpentWereCreated ==
  ASSUME TxsOK, InputsInv, NEW n \in 0 .. Len(txs), NEW id \in SpentIds(n)
  PROVE  \E u \in Created(n) \cup Refunded(n) : u.id = id
  <1>0. Len(txs) \in Nat /\ DOMAIN txs = 1 .. Len(txs)
    BY DEF TxsOK
  <1>1. PICK t \in 1 .. n : id \in InputIds(t)
    BY DEF SpentIds
  <1>2. t \in DOMAIN txs /\ n \in Nat /\ t - 1 \in 0 .. n
    BY <1>0
  <1>3. PICK u \in Created(t - 1) \cup Refunded(t - 1) : u.id = id
    BY <1>1, <1>2 DEF InputsInv
  <1>4. \A d \in 1 .. t - 1 : d \in 1 .. n
    BY <1>2
  <1>5. \A d \in 1 .. t - 1 : Ended(d, t - 1) => Ended(d, n)
    BY <1>4 DEF Ended
  <1>6. \A d \in 1 .. t - 1 : CreatedBy(d, t - 1) \subseteq CreatedBy(d, n)
    BY <1>5 DEF CreatedBy
  <1>7. Created(t - 1) \cup Refunded(t - 1) \subseteq Created(n) \cup Refunded(n)
    BY <1>4, <1>6 DEF Created, Refunded
  <1>8. QED
    BY <1>3, <1>7

-----------------------------------------------------------------------------
(* The client reads a transaction. *)

Live(n) == {u \in Created(n) : u.id \notin SpentIds(n)}

LEMMA LiveGrows ==
  ASSUME TxsOK, InputsInv, NEW t \in DOMAIN txs
  PROVE  Live(t) = {u \in Live(t - 1) : u.id \notin InputIds(t)} \cup New(t)
  <1>0. t - 1 \in 0 .. Len(txs)
    BY DEF TxsOK
  <1>1. Created(t) = Created(t - 1) \cup New(t) /\ SpentIds(t) = SpentIds(t - 1) \cup InputIds(t)
    BY CreatedGrows
  <1>2. ASSUME NEW v \in New(t) PROVE v.id \notin SpentIds(t)
    <2>1. \A u \in Created(t - 1) \cup Refunded(t - 1) : u.id # v.id
      BY NewIsFresh
    <2>2. v.id \notin SpentIds(t - 1)
      BY <1>0, <2>1, SpentWereCreated
    <2>3. v.id \notin InputIds(t)
      BY <2>1 DEF InputsInv
    <2>4. QED
      BY <1>1, <2>2, <2>3
  <1>3. QED
    BY <1>1, <1>2 DEF Live

LEMMA SingleCoinsId ==
  ASSUME NEW us, NEW c \in SingleCoins(us)
  PROVE  \E u \in us : c = Coin(u) /\ Single(u.addrs) /\ c.id = u.id
  BY DEF SingleCoins, Coin

(* The coins whose identifiers are not shifted *)
LEMMA ToCoinsIs ==
  ASSUME NEW us
  PROVE  ToCoins(us) = {c \in SingleCoins(us) : c.id[1] \notin Shifted}
  BY DEF ToCoins, SingleCoins, Coin

(* What the operations add, up to shifted identifiers *)
LEMMA ReadCoins ==
  ASSUME TxsOK, InputsInv, NEW t \in DOMAIN txs, NEW i, NEW o, NEW s, NEW m, NEW e, AreOps(t, i, o, s, m, e)
  PROVE  /\ CoinsOf(i) = SpentCoins(t) /\ CoinsOf(o) = SingleCoins(Numbered(t, txs[t].outs, 0))
         /\ \A c : c.id[1] \notin Shifted =>
                /\ c \in CoinsOf(s) <=> c \in SingleCoins(Later(t))
                /\ c \in CoinsOf(e) <=> c \in SingleCoins(ExportedBy(t))
  <1>1. CoinsOf(i) = SpentCoins(t) /\ CoinsOf(o) = SingleCoins(Numbered(t, txs[t].outs, 0))
    BY DEF AreOps, IsOps
  <1>2. CASE t \notin Shifted
    BY <1>1, <1>2 DEF AreOps
  <1>3. CASE t \in Shifted
    <2>1. txs[t].kind \in {"stake", "export"}
      BY <1>3 DEF Shifted
    <2>2. \A c \in CoinsOf(s) \cup CoinsOf(e) : c.id[1] = t
      BY <2>1 DEF AreOps
    <2>3. ASSUME NEW c \in SingleCoins(Later(t)) \cup SingleCoins(ExportedBy(t)) PROVE c.id[1] = t
      <3>1. PICK u \in Later(t) \cup ExportedBy(t) : c.id = u.id
        BY SingleCoinsId
      <3>2. u \in Stake(t)
        BY <2>1, <3>1 DEF Later, ExportedBy
      <3>3. IsOutputOf(u, t)
        BY <3>2, CreatedFacts
      <3>4. QED
        BY <3>1, <3>3 DEF IsOutputOf
    <2>4. QED
      BY <1>1, <1>3, <2>2, <2>3
  <1>4. QED
    BY <1>2, <1>3

(* What Sync does, in terms of the operations *)
LEMMA SyncReads ==
  ASSUME TxsOK, InputsInv, synced \in 0 .. Len(txs), Sync
  PROVE  \E i, o, s, m, e :
            /\ synced + 1 \in DOMAIN txs /\ synced' = synced + 1
            /\ AreOps(synced + 1, i, o, s, m, e)
            /\ coins' = (coins \ CoinsOf(i)) \cup (CoinsOf(o) \cup CoinsOf(s))
            /\ sent' = sent \cup CoinsOf(e)
            /\ rejected' = rejected \cup Ids(CoinsOf(i) \ coins)
                    \cup (Ids(CoinsOf(o) \cup CoinsOf(s)) \cap Ids(coins)) \cup Repeated(i \o (o \o s))
            /\ UNCHANGED chainVars
  <1> DEFINE t == synced + 1
  <1>1. t \in DOMAIN txs /\ synced' = synced + 1 /\ UNCHANGED chainVars
    BY DEF Sync, TxsOK
  <1> HIDE DEF t
  <1>2. PICK i, o, s, m, e : AreOps(t, i, o, s, m, e)
    BY <1>1, TxOpsAre
  <1> DEFINE ops == i \o (o \o s)
  <1>3. /\ Parse(t).operations = ops
        /\ Parse(t).spent = Len(i)
        /\ i \in Seq(OpType) /\ o \in Seq(OpType) /\ s \in Seq(OpType) /\ o \o s \in Seq(OpType)
        /\ ops \in Seq(OpType)
        /\ Parse(t).exported = addOperationIdentifiers(e, Len(ops) + Len(m))
    <2>1. /\ IsParsed(t, ops, i, m, e)
          /\ i \in Seq(OpType) /\ o \in Seq(OpType) /\ s \in Seq(OpType) /\ o \o s \in Seq(OpType)
      BY <1>2, ParsedOps
    <2> HIDE DEF ops
    <2>2. QED
      BY <2>1 DEF IsParsed
  <1>4. SubSeq(ops, 1, Len(i)) = i /\ SubSeq(ops, Len(i) + 1, Len(ops)) = o \o s
    <2> DEFINE b == o \o s
    <2>1. i \in Seq(OpType) /\ b \in Seq(OpType)
      BY <1>3
    <2> HIDE DEF b
    <2>2. SubSeq(i \o b, 1, Len(i)) = i /\ SubSeq(i \o b, Len(i) + 1, Len(i \o b)) = b
      BY <2>1, SplitOps
    <2>3. QED
      BY <2>2 DEF b
  <1>5. CoinsOf(o \o s) = CoinsOf(o) \cup CoinsOf(s)
    BY <1>3, ConcatCoins
  <1>6. CoinsOf(Parse(t).exported) = CoinsOf(e)
    <2> HIDE DEF ops
    <2>1. m \in Seq(OpType) /\ e \in Seq(OpType)
      BY <1>2 DEF AreOps
    <2> DEFINE n == Len(ops) + Len(m)
    <2>2. n \in Nat
      BY <1>3, <2>1, ConcatOps
    <2> HIDE DEF n
    <2>3. QED
      BY <1>3, <2>1, <2>2, AddedIdentifiers DEF n
  <1>7. /\ coins' = (coins \ CoinsOf(SubSeq(ops, 1, Len(i)))) \cup CoinsOf(SubSeq(ops, Len(i) + 1, Len(ops)))
        /\ sent' = sent \cup CoinsOf(Parse(t).exported)
        /\ rejected' = rejected \cup Ids(CoinsOf(SubSeq(ops, 1, Len(i))) \ coins)
                \cup (Ids(CoinsOf(SubSeq(ops, Len(i) + 1, Len(ops)))) \cap Ids(coins)) \cup Repeated(ops)
    <2> HIDE DEF ops
    <2>1. QED
      BY <1>3 DEF Sync, t
  <1>8. QED
    BY <1>1, <1>2, <1>4, <1>5, <1>6, <1>7 DEF t

(* No identifier of a transaction's operations appears twice, unless it is *)
(* shifted.                                                                *)
LEMMA RepeatedAreShifted ==
  ASSUME TxsOK, InputsInv, NEW t \in DOMAIN txs, NEW i, NEW o, NEW s, NEW m, NEW e, AreOps(t, i, o, s, m, e),
         NEW id \in Repeated(i \o (o \o s))
  PROVE  id[1] \in Shifted
  <1> SUFFICES ASSUME id[1] \notin Shifted PROVE FALSE
    OBVIOUS
  <1> DEFINE b == o \o s
             ops == i \o b
             l == Len(i)
             n == Len(o)
             q == Len(s)
  <1>1. /\ i \in Seq(OpType) /\ o \in Seq(OpType) /\ s \in Seq(OpType) /\ b \in Seq(OpType)
        /\ ops \in Seq(OpType)
    BY ParsedOps
  <1>2. /\ DOMAIN i = 1 .. l /\ DOMAIN o = 1 .. n /\ DOMAIN s = 1 .. q
        /\ l \in Nat /\ n \in Nat /\ q \in Nat
        /\ Len(b) = n + q
        /\ \A k \in 1 .. n : b[k] = o[k]
        /\ \A k \in 1 .. q : b[n + k] = s[k]
    BY <1>1, ConcatOps
  <1>3. /\ DOMAIN ops = 1 .. l + Len(b)
        /\ \A k \in 1 .. l : ops[k] = i[k]
        /\ \A k \in 1 .. Len(b) : ops[l + k] = b[k]
    <2> HIDE DEF b
    <2>1. QED
      BY <1>1, ConcatOps
  <1>4. DistinctIds(i) /\ DistinctIds(o) /\ DistinctIds(s)
    BY DEF AreOps, IsOps
  <1>5. PICK x \in DOMAIN ops : ops[x].id = id /\ \E y \in 1 .. x - 1 : ops[y].id = ops[x].id
    BY DEF Repeated
  <1>6. PICK y \in 1 .. x - 1 : ops[y].id = id
    BY <1>5
  (* The parts: numbers of the inputs, of the outputs, and of what follows *)
  <1> DEFINE In(k) == k \in 1 .. l /\ ops[k] = i[k]
             Mid(k) == k - l \in 1 .. n /\ ops[k] = o[k - l]
             End(k) == k - l - n \in 1 .. q /\ ops[k] = s[k - l - n]
  <1> HIDE DEF ops, b, l, n, q
  <1>7. \A k \in 1 .. l + (n + q) : In(k) \/ Mid(k) \/ End(k)
    <2> SUFFICES ASSUME NEW k \in 1 .. l + (n + q) PROVE In(k) \/ Mid(k) \/ End(k)
      OBVIOUS
    <2>1. CASE k <= l
      BY <1>2, <1>3, <2>1
    <2>2. CASE l < k /\ k <= l + n
      <3>1. k - l \in 1 .. n /\ k - l \in 1 .. n + q /\ k = l + (k - l)
        BY <1>2, <2>2
      <3>2. ops[k] = b[k - l] /\ b[k - l] = o[k - l]
        BY <1>2, <1>3, <3>1
      <3>3. QED
        BY <3>1, <3>2
    <2>3. CASE l + n < k
      <3>1. k - l - n \in 1 .. q /\ k - l \in 1 .. n + q /\ k = l + (k - l) /\ k - l = n + (k - l - n)
        BY <1>2, <2>3
      <3>2. ops[k] = b[k - l] /\ b[k - l] = s[k - l - n]
        BY <1>2, <1>3, <3>1
      <3>3. QED
        BY <3>1, <3>2
    <2>4. QED
      BY <1>2, <2>1, <2>2, <2>3
  <1>8. x \in 1 .. l + (n + q) /\ y \in 1 .. l + (n + q) /\ y < x
    BY <1>2, <1>3, <1>5, <1>6
  <1>9. /\ CoinsOf(i) = SpentCoins(t) /\ CoinsOf(o) = SingleCoins(Numbered(t, txs[t].outs, 0))
        /\ \A c : c.id[1] \notin Shifted => (c \in CoinsOf(s) <=> c \in SingleCoins(Later(t)))
    BY ReadCoins
  <1>10. ASSUME NEW k, In(k), ops[k].id = id PROVE \E u \in Created(t - 1) : u.id = id
    <2>1. [id |-> i[k].id, account |-> i[k].account] \in CoinsOf(i)
      BY <1>2, <1>10 DEF CoinsOf
    <2>2. i[k].id = id
      BY <1>10
    <2>3. PICK u \in Created(t - 1) : u.id = i[k].id
      BY <1>9, <2>1, SingleCoinsId DEF SpentCoins
    <2>4. QED
      BY <2>2, <2>3
  <1>11. ASSUME NEW k, Mid(k), ops[k].id = id PROVE \E u \in Numbered(t, txs[t].outs, 0) : u.id = id
    <2>1. [id |-> o[k - l].id, account |-> o[k - l].account] \in CoinsOf(o)
      BY <1>2, <1>11 DEF CoinsOf
    <2>2. o[k - l].id = id
      BY <1>11
    <2>3. PICK u \in Numbered(t, txs[t].outs, 0) : u.id = o[k - l].id
      BY <1>9, <2>1, SingleCoinsId
    <2>4. QED
      BY <2>2, <2>3
  <1>12. ASSUME NEW k, End(k), ops[k].id = id PROVE \E u \in Later(t) : u.id = id
    <2> DEFINE c == [id |-> s[k - l - n].id, account |-> s[k - l - n].account]
    <2>1. c \in CoinsOf(s)
      BY <1>2, <1>12 DEF CoinsOf
    <2>2. c.id = id
      BY <1>12
    <2> HIDE DEF c
    <2>3. c \in SingleCoins(Later(t))
      BY <1>9, <2>1, <2>2
    <2>4. QED
      BY <2>2, <2>3, SingleCoinsId
  <1>13. \A u \in Created(t - 1), v \in New(t) : u.id # v.id
    BY NewIsFresh
  <1>14. \A u \in Numbered(t, txs[t].outs, 0), v \in Later(t) : u.id # v.id
    BY LaterIsOther
  <1>15. ops[x].id = id /\ ops[y].id = id
    BY <1>5, <1>6
  <1>16. CASE In(x) /\ In(y)
    <2>1. x \in DOMAIN i /\ y \in DOMAIN i /\ i[x].id = i[y].id
      BY <1>2, <1>15, <1>16
    <2>2. x = y
      BY <1>4, <2>1 DEF DistinctIds
    <2>3. QED
      BY <1>2, <1>8, <2>2
  <1>17. CASE Mid(x) /\ Mid(y)
    <2>1. x - l \in DOMAIN o /\ y - l \in DOMAIN o /\ o[x - l].id = o[y - l].id
      BY <1>2, <1>15, <1>17
    <2>2. x - l = y - l
      BY <1>4, <2>1 DEF DistinctIds
    <2>3. QED
      BY <1>2, <1>8, <2>2
  <1>18. CASE End(x) /\ End(y)
    <2>1. x - l - n \in DOMAIN s /\ y - l - n \in DOMAIN s /\ s[x - l - n].id = s[y - l - n].id
      BY <1>2, <1>15, <1>18
    <2>2. x - l - n = y - l - n
      BY <1>4, <2>1 DEF DistinctIds
    <2>3. QED
      BY <1>2, <1>8, <2>2
  <1> HIDE DEF In, Mid, End
  <1>19. CASE (In(x) \/ In(y)) /\ ~(In(x) /\ In(y))
    BY <1>7, <1>8, <1>10, <1>11, <1>12, <1>13, <1>15, <1>19 DEF New
  <1>20. CASE (Mid(x) /\ End(y)) \/ (End(x) /\ Mid(y))
    BY <1>11, <1>12, <1>14, <1>15, <1>20
  <1>21. QED
    BY <1>7, <1>8, <1>16, <1>17, <1>18, <1>19, <1>20

CoinType == [id : UTXOID, account : Addr]

LEMMA CoinsAreTyped ==
  ASSUME TxsOK, InputsInv, Len(txs) <= MaxTxs, NEW t \in DOMAIN txs,
         NEW i, NEW o, NEW s, NEW m, NEW e, AreOps(t, i, o, s, m, e),
         NEW c \in CoinsOf(i) \cup CoinsOf(o) \cup CoinsOf(s) \cup CoinsOf(e)
  PROVE  c \in CoinType /\ c.id[1] \in 1 .. t
  <1>0. /\ t \in Nat /\ t \in 1 .. t /\ t <= MaxTxs /\ MaxTxs \in Nat /\ t - 1 \in 0 .. Len(txs)
        /\ txs[t].outs \in Seq(Output)
    <2>1. txs[t].outs \in Seq(Output)
      BY TxFacts
    <2>2. DOMAIN txs = 1 .. Len(txs) /\ Len(txs) \in Nat /\ MaxTxs \in Nat
      BY ConstantsAssumption DEF TxsOK
    <2>3. QED
      BY <2>1, <2>2
  <1>1. c.id[1] \in 1 .. t /\ c.id \in Nat \X Nat /\ c.account \in Addr
    <2>1. CASE c \in CoinsOf(i)
      <3>1. c \in SpentCoins(t)
        BY <2>1, ReadCoins
      <3>2. PICK u \in Created(t - 1) : c = Coin(u) /\ Single(u.addrs)
        BY <3>1, SingleCoinsId DEF SpentCoins
      <3>3. u.id[1] \in 1 .. t - 1 /\ IsOutputOf(u, u.id[1])
        BY <1>0, CreatedIn
      <3>4. u.addrs \in Output /\ \E j \in Nat : u.id = <<u.id[1], j>>
        BY <3>3 DEF IsOutputOf
      <3>5. PICK j \in Nat : u.id = <<u.id[1], j>>
        BY <3>4
      <3>6. Owner(u.addrs) \in Addr
        BY <3>2, <3>4, SingleOwner
      <3>7. c.id = u.id /\ c.account = Owner(u.addrs)
        BY <3>2 DEF Coin
      <3> DEFINE d == u.id[1]
      <3>8. d \in 1 .. t - 1 /\ c.id = <<d, j>> /\ c.account \in Addr
        BY <3>3, <3>5, <3>6, <3>7
      <3> HIDE DEF d
      <3>9. d \in Nat /\ d \in 1 .. t
        BY <1>0, <3>8
      <3>10. QED
        BY <3>8, <3>9
    <2>2. CASE c \in CoinsOf(o)
      <3>1. c \in SingleCoins(Numbered(t, txs[t].outs, 0))
        BY <2>2, ReadCoins
      <3>2. c.id[1] = t /\ c.id \in Nat \X Nat /\ c.account \in Addr
        BY <1>0, <3>1, CoinsHaveIds
      <3>3. QED
        BY <1>0, <3>2
    <2>3. CASE c \in CoinsOf(s)
      BY <2>3 DEF AreOps
    <2>4. CASE c \in CoinsOf(e)
      BY <1>0, <2>4 DEF AreOps
    <2>5. QED
      BY <2>1, <2>2, <2>3, <2>4
  <1>2. c = [id |-> c.id, account |-> c.account]
    BY DEF CoinsOf
  <1>3. c.id \in UTXOID
    <2>1. PICK d \in Nat, j \in Nat : c.id = <<d, j>>
      BY <1>1
    <2>2. d \in 1 .. t
      BY <1>1, <2>1
    <2>3. d \in 1 .. MaxTxs
      BY <1>0, <2>2
    <2>4. QED
      BY <2>1, <2>3 DEF UTXOID
  <1>4. QED
    BY <1>1, <1>2, <1>3 DEF CoinType

LEMMA ClientReads ==
  ASSUME TypeOK, TxsOK, InputsInv, ClientInv, Sync
  PROVE  /\ ClientInv'
         /\ synced' \in 0 .. Len(txs)
         /\ coins' \subseteq CoinType /\ sent' \subseteq CoinType /\ rejected' \subseteq UTXOID
  <1>0. /\ synced \in 0 .. Len(txs) /\ Len(txs) <= MaxTxs /\ Len(txs) \in Nat
        /\ coins \subseteq CoinType /\ sent \subseteq CoinType /\ rejected \subseteq UTXOID
    BY DEF TypeOK, CoinType
  <1> DEFINE t == synced + 1
  <1>1. PICK i, o, s, m, e :
            /\ t \in DOMAIN txs /\ synced' = t
            /\ AreOps(t, i, o, s, m, e)
            /\ coins' = (coins \ CoinsOf(i)) \cup (CoinsOf(o) \cup CoinsOf(s))
            /\ sent' = sent \cup CoinsOf(e)
            /\ rejected' = rejected \cup Ids(CoinsOf(i) \ coins)
                    \cup (Ids(CoinsOf(o) \cup CoinsOf(s)) \cap Ids(coins)) \cup Repeated(i \o (o \o s))
            /\ UNCHANGED chainVars
    BY <1>0, SyncReads
  <1>2. t - 1 = synced /\ t \in 1 .. Len(txs) /\ 1 .. synced \subseteq 1 .. t /\ synced \in 0 .. Len(txs)
    BY <1>0, <1>1 DEF TxsOK
  <1>3. Created(synced)' = Created(t) /\ SpentIds(synced)' = SpentIds(t) /\ Exported(synced)' = Exported(t)
    <2>1. /\ txs' = txs /\ rewards' = rewards /\ synced' = t
      BY <1>1 DEF chainVars
    <2>2. QED
      BY <2>1 DEF Created, CreatedBy, StakedBy, RewardedTo, Ended, Stake, SpentIds, InputIds, Exported, ExportedBy
  <1>4. Shifted' = Shifted
    BY <1>1 DEF chainVars, Shifted
  <1> HIDE DEF t
  <1>5. /\ CoinsOf(i) = SpentCoins(t) /\ CoinsOf(o) = SingleCoins(Numbered(t, txs[t].outs, 0))
        /\ \A c : c.id[1] \notin Shifted =>
            /\ c \in CoinsOf(s) <=> c \in SingleCoins(Later(t))
            /\ c \in CoinsOf(e) <=> c \in SingleCoins(ExportedBy(t))
    BY <1>1, ReadCoins
  <1>6. \A c \in CoinsOf(i) \cup CoinsOf(o) \cup CoinsOf(s) \cup CoinsOf(e) : c \in CoinType /\ c.id[1] \in 1 .. t
    BY <1>0, <1>1, CoinsAreTyped
  <1>7. \A c : c \in Unshifted(coins) <=> c \in SingleCoins(Live(synced)) /\ c.id[1] \notin Shifted
    BY ToCoinsIs DEF ClientInv, Live
  <1>8. \A c : c \in coins /\ c.id[1] \notin Shifted <=> c \in SingleCoins(Live(synced)) /\ c.id[1] \notin Shifted
    BY <1>7 DEF Unshifted
  <1>9. Live(t) = {u \in Live(synced) : u.id \notin InputIds(t)} \cup New(t)
    BY <1>1, <1>2, LiveGrows
  <1>10. ASSUME NEW u \in Live(synced), Single(u.addrs)
         PROVE  Coin(u) \in CoinsOf(i) <=> u.id \in InputIds(t)
    <2>1. ASSUME u.id \in InputIds(t) PROVE Coin(u) \in CoinsOf(i)
      BY <1>2, <1>5, <1>10, <2>1 DEF Live, SpentCoins, SingleCoins
    <2>2. ASSUME Coin(u) \in CoinsOf(i) PROVE u.id \in InputIds(t)
      <3>1. PICK v \in {v \in Created(t - 1) : v.id \in InputIds(t)} : Coin(u) = Coin(v)
        BY <1>5, <2>2 DEF SpentCoins, SingleCoins
      <3>2. u.id = v.id
        BY <3>1 DEF Coin
      <3>3. QED
        BY <3>1, <3>2
    <2>3. QED
      BY <2>1, <2>2
  <1>11. Unshifted(coins)' = ToCoins(Live(synced))'
    <2>1. Unshifted(coins)' = {c \in coins' : c.id[1] \notin Shifted}
      BY <1>4 DEF Unshifted
    <2>2. ToCoins(Live(synced))' = {c \in SingleCoins(Live(t)) : c.id[1] \notin Shifted}
      BY <1>3, <1>4 DEF ToCoins, Live, SingleCoins, Coin
    <2>3. ASSUME NEW c, c.id[1] \notin Shifted
          PROVE  c \in coins' <=> c \in SingleCoins(Live(t))
      <3>1. c \in coins <=> c \in SingleCoins(Live(synced))
        BY <1>8, <2>3
      <3>2. c \in coins /\ c \notin CoinsOf(i) <=> c \in SingleCoins({u \in Live(synced) : u.id \notin InputIds(t)})
        BY <3>1, <1>10 DEF SingleCoins
      <3>3. c \in CoinsOf(o) \cup CoinsOf(s) <=> c \in SingleCoins(New(t))
        BY <1>5, <2>3 DEF New, SingleCoins
      <3>4. c \in SingleCoins(Live(t)) <=> \/ c \in SingleCoins({u \in Live(synced) : u.id \notin InputIds(t)})
                                           \/ c \in SingleCoins(New(t))
        BY <1>9 DEF SingleCoins
      <3>5. QED
        BY <1>1, <3>2, <3>3, <3>4
    <2>4. QED
      BY <2>1, <2>2, <2>3
  <1>12. Unshifted(sent)' = ToCoins(Exported(synced))'
    <2>1. Unshifted(sent)' = {c \in sent' : c.id[1] \notin Shifted}
      BY <1>4 DEF Unshifted
    <2>2. ToCoins(Exported(synced))' = {c \in SingleCoins(Exported(t)) : c.id[1] \notin Shifted}
      BY <1>3, <1>4 DEF ToCoins, SingleCoins, Coin
    <2>3. Exported(t) = Exported(synced) \cup ExportedBy(t)
      BY <1>1, <1>2, CreatedGrows
    <2>4. ASSUME NEW c, c.id[1] \notin Shifted
          PROVE  c \in sent' <=> c \in SingleCoins(Exported(t))
      <3>1. c \in sent <=> c \in SingleCoins(Exported(synced))
        BY <2>4, ToCoinsIs DEF ClientInv, Unshifted
      <3>2. c \in SingleCoins(Exported(t)) <=> c \in SingleCoins(Exported(synced)) \/ c \in SingleCoins(ExportedBy(t))
        BY <2>3 DEF SingleCoins
      <3>3. QED
        BY <1>1, <1>5, <2>4, <3>1, <3>2
    <2>5. QED
      BY <2>1, <2>2, <2>4
  <1>13. \A id \in rejected' : id[1] \in Shifted
    <2>1. ASSUME NEW c \in CoinsOf(i) \ coins PROVE c.id[1] \in Shifted
      <3>1. PICK u \in Created(t - 1) : u.id \in InputIds(t) /\ Single(u.addrs) /\ c = Coin(u)
        BY <1>5 DEF SpentCoins, SingleCoins
      <3>2. u.id \notin SpentIds(t - 1)
        BY <1>1, <3>1 DEF InputsInv
      <3>3. u \in Live(synced)
        BY <1>2, <3>1, <3>2 DEF Live
      <3>4. c \in SingleCoins(Live(synced))
        BY <3>1, <3>3 DEF SingleCoins
      <3>5. QED
        BY <1>8, <2>1, <3>4
    <2>2. ASSUME NEW c \in CoinsOf(o) \cup CoinsOf(s), NEW d \in coins, c.id = d.id, c.id[1] \notin Shifted PROVE FALSE
      <3>1. c \in SingleCoins(New(t))
        BY <1>5, <2>2 DEF New, SingleCoins
      <3>2. PICK v \in New(t) : c.id = v.id
        BY <3>1, SingleCoinsId
      <3>3. d \in SingleCoins(Live(synced))
        BY <1>8, <2>2
      <3>4. PICK u \in Live(synced) : d.id = u.id
        BY <3>3, SingleCoinsId
      <3>5. u.id # v.id
        BY <1>1, <1>2, NewIsFresh DEF Live
      <3>6. QED
        BY <2>2, <3>2, <3>4, <3>5
    <2>3. \A id \in Repeated(i \o (o \o s)) : id[1] \in Shifted
      BY <1>1, RepeatedAreShifted
    <2>4. \A id \in rejected : id[1] \in Shifted
      BY DEF ClientInv
    <2>5. \A id \in Ids(CoinsOf(i) \ coins) : id[1] \in Shifted
      BY <2>1 DEF Ids
    <2>6. \A id \in Ids(CoinsOf(o) \cup CoinsOf(s)) \cap Ids(coins) : id[1] \in Shifted
      BY <2>2 DEF Ids
    <2>7. QED
      BY <1>1, <2>3, <2>4, <2>5, <2>6
  <1>14. ASSUME NEW c \in coins' \cup sent' PROVE c \in CoinType /\ c.id[1] \in 1 .. t
    <2>1. c \in coins \cup sent \/ c \in CoinsOf(i) \cup CoinsOf(o) \cup CoinsOf(s) \cup CoinsOf(e)
      BY <1>1
    <2>2. CASE c \in coins \cup sent
      BY <1>0, <1>2, <2>2 DEF ClientInv
    <2>3. QED
      BY <1>6, <2>1, <2>2
  <1>15. rejected' \subseteq UTXOID
    <2>1. \A c \in CoinsOf(i) \cup coins : c.id \in UTXOID
      BY <1>0, <1>6 DEF CoinType
    <2>2. Repeated(i \o (o \o s)) \subseteq UTXOID
      <3> DEFINE ops == i \o (o \o s)
      <3> SUFFICES ASSUME NEW k \in DOMAIN ops PROVE ops[k].id \in UTXOID
        BY DEF Repeated
      <3>1. i \in Seq(OpType) /\ o \in Seq(OpType) /\ s \in Seq(OpType) /\ o \o s \in Seq(OpType)
        BY <1>1, ParsedOps
      <3>2. CoinsOf(ops) = CoinsOf(i) \cup (CoinsOf(o) \cup CoinsOf(s))
        <4>1. CoinsOf(o \o s) = CoinsOf(o) \cup CoinsOf(s)
          BY <3>1, ConcatCoins
        <4> DEFINE b == o \o s
        <4>2. b \in Seq(OpType)
          BY <3>1
        <4> HIDE DEF b
        <4>3. CoinsOf(i \o b) = CoinsOf(i) \cup CoinsOf(b)
          BY <3>1, <4>2, ConcatCoins
        <4>4. QED
          BY <4>1, <4>3 DEF b
      <3> HIDE DEF ops
      <3> DEFINE c == [id |-> ops[k].id, account |-> ops[k].account]
      <3>3. c \in CoinsOf(ops)
        BY DEF CoinsOf
      <3> HIDE DEF c
      <3>4. c \in CoinType
        BY <1>6, <3>2, <3>3
      <3>5. c.id \in UTXOID
        BY <3>4 DEF CoinType
      <3>6. QED
        BY <3>5 DEF c
    <2>3. QED
      BY <1>0, <1>1, <2>1, <2>2 DEF Ids
  <1>16. ClientInv'
    <2>1. \A c \in coins' \cup sent' : c.id[1] \in 1 .. synced'
      BY <1>1, <1>14
    <2>2. \A id \in rejected' : id[1] \in Shifted'
      BY <1>4, <1>13
    <2>3. Live(synced)' = {u \in Created(synced) : u.id \notin SpentIds(synced)}'
      BY DEF Live
    <2>4. QED
      BY <1>11, <1>12, <2>1, <2>2, <2>3 DEF ClientInv
  <1>17. synced' \in 0 .. Len(txs)
    BY <1>0, <1>1, <1>2
  <1>18. coins' \subseteq CoinType /\ sent' \subseteq CoinType
    BY <1>14
  <1>19. QED
    BY <1>15, <1>16, <1>17, <1>18

-----------------------------------------------------------------------------
(* The chain accepts a transaction. *)

Ids1(ins) == {ins[k] : k \in DOMAIN ins}

(* It accepts x, with rewards r when x ends a staking. *)
Accepted(x, r) ==
    /\ Len(txs) < MaxTxs
    /\ x \in Tx /\ r \in Seq(Output)
    /\ txs' = Append(txs, x)
    /\ x.ins \in Inputs
    /\ x.kind \in {"time", "reward"} => x.ins = <<>> /\ x.outs = <<>>
    /\ x.kind = "reward" => x.ref \in staking
    /\ rewards' = IF x.kind = "reward" THEN Append([rewards EXCEPT ![x.ref] = r], <<>>)
                  ELSE Append(rewards, <<>>)
    /\ staking' = (staking \ (IF x.kind = "reward" THEN {x.ref} ELSE {}))
                    \cup (IF x.kind = "stake" THEN {next} ELSE {})
    /\ unspent' = {u \in unspent : u.id \notin Ids1(x.ins)} \cup Numbered(next, x.outs, 0)
            \cup (IF x.kind = "l1" THEN Numbered(next, <<Refund>>, Len(x.outs)) ELSE {})
            \cup (IF x.kind = "reward"
                  THEN Stake(x.ref) \cup Numbered(x.ref, r, Len(txs[x.ref].outs) + Len(txs[x.ref].extra))
                  ELSE {})
    /\ exported' = exported
            \cup (IF x.kind = "export" THEN Numbered(next, x.extra, Len(x.outs)) ELSE {})
    /\ UNCHANGED clientVars

LEMMA InputsAreIds ==
  ASSUME unspent \subseteq [id : UTXOID, addrs : Output], NEW ins \in Inputs
  PROVE  /\ ins \in Seq(UTXOID)
         /\ \A id \in Ids1(ins) : \E u \in unspent : u.id = id
         /\ \A k, l \in DOMAIN ins : ins[k] = ins[l] => k = l
         /\ unspent \ Spend(ins) = {u \in unspent : u.id \notin Ids1(ins)}
  <1>0. \A u \in unspent : u.id \in UTXOID
    OBVIOUS
  <1>1. unspent \ Spend(ins) = {u \in unspent : u.id \notin Ids1(ins)}
    BY DEF Spend, Ids1
  <1>2. CASE ins = <<>>
    BY <1>1, <1>2 DEF Ids1
  <1>3. CASE \E u \in unspent : ins = <<u.id>>
    BY <1>0, <1>1, <1>3 DEF Ids1
  <1>4. CASE \E u, v \in unspent : ins = <<u.id, v.id>> /\ Ordered(u.id, v.id)
    <2>1. PICK u \in unspent, v \in unspent : ins = <<u.id, v.id>> /\ Ordered(u.id, v.id)
      BY <1>4
    <2>2. u.id \in UTXOID /\ v.id \in UTXOID
      BY <1>0
    <2>3. u.id # v.id
      <3>1. u.id[2] \in Nat /\ v.id[2] \in Nat
        BY <2>2 DEF UTXOID
      <3>2. u.id[1] # v.id[1] \/ u.id[2] # v.id[2]
        BY <2>1, <3>1 DEF Ordered
      <3>3. QED
        BY <3>2
    <2>4. ins \in Seq(UTXOID) /\ DOMAIN ins = 1 .. 2 /\ ins[1] = u.id /\ ins[2] = v.id
      BY <2>1, <2>2
    <2>5. \A k \in DOMAIN ins : k = 1 \/ k = 2
      BY <2>4
    <2>6. QED
      BY <1>1, <2>3, <2>4, <2>5 DEF Ids1
  <1>5. \/ ins = <<>> \/ \E u \in unspent : ins = <<u.id>>
        \/ \E u, v \in unspent : ins = <<u.id, v.id>> /\ Ordered(u.id, v.id)
    BY DEF Inputs
  <1>6. QED
    BY <1>2, <1>3, <1>4, <1>5

ChainStep == MayAccept /\ (PayBase \/ Import \/ StakeOrExport \/ Reward \/ AdvanceTime)

LEMMA ChainAccepts ==
  ASSUME TypeOK, ChainStep
  PROVE  \E x, r : Accepted(x, r)
  <1>0. /\ Len(txs) < MaxTxs /\ unspent \subseteq [id : UTXOID, addrs : Output]
        /\ staking \subseteq DOMAIN txs /\ MaxTxs \in Nat /\ txs \in Seq(Tx) /\ Len(txs) \in Nat
    BY ConstantsAssumption DEF TypeOK, ChainStep, MayAccept
  <1>1. Outputs \subseteq Seq(Output) /\ Extras \subseteq Seq(Output) /\ <<>> \in Seq(Output) /\ <<>> \in Seq(UTXOID)
    BY ConstantsAssumption
  <1>2. 0 \in 0 .. MaxTxs /\ staking \subseteq 0 .. MaxTxs
    BY <1>0
  <1>3. {u \in unspent : u.id \notin Ids1(<<>>)} = unspent
    BY DEF Ids1
  <1>4. <<>> \in Inputs
    BY DEF Inputs
  <1>5. CASE PayBase
    <2>1. PICK kind \in {"base", "l1"}, ins \in Inputs \ {<<>>}, outs \in Outputs :
            /\ NewTx(kind, ins, 0, outs, <<>>, 0)
            /\ unspent' = (unspent \ Spend(ins)) \cup Numbered(next, outs, 0)
                    \cup (IF kind = "l1" THEN Numbered(next, <<Refund>>, Len(outs)) ELSE {})
            /\ rewards' = Append(rewards, <<>>)
            /\ UNCHANGED <<staking, exported, clientVars>>
      BY <1>5 DEF PayBase
    <2> DEFINE x == [kind |-> kind, ins |-> ins, imported |-> 0, outs |-> outs, extra |-> <<>>, ref |-> 0]
    <2>2. ins \in Seq(UTXOID) /\ unspent \ Spend(ins) = {u \in unspent : u.id \notin Ids1(ins)}
      BY <1>0, InputsAreIds
    <2>3. x \in Tx
      BY <1>1, <1>2, <2>2 DEF Tx, Kind
    <2>4. /\ x.kind = kind /\ x.kind # "reward" /\ x.kind # "stake" /\ x.kind # "export" /\ x.kind # "time"
          /\ x.ins = ins /\ x.outs = outs /\ txs' = Append(txs, x)
      BY <2>1 DEF NewTx
    <2> HIDE DEF x
    <2>5. Accepted(x, <<>>)
      BY <1>0, <1>1, <2>1, <2>2, <2>3, <2>4 DEF Accepted
    <2>6. QED
      BY <2>5
  <1>6. CASE Import
    <2>1. PICK ins \in Inputs, outs \in Outputs :
            /\ NewTx("import", ins, 1, outs, <<>>, 0)
            /\ unspent' = (unspent \ Spend(ins)) \cup Numbered(next, outs, 0)
            /\ rewards' = Append(rewards, <<>>)
            /\ UNCHANGED <<staking, exported, clientVars>>
      BY <1>6 DEF Import
    <2> DEFINE x == [kind |-> "import", ins |-> ins, imported |-> 1, outs |-> outs, extra |-> <<>>, ref |-> 0]
    <2>2. ins \in Seq(UTXOID) /\ unspent \ Spend(ins) = {u \in unspent : u.id \notin Ids1(ins)}
      BY <1>0, InputsAreIds
    <2>3. x \in Tx
      BY <1>1, <1>2, <2>2 DEF Tx, Kind
    <2>4. /\ x.kind = "import" /\ x.ins = ins /\ x.outs = outs /\ txs' = Append(txs, x)
      BY <2>1 DEF NewTx
    <2> HIDE DEF x
    <2>5. Accepted(x, <<>>)
      BY <1>0, <1>1, <2>1, <2>2, <2>3, <2>4 DEF Accepted
    <2>6. QED
      BY <2>5
  <1>7. CASE StakeOrExport
    <2>1. PICK kind \in {"stake", "export"}, ins \in Inputs \ {<<>>}, outs \in Outputs, extra \in Extras :
            /\ NewTx(kind, ins, 0, outs, extra, 0)
            /\ unspent' = (unspent \ Spend(ins)) \cup Numbered(next, outs, 0)
            /\ staking' = staking \cup (IF kind = "stake" THEN {next} ELSE {})
            /\ exported' = exported
                    \cup (IF kind = "export" THEN Numbered(next, extra, Len(outs)) ELSE {})
            /\ rewards' = Append(rewards, <<>>)
            /\ UNCHANGED clientVars
      BY <1>7 DEF StakeOrExport
    <2> DEFINE x == [kind |-> kind, ins |-> ins, imported |-> 0, outs |-> outs, extra |-> extra, ref |-> 0]
    <2>2. ins \in Seq(UTXOID) /\ unspent \ Spend(ins) = {u \in unspent : u.id \notin Ids1(ins)}
      BY <1>0, InputsAreIds
    <2>3. x \in Tx
      BY <1>1, <1>2, <2>2 DEF Tx, Kind
    <2>4. /\ x.kind = kind /\ x.kind # "reward" /\ x.kind # "l1" /\ x.kind # "time"
          /\ x.ins = ins /\ x.outs = outs /\ x.extra = extra /\ txs' = Append(txs, x)
      BY <2>1 DEF NewTx
    <2> HIDE DEF x
    <2>5. Accepted(x, <<>>)
      BY <1>0, <1>1, <2>1, <2>2, <2>3, <2>4 DEF Accepted
    <2>6. QED
      BY <2>5
  <1>8. CASE Reward
    <2>1. PICK t \in staking, outs \in Extras \cup {<<>>} :
            /\ NewTx("reward", <<>>, 0, <<>>, <<>>, t)
            /\ unspent' = unspent \cup Stake(t)
                    \cup Numbered(t, outs, Len(txs[t].outs) + Len(txs[t].extra))
            /\ staking' = staking \ {t}
            /\ rewards' = Append([rewards EXCEPT ![t] = outs], <<>>)
            /\ UNCHANGED <<exported, clientVars>>
      BY <1>8 DEF Reward
    <2> DEFINE x == [kind |-> "reward", ins |-> <<>>, imported |-> 0, outs |-> <<>>, extra |-> <<>>, ref |-> t]
    <2>2. outs \in Seq(Output)
      BY <1>1
    <2>3. x \in Tx
      BY <1>1, <1>2 DEF Tx, Kind
    <2>4. /\ x.kind = "reward" /\ x.ins = <<>> /\ x.outs = <<>> /\ x.ref = t /\ txs' = Append(txs, x)
      BY <2>1 DEF NewTx
    <2>5. Numbered(next, <<>>, 0) = {}
      BY DEF Numbered
    <2> HIDE DEF x
    <2>6. Accepted(x, outs)
      BY <1>0, <1>3, <1>4, <2>1, <2>2, <2>3, <2>4, <2>5 DEF Accepted
    <2>7. QED
      BY <2>6
  <1>9. CASE AdvanceTime
    <2> DEFINE x == [kind |-> "time", ins |-> <<>>, imported |-> 0, outs |-> <<>>, extra |-> <<>>, ref |-> 0]
    <2>3. x \in Tx
      BY <1>1, <1>2 DEF Tx, Kind
    <2>4. /\ x.kind = "time" /\ x.ins = <<>> /\ x.outs = <<>> /\ txs' = Append(txs, x)
      BY <1>9 DEF AdvanceTime, NewTx
    <2>5. Numbered(next, <<>>, 0) = {}
      BY DEF Numbered
    <2> HIDE DEF x
    <2>6. Accepted(x, <<>>)
      BY <1>0, <1>1, <1>3, <1>4, <1>9, <2>3, <2>4, <2>5 DEF Accepted, AdvanceTime
    <2>7. QED
      BY <2>6
  <1>10. QED
    BY <1>5, <1>6, <1>7, <1>8, <1>9 DEF ChainStep


(* The chain grows by x, and the rewards by those of the staking it ends. *)
Grown(n, x, r) ==
    /\ n = Len(txs) /\ n \in Nat /\ DOMAIN txs = 1 .. n /\ DOMAIN rewards = 1 .. n
    /\ txs' \in Seq(Tx) /\ Len(txs') = n + 1 /\ DOMAIN txs' = 1 .. n + 1
    /\ txs'[n + 1] = x
    /\ \A t \in 1 .. n : txs'[t] = txs[t]
    /\ rewards' \in Seq(Seq(Output)) /\ Len(rewards') = n + 1
    /\ rewards'[n + 1] = <<>>
    /\ \A t \in 1 .. n : rewards'[t] = IF x.kind = "reward" /\ x.ref = t THEN r ELSE rewards[t]
    /\ x.kind = "reward" => x.ref \in 1 .. n /\ txs[x.ref].kind = "stake" /\ ~Ended(x.ref, n)

LEMMA Appended ==
  ASSUME NEW T, NEW s \in Seq(T), NEW e \in T
  PROVE  /\ Append(s, e) \in Seq(T) /\ Len(Append(s, e)) = Len(s) + 1
         /\ DOMAIN Append(s, e) = 1 .. Len(s) + 1
         /\ Append(s, e)[Len(s) + 1] = e
         /\ \A t \in 1 .. Len(s) : Append(s, e)[t] = s[t]
  OBVIOUS

LEMMA ChainGrows ==
  ASSUME TypeOK, RewardsInv, NEW x, NEW r, Accepted(x, r), NEW n, n = Len(txs)
  PROVE  Grown(n, x, r)
  <1>0. /\ txs \in Seq(Tx) /\ rewards \in Seq(Seq(Output)) /\ Len(rewards) = n /\ n \in Nat
        /\ DOMAIN txs = 1 .. n /\ DOMAIN rewards = 1 .. n
    BY DEF TypeOK, RewardsInv
  <1>1. x \in Tx /\ r \in Seq(Output) /\ <<>> \in Seq(Output)
    BY DEF Accepted
  <1>2. /\ txs' \in Seq(Tx) /\ Len(txs') = n + 1 /\ DOMAIN txs' = 1 .. n + 1
        /\ txs'[n + 1] = x /\ \A t \in 1 .. n : txs'[t] = txs[t]
    BY <1>0, <1>1, Appended DEF Accepted
  <1>3. x.kind = "reward" => x.ref \in 1 .. n /\ txs[x.ref].kind = "stake" /\ ~Ended(x.ref, n)
    BY <1>0 DEF Accepted, RewardsInv
  <1>4. /\ rewards' \in Seq(Seq(Output)) /\ Len(rewards') = n + 1 /\ rewards'[n + 1] = <<>>
        /\ \A t \in 1 .. n : rewards'[t] = IF x.kind = "reward" /\ x.ref = t THEN r ELSE rewards[t]
    <2>1. CASE x.kind = "reward"
      <3> DEFINE s == [rewards EXCEPT ![x.ref] = r]
                 Outs == Seq(Output)
      <3>1. s \in Seq(Outs) /\ Len(s) = n /\ \A t \in 1 .. n : s[t] = IF x.ref = t THEN r ELSE rewards[t]
        BY <1>0, <1>1, <1>3, <2>1
      <3>2. rewards' = Append(s, <<>>) /\ <<>> \in Outs
        BY <1>1, <2>1 DEF Accepted
      <3> HIDE DEF s, Outs
      <3>3. /\ Append(s, <<>>) \in Seq(Outs) /\ Len(Append(s, <<>>)) = n + 1
            /\ Append(s, <<>>)[n + 1] = <<>> /\ \A t \in 1 .. n : Append(s, <<>>)[t] = s[t]
        BY <3>1, <3>2, Appended
      <3>4. QED
        BY <2>1, <3>1, <3>2, <3>3 DEF Outs
    <2>2. CASE x.kind # "reward"
      <3> DEFINE Outs == Seq(Output)
      <3>1. rewards' = Append(rewards, <<>>) /\ <<>> \in Outs /\ rewards \in Seq(Outs)
        BY <1>0, <1>1, <2>2 DEF Accepted
      <3> HIDE DEF Outs
      <3>2. /\ rewards' \in Seq(Outs) /\ Len(rewards') = n + 1
            /\ rewards'[n + 1] = <<>> /\ \A t \in 1 .. n : rewards'[t] = rewards[t]
        BY <1>0, <3>1, Appended
      <3>3. QED
        BY <2>2, <3>2 DEF Outs
    <2>3. QED
      BY <2>1, <2>2
  <1>5. QED
    BY <1>0, <1>2, <1>3, <1>4 DEF Grown

(* What the earlier transactions created and spent stays as it was. *)
LEMMA OneKept ==
  ASSUME NEW n, NEW x, NEW r, Grown(n, x, r), NEW t \in 1 .. n, NEW k \in 0 .. n
  PROVE  /\ CreatedBy(t, k)' = CreatedBy(t, k) /\ RefundedBy(t)' = RefundedBy(t)
         /\ ExportedBy(t)' = ExportedBy(t) /\ InputIds(t)' = InputIds(t) /\ Stake(t)' = Stake(t)
         /\ Ended(t, k)' <=> Ended(t, k)
  <1>0. n \in Nat /\ txs'[t] = txs[t]
    BY DEF Grown
  <1>1. /\ RefundedBy(t)' = RefundedBy(t) /\ ExportedBy(t)' = ExportedBy(t)
        /\ InputIds(t)' = InputIds(t) /\ Stake(t)' = Stake(t) /\ StakedBy(t)' = StakedBy(t)
        /\ Numbered(t, txs'[t].outs, 0) = Numbered(t, txs[t].outs, 0)
    BY <1>0 DEF RefundedBy, ExportedBy, InputIds, Stake, StakedBy, Numbered
  <1>2. \A m \in 1 .. k : txs'[m] = txs[m]
    BY <1>0 DEF Grown
  <1>3. Ended(t, k)' <=> Ended(t, k)
    BY <1>2 DEF Ended
  <1>4. ASSUME Ended(t, k) PROVE RewardedTo(t)' = RewardedTo(t)
    <2>1. Ended(t, n)
      BY <1>0, <1>4 DEF Ended
    <2>2. rewards'[t] = rewards[t]
      BY <2>1 DEF Grown
    <2>3. QED
      BY <1>0, <2>2 DEF RewardedTo, Numbered
  <1>5. CreatedBy(t, k)' = CreatedBy(t, k)
    BY <1>1, <1>3, <1>4 DEF CreatedBy, Numbered
  <1>6. QED
    BY <1>1, <1>3, <1>5

LEMMA AllKept ==
  ASSUME NEW n, NEW x, NEW r, Grown(n, x, r), NEW k \in 0 .. n
  PROVE  /\ Created(k)' = Created(k) /\ Refunded(k)' = Refunded(k)
         /\ Exported(k)' = Exported(k) /\ SpentIds(k)' = SpentIds(k)
  <1>1. n \in Nat /\ \A t \in 1 .. k : t \in 1 .. n
    BY DEF Grown
  <1>2. \A t \in 1 .. k : /\ CreatedBy(t, k)' = CreatedBy(t, k) /\ RefundedBy(t)' = RefundedBy(t)
                          /\ ExportedBy(t)' = ExportedBy(t) /\ InputIds(t)' = InputIds(t)
    BY <1>1, OneKept
  <1>3. QED
    BY <1>2 DEF Created, Refunded, Exported, SpentIds

LEMMA RewardsKept ==
  ASSUME TypeOK, RewardsInv, NEW x, NEW r, Accepted(x, r), NEW n, Grown(n, x, r)
  PROVE  RewardsInv'
  <1>0. n = Len(txs) /\ n \in Nat /\ DOMAIN txs' = (1 .. n) \cup {n + 1} /\ DOMAIN txs = 1 .. n /\ n + 1 \notin 1 .. n
    BY DEF Grown
  <1>1. (Len(rewards) = Len(txs))'
    BY DEF Grown
  <1>2. (\A t \in DOMAIN txs : txs[t].kind \in {"time", "reward"} => txs[t].ins = <<>> /\ txs[t].outs = <<>>)'
    BY <1>0 DEF Grown, Accepted, RewardsInv
  <1>3. (\A t \in DOMAIN txs : txs[t].kind = "reward" =>
            txs[t].ref \in 1 .. t - 1 /\ txs[txs[t].ref].kind = "stake")'
    <2>1. ASSUME NEW t \in 1 .. n, txs'[t].kind = "reward"
          PROVE  txs'[t].ref \in 1 .. t - 1 /\ txs'[txs'[t].ref].kind = "stake"
      <3>1. txs'[t] = txs[t]
        BY DEF Grown
      <3>2. txs[t].ref \in 1 .. t - 1 /\ txs[txs[t].ref].kind = "stake"
        BY <1>0, <2>1, <3>1 DEF RewardsInv
      <3>3. txs[t].ref \in 1 .. n
        BY <1>0, <3>2
      <3>4. QED
        BY <3>1, <3>2, <3>3 DEF Grown
    <2>2. x.kind = "reward" => x.ref \in 1 .. (n + 1) - 1 /\ txs'[x.ref].kind = "stake"
      BY <1>0 DEF Grown
    <2>3. QED
      BY <1>0, <2>1, <2>2 DEF Grown
  <1>4. ASSUME NEW t \in 1 .. n, x.kind = "reward", txs'[t].kind = "reward", txs'[t].ref = x.ref PROVE FALSE
    BY <1>4 DEF Grown, Ended
  <1>5. (\A t, m \in DOMAIN txs :
            txs[t].kind = "reward" /\ txs[m].kind = "reward" /\ txs[t].ref = txs[m].ref => t = m)'
    <2>1. \A t, m \in 1 .. n :
            txs'[t].kind = "reward" /\ txs'[m].kind = "reward" /\ txs'[t].ref = txs'[m].ref => t = m
      BY <1>0 DEF RewardsInv, Grown
    <2>2. txs'[n + 1] = x
      BY DEF Grown
    <2>3. ASSUME NEW t \in DOMAIN txs', NEW m \in DOMAIN txs',
                 txs'[t].kind = "reward" /\ txs'[m].kind = "reward" /\ txs'[t].ref = txs'[m].ref
          PROVE  t = m
      <3>1. CASE t = n + 1
        BY <1>0, <1>4, <2>2, <2>3, <3>1
      <3>2. CASE m = n + 1
        BY <1>0, <1>4, <2>2, <2>3, <3>2
      <3>3. CASE t \in 1 .. n /\ m \in 1 .. n
        BY <2>1, <2>3, <3>3
      <3>4. QED
        BY <1>0, <3>1, <3>2, <3>3
    <2>4. QED
      BY <2>3
  <1>6. \A t : Ended(t, n + 1)' <=> Ended(t, n) \/ (x.kind = "reward" /\ x.ref = t)
    <2>1. 1 .. n + 1 = (1 .. n) \cup {n + 1}
      BY <1>0
    <2>2. txs'[n + 1] = x /\ \A m \in 1 .. n : txs'[m] = txs[m]
      BY DEF Grown
    <2>3. ASSUME NEW t
          PROVE  (\E m \in 1 .. n + 1 : txs'[m].kind = "reward" /\ txs'[m].ref = t)
                    <=> Ended(t, n) \/ (x.kind = "reward" /\ x.ref = t)
      <3>1. (\E m \in 1 .. n + 1 : txs'[m].kind = "reward" /\ txs'[m].ref = t)
                <=> \/ \E m \in 1 .. n : txs'[m].kind = "reward" /\ txs'[m].ref = t
                    \/ txs'[n + 1].kind = "reward" /\ txs'[n + 1].ref = t
        BY <2>1
      <3>2. (\E m \in 1 .. n : txs'[m].kind = "reward" /\ txs'[m].ref = t) <=> Ended(t, n)
        BY <2>2 DEF Ended
      <3>3. QED
        BY <2>2, <3>1, <3>2
    <2>4. ASSUME NEW t
          PROVE  Ended(t, n + 1)' <=> \E m \in 1 .. n + 1 : txs'[m].kind = "reward" /\ txs'[m].ref = t
      BY DEF Ended
    <2>5. QED
      BY <2>3, <2>4
  <1>7. (\A t \in DOMAIN txs : rewards[t] # <<>> => Ended(t, Len(txs)))'
    <2>1. ASSUME NEW t \in 1 .. n, rewards'[t] # <<>> PROVE Ended(t, n + 1)'
      <3>1. rewards'[t] = IF x.kind = "reward" /\ x.ref = t THEN r ELSE rewards[t]
        BY DEF Grown
      <3>2. rewards[t] # <<>> => Ended(t, n)
        BY <1>0 DEF RewardsInv
      <3>3. QED
        BY <1>6, <2>1, <3>1, <3>2
    <2>2. rewards'[n + 1] = <<>> /\ Len(txs') = n + 1
      BY DEF Grown
    <2>3. QED
      BY <1>0, <2>1, <2>2
  <1>8. (staking = {t \in DOMAIN txs : txs[t].kind = "stake" /\ ~Ended(t, Len(txs))})'
    <2>1. ~Ended(n + 1, n)
      BY <1>0 DEF Ended, RewardsInv
    <2>2. x.kind = "reward" => x.ref # n + 1
      BY <1>0 DEF Grown
    <2>3. \A t \in 1 .. n : t \in staking' <=> t \in staking /\ ~(x.kind = "reward" /\ x.ref = t)
      BY <1>0 DEF Accepted, next
    <2>4. n + 1 \notin staking /\ (n + 1 \in staking' <=> x.kind = "stake")
      BY <1>0, <2>2 DEF Accepted, RewardsInv, next
    <2>5. staking' \subseteq DOMAIN txs'
      BY <1>0 DEF Accepted, RewardsInv, next
    <2>6. \A t \in 1 .. n : t \in staking' <=> txs'[t].kind = "stake" /\ ~Ended(t, n + 1)'
      BY <1>0, <1>6, <2>3 DEF RewardsInv, Grown
    <2>7. n + 1 \in staking' <=> txs'[n + 1].kind = "stake" /\ ~Ended(n + 1, n + 1)'
      BY <1>6, <2>1, <2>2, <2>4 DEF Grown
    <2>8. Len(txs') = n + 1
      BY DEF Grown
    <2>9. QED
      BY <1>0, <2>5, <2>6, <2>7, <2>8
  <1>9. QED
    BY <1>1, <1>2, <1>3, <1>5, <1>7, <1>8 DEF RewardsInv


LEMMA InputsKept ==
  ASSUME TypeOK, InputsInv, LedgerInv, NEW x, NEW r, Accepted(x, r), NEW n, Grown(n, x, r)
  PROVE  InputsInv'
  <1>0. n = Len(txs) /\ n \in Nat /\ DOMAIN txs' = (1 .. n) \cup {n + 1} /\ DOMAIN txs = 1 .. n
    BY DEF Grown
  <1>1. ASSUME NEW t \in 1 .. n
        PROVE  /\ \A id \in InputIds(t)' :
                    /\ \E u \in Created(t - 1)' \cup Refunded(t - 1)' : u.id = id
                    /\ id \notin SpentIds(t - 1)'
               /\ \A i, j \in DOMAIN txs'[t].ins : txs'[t].ins[i] = txs'[t].ins[j] => i = j
    <2>1. t - 1 \in 0 .. n
      BY <1>0
    <2>2. /\ Created(t - 1)' = Created(t - 1) /\ Refunded(t - 1)' = Refunded(t - 1)
          /\ SpentIds(t - 1)' = SpentIds(t - 1)
      BY <2>1, AllKept
    <2>3. InputIds(t)' = InputIds(t) /\ txs'[t] = txs[t]
      <3>1. txs'[t] = txs[t]
        BY DEF Grown
      <3>2. QED
        BY <3>1 DEF InputIds
    <2>4. QED
      BY <1>0, <2>2, <2>3 DEF InputsInv
  <1>2. /\ \A id \in InputIds(n + 1)' :
                    /\ \E u \in Created(n)' \cup Refunded(n)' : u.id = id
                    /\ id \notin SpentIds(n)'
        /\ \A i, j \in DOMAIN txs'[n + 1].ins : txs'[n + 1].ins[i] = txs'[n + 1].ins[j] => i = j
    <2>1. n \in 0 .. n
      BY <1>0
    <2>2. Created(n)' = Created(n) /\ Refunded(n)' = Refunded(n) /\ SpentIds(n)' = SpentIds(n)
      BY <2>1, AllKept
    <2>3. txs'[n + 1].ins \in Inputs /\ InputIds(n + 1)' = Ids1(txs'[n + 1].ins)
      BY DEF Grown, Accepted, InputIds, Ids1
    <2>4. unspent \subseteq [id : UTXOID, addrs : Output]
      BY DEF TypeOK
    <2>5. /\ \A id \in InputIds(n + 1)' : \E u \in unspent : u.id = id
          /\ \A i, j \in DOMAIN txs'[n + 1].ins : txs'[n + 1].ins[i] = txs'[n + 1].ins[j] => i = j
      BY <2>3, <2>4, InputsAreIds
    <2>6. \A u \in unspent : u \in Created(n) \cup Refunded(n) /\ u.id \notin SpentIds(n)
      BY <1>0 DEF LedgerInv
    <2>7. QED
      BY <2>2, <2>5, <2>6
  <1>3. (n + 1) - 1 = n
    BY <1>0
  <1>4. QED
    BY <1>0, <1>1, <1>2, <1>3 DEF InputsInv

(* Stakes are what their transactions created. *)
LEMMA StakedIsCreated ==
  ASSUME TxsOK, NEW n, n = Len(txs), NEW u
  PROVE  /\ u \in Staked <=> \E t \in staking : u \in Stake(t)
         /\ \A t \in staking : t \in 1 .. n /\ txs[t].kind = "stake"
         /\ \A t \in DOMAIN txs : u \in Stake(t) => u.id[1] = t
         /\ u \in Staked => u \in Created(n)
  <1>1. \A t \in staking : t \in 1 .. n /\ t \in DOMAIN txs /\ txs[t].kind = "stake"
    BY DEF TxsOK, RewardsInv
  <1>2. \A t \in DOMAIN txs : u \in Stake(t) => u.id[1] = t
    BY CreatedFacts DEF IsOutputOf
  <1>3. u \in Staked <=> \E t \in staking : u \in Stake(t)
    BY DEF Staked
  <1>4. u \in Staked => u \in Created(n)
    BY <1>1, <1>3 DEF Created, CreatedBy, StakedBy
  <1>5. QED
    BY <1>1, <1>2, <1>3, <1>4

(* What t adds is new, and what it spends is not among it. *)
AddsNew(t) ==
    /\ Created(t) = Created(t - 1) \cup New(t)
    /\ Refunded(t) = Refunded(t - 1) \cup RefundedBy(t)
    /\ SpentIds(t) = SpentIds(t - 1) \cup InputIds(t)
    /\ Exported(t) = Exported(t - 1) \cup ExportedBy(t)
    /\ \A v \in New(t) \cup RefundedBy(t) :
          /\ \A u \in Created(t - 1) \cup Refunded(t - 1) : u.id # v.id
          /\ v.id \notin SpentIds(t)
    /\ \A u \in Numbered(t, txs[t].outs, 0) \cup RefundedBy(t), v \in Later(t) : u.id # v.id

LEMMA EachAddsNew == TxsOK /\ InputsInv => \A e \in DOMAIN txs : AddsNew(e)
  <1> SUFFICES ASSUME TxsOK, InputsInv, NEW t \in DOMAIN txs PROVE AddsNew(t)
    OBVIOUS
  <1>0. t - 1 \in 0 .. Len(txs)
    BY DEF TxsOK
  <1>1. /\ Created(t) = Created(t - 1) \cup New(t)
        /\ Refunded(t) = Refunded(t - 1) \cup RefundedBy(t)
        /\ SpentIds(t) = SpentIds(t - 1) \cup InputIds(t)
        /\ Exported(t) = Exported(t - 1) \cup ExportedBy(t)
    BY CreatedGrows
  <1>2. ASSUME NEW v \in New(t) \cup RefundedBy(t)
        PROVE  /\ \A u \in Created(t - 1) \cup Refunded(t - 1) : u.id # v.id
               /\ v.id \notin SpentIds(t)
    <2>1. \A u \in Created(t - 1) \cup Refunded(t - 1) : u.id # v.id
      BY <1>2, NewIsFresh
    <2>2. v.id \notin SpentIds(t - 1)
      BY <1>0, <2>1, SpentWereCreated
    <2>3. v.id \notin InputIds(t)
      BY <2>1 DEF InputsInv
    <2>4. QED
      BY <1>1, <2>1, <2>2, <2>3
  <1>3. \A u \in Numbered(t, txs[t].outs, 0), v \in Later(t) : u.id # v.id
    BY LaterIsOther
  <1>4. RefundedBy(t) # {} => Later(t) = {}
    BY DEF RefundedBy, Later
  <1>5. QED
    BY <1>1, <1>2, <1>3, <1>4 DEF AddsNew

LEMMA LedgerKept ==
  ASSUME TypeOK, TxsOK, InputsInv, LedgerInv, NEW x, NEW r, Accepted(x, r), NEW n, Grown(n, x, r),
         TxsOK', InputsInv'
  PROVE  LedgerInv'
  <1> DEFINE t == n + 1
  <1>0. n = Len(txs) /\ n \in Nat /\ DOMAIN txs' = 1 .. t /\ DOMAIN txs = 1 .. n /\ t \in 1 .. t /\ t - 1 = n
        /\ n \in 0 .. n /\ next = t /\ Len(txs') = t /\ \A d \in 1 .. n : d # t /\ d \in 1 .. t
    BY DEF Grown, next
  <1> HIDE DEF t
  <1>1. /\ Created(n)' = Created(n) /\ Refunded(n)' = Refunded(n)
        /\ Exported(n)' = Exported(n) /\ SpentIds(n)' = SpentIds(n)
    BY <1>0, AllKept
  <1>2. \A d \in DOMAIN txs' :
            /\ Created(d)' = Created(d - 1)' \cup New(d)'
            /\ Refunded(d)' = Refunded(d - 1)' \cup RefundedBy(d)'
            /\ SpentIds(d)' = SpentIds(d - 1)' \cup InputIds(d)'
            /\ Exported(d)' = Exported(d - 1)' \cup ExportedBy(d)'
            /\ \A v \in New(d)' \cup RefundedBy(d)' :
                  /\ \A u \in Created(d - 1)' \cup Refunded(d - 1)' : u.id # v.id
                  /\ v.id \notin SpentIds(d)'
            /\ \A u \in Numbered(d, txs'[d].outs, 0) \cup RefundedBy(d)', v \in Later(d)' : u.id # v.id
    <2>1. TxsOK' /\ InputsInv' => (\A e \in DOMAIN txs : AddsNew(e))'
      BY EachAddsNew, PTL
    <2>2. \A d \in DOMAIN txs' : AddsNew(d)'
      BY <2>1
    <2>3. QED
      BY <2>2 DEF AddsNew, Numbered
  <1> DEFINE Outs == Numbered(t, x.outs, 0)
             Refs == RefundedBy(t)'
             Extra == Later(t)'
             Old == Created(n) \cup Refunded(n)
  <1>3. /\ Created(t)' = Created(n) \cup (Outs \cup Extra)
        /\ Refunded(t)' = Refunded(n) \cup Refs
        /\ SpentIds(t)' = SpentIds(n) \cup Ids1(x.ins)
        /\ Exported(t)' = Exported(n) \cup ExportedBy(t)'
        /\ \A v \in Outs \cup Extra \cup Refs : (\A u \in Old : u.id # v.id) /\ v.id \notin SpentIds(t)'
        /\ \A u \in Outs \cup Refs, v \in Extra : u.id # v.id
    <2>1. txs'[t] = x /\ InputIds(t)' = Ids1(x.ins) /\ New(t)' = Outs \cup Extra
      BY DEF Grown, New, InputIds, Ids1, Numbered, t
    <2>2. QED
      BY <1>0, <1>1, <1>2, <2>1
  <1>4. ExportedBy(t)' = IF x.kind = "export" THEN Numbered(t, x.extra, Len(x.outs)) ELSE {}
    BY DEF ExportedBy, Stake, Numbered, Grown, t
  <1>5. Refs = IF x.kind = "l1" THEN Numbered(t, <<Refund>>, Len(x.outs)) ELSE {}
    BY DEF RefundedBy, Numbered, Grown, t
  <1> DEFINE Ending == IF x.kind = "reward" THEN Stake(x.ref) ELSE {}
  <1>6. unspent' = {u \in unspent : u.id \notin Ids1(x.ins)} \cup Outs \cup Refs \cup Ending
                        \cup (IF x.kind = "reward" THEN Extra ELSE {})
    <2>1. x.kind = "reward" =>
            Extra = Numbered(x.ref, r, Len(txs[x.ref].outs) + Len(txs[x.ref].extra))
      <3> SUFFICES ASSUME x.kind = "reward"
                   PROVE  Extra = Numbered(x.ref, r, Len(txs[x.ref].outs) + Len(txs[x.ref].extra))
        OBVIOUS
      <3>1. x.ref \in 1 .. n /\ txs'[t] = x
        BY DEF Grown, t
      <3>2. txs'[x.ref] = txs[x.ref] /\ rewards'[x.ref] = r
        BY <3>1 DEF Grown
      <3>3. QED
        BY <3>1, <3>2 DEF Later, RewardedTo, Numbered
    <2>2. unspent' = {u \in unspent : u.id \notin Ids1(x.ins)} \cup Outs \cup Refs
                \cup (IF x.kind = "reward"
                      THEN Stake(x.ref) \cup Numbered(x.ref, r, Len(txs[x.ref].outs) + Len(txs[x.ref].extra))
                      ELSE {})
      BY <1>0, <1>5 DEF Accepted
    <2>3. CASE x.kind = "reward"
      BY <2>1, <2>2, <2>3
    <2>4. CASE x.kind # "reward"
      BY <2>2, <2>4
    <2>5. QED
      BY <2>3, <2>4
  <1>7. /\ x.kind # "reward" /\ x.kind # "stake" => Extra = {}
        /\ x.kind = "stake" => Extra = Stake(t)'
    BY DEF Later, Grown, t, Stake, Numbered
  <1>8. ASSUME NEW u
        PROVE  u \in Staked' <=> (u \in Staked /\ u \notin Ending) \/ (x.kind = "stake" /\ u \in Extra)
    <2>1. u \in Staked' <=> \E d \in staking' : u \in Stake(d)'
      BY DEF Staked
    <2>2. /\ u \in Staked <=> \E d \in staking : u \in Stake(d)
          /\ \A d \in staking : d \in 1 .. n
          /\ \A d \in DOMAIN txs : u \in Stake(d) => u.id[1] = d
      BY <1>0, StakedIsCreated
    <2>3. \A d \in 1 .. n : Stake(d)' = Stake(d)
      BY <1>0, OneKept
    <2>4. \A d : d \in staking' <=> (d \in staking /\ ~(x.kind = "reward" /\ d = x.ref)) \/ (x.kind = "stake" /\ d = t)
      BY <1>0 DEF Accepted
    <2>5. \A d \in staking : u \in Stake(d) => (u \in Ending <=> x.kind = "reward" /\ d = x.ref)
      BY <1>0, <2>2 DEF Grown
    <2>6. QED
      BY <1>7, <2>1, <2>2, <2>3, <2>4, <2>5
  <1>9. /\ \A u : u \in unspent <=> u \in Old /\ u.id \notin SpentIds(n) /\ u \notin Staked
        /\ \A u \in Staked : u.id \notin SpentIds(n) /\ u \in Created(n)
        /\ exported = Exported(n)
    BY <1>0, StakedIsCreated DEF LedgerInv
  <1>10. /\ Ending \subseteq Staked
         /\ x.kind = "reward" => Ids1(x.ins) = {}
    BY DEF Accepted, Ids1, Staked
  <1>11. ASSUME NEW u \in Staked PROVE u.id \notin Ids1(x.ins)
    <2>1. unspent \subseteq [id : UTXOID, addrs : Output] /\ x.ins \in Inputs
      BY DEF TypeOK, Accepted
    <2>2. \A id \in Ids1(x.ins) : \E v \in unspent : v.id = id
      BY <2>1, InputsAreIds
    <2>3. \A v \in Old : v.id = u.id => v = u
      BY <1>0, <1>9, UniqueCreated
    <2>4. QED
      BY <1>9, <2>2, <2>3
  <1> HIDE DEF Outs, Refs, Extra, Old, Ending
  <1>12. ASSUME NEW u
         PROVE  u \in unspent' <=> /\ u \in Created(t)' \cup Refunded(t)'
                                   /\ u.id \notin SpentIds(t)' /\ u \notin Staked'
    <2>1. u \in Created(t)' \cup Refunded(t)' <=> u \in Old \cup Outs \cup Extra \cup Refs
      BY <1>3 DEF Old
    <2>2. Staked \subseteq Old
      BY <1>9 DEF Old
    <2>3. CASE u \in Old
      <3>1. u \notin Outs /\ u \notin Extra /\ u \notin Refs
        BY <1>3, <2>3
      <3>2. u \in unspent' <=> (u \in unspent /\ u.id \notin Ids1(x.ins)) \/ u \in Ending
        BY <1>6, <3>1
      <3>3. u \in Ending => u \in Staked /\ u.id \notin SpentIds(t)' /\ u \notin Staked'
        BY <1>3, <1>8, <1>9, <1>10, <1>11, <3>1
      <3>4. QED
        BY <1>3, <1>8, <1>9, <2>1, <2>3, <3>1, <3>2, <3>3
    <2>4. CASE u \notin Old
      <3>1. u \notin unspent /\ u \notin Ending /\ u \notin Staked
        BY <1>9, <1>10, <2>2, <2>4
      <3>2. u \in Outs \cup Extra \cup Refs => u.id \notin SpentIds(t)'
        BY <1>3
      <3>3. u \in Outs \cup Refs => u \notin Extra
        BY <1>3
      <3>4. u \in unspent' <=> u \in Outs \cup Refs \/ (x.kind = "reward" /\ u \in Extra)
        BY <1>6, <3>1
      <3>5. u \in Staked' <=> x.kind = "stake" /\ u \in Extra
        BY <1>8, <3>1
      <3>6. QED
        BY <1>7, <2>1, <2>4, <3>2, <3>3, <3>4, <3>5
    <2>5. QED
      BY <2>3, <2>4
  <1>13. \A u \in Staked' : u.id \notin SpentIds(t)'
    BY <1>3, <1>8, <1>9, <1>11
  <1>14. exported' = Exported(t)'
    BY <1>0, <1>3, <1>4, <1>9 DEF Accepted
  <1>15. /\ Created(Len(txs))' = Created(t)' /\ Refunded(Len(txs))' = Refunded(t)'
         /\ SpentIds(Len(txs))' = SpentIds(t)' /\ Exported(Len(txs))' = Exported(t)'
    BY <1>0 DEF Created, Refunded, SpentIds, Exported
  <1>17. QED
    BY <1>12, <1>13, <1>14, <1>15 DEF LedgerInv


LEMMA ClientKept ==
  ASSUME TypeOK, TxsOK, ClientInv, NEW x, NEW r, Accepted(x, r), NEW n, Grown(n, x, r)
  PROVE  ClientInv'
  <1>0. n = Len(txs) /\ n \in Nat /\ synced \in 0 .. n /\ DOMAIN txs = 1 .. n /\ DOMAIN txs' = 1 .. n + 1
    BY DEF TypeOK, Grown
  <1>1. synced' = synced /\ coins' = coins /\ sent' = sent /\ rejected' = rejected
    BY DEF Accepted, clientVars
  <1>2. Created(synced)' = Created(synced) /\ SpentIds(synced)' = SpentIds(synced) /\ Exported(synced)' = Exported(synced)
    <2> DEFINE k == synced
    <2>1. k \in 0 .. n
      BY <1>0
    <2>2. /\ \A m \in 0 .. n : Created(m)' = Created(m) /\ SpentIds(m)' = SpentIds(m) /\ Exported(m)' = Exported(m)
      BY AllKept
    <2>3. \A m : m = synced => /\ Created(synced)' = Created(m)' /\ SpentIds(synced)' = SpentIds(m)'
                               /\ Exported(synced)' = Exported(m)'
      BY <1>1 DEF Created, SpentIds, Exported
    <2>4. QED
      BY <2>1, <2>2, <2>3
  <1>3. \A m \in 1 .. synced : m \in Shifted' <=> m \in Shifted
    <2>1. \A m \in 1 .. synced : m \in DOMAIN txs /\ m \in DOMAIN txs' /\ txs'[m] = txs[m]
      BY <1>0 DEF Grown
    <2>2. QED
      BY <2>1 DEF Shifted
  <1>4. \A c \in coins \cup sent : c.id[1] \in 1 .. synced
    BY DEF ClientInv
  <1>5. \A u \in Created(synced) : u.id[1] \in 1 .. synced
    BY <1>0, CreatedIn
  <1>6. \A u \in Exported(synced) : u.id[1] \in 1 .. synced
    <2>1. ASSUME NEW d \in 1 .. synced, NEW u \in ExportedBy(d) PROVE u.id[1] = d
      <3>1. d \in DOMAIN txs
        BY <1>0
      <3>2. IsOutputOf(u, d)
        BY <3>1, CreatedFacts
      <3>3. QED
        BY <3>2 DEF IsOutputOf
    <2>2. QED
      BY <2>1 DEF Exported
  <1>7. Unshifted(coins)' = Unshifted(coins) /\ Unshifted(sent)' = Unshifted(sent)
    BY <1>1, <1>3, <1>4 DEF Unshifted
  <1>8. ToCoins({u \in Created(synced) : u.id \notin SpentIds(synced)})'
            = ToCoins({u \in Created(synced) : u.id \notin SpentIds(synced)})
    BY <1>2, <1>3, <1>5 DEF ToCoins
  <1>9. ToCoins(Exported(synced))' = ToCoins(Exported(synced))
    BY <1>2, <1>3, <1>6 DEF ToCoins
  <1>10. \A id \in rejected' : id[1] \in Shifted'
    <2>1. \A m \in Shifted : m \in Shifted'
      <3>1. \A m \in DOMAIN txs : m \in DOMAIN txs' /\ txs'[m] = txs[m]
        BY <1>0 DEF Grown
      <3>2. QED
        BY <3>1 DEF Shifted
    <2>2. QED
      BY <1>1, <2>1 DEF ClientInv
  <1>11. \A c \in coins' \cup sent' : c.id[1] \in 1 .. synced'
    BY <1>1, <1>4
  <1>12. QED
    BY <1>7, <1>8, <1>9, <1>10, <1>11 DEF ClientInv

UTXOType == [id : UTXOID, addrs : Output]

LEMMA LedgerIsTyped ==
  TxsOK /\ LedgerInv /\ Len(txs) \in 1 .. MaxTxs => unspent \subseteq UTXOType /\ exported \subseteq UTXOType
  <1> SUFFICES ASSUME TxsOK, LedgerInv, Len(txs) \in 1 .. MaxTxs
               PROVE  unspent \subseteq UTXOType /\ exported \subseteq UTXOType
    OBVIOUS
  <1> DEFINE n == Len(txs)
  <1>0. n \in 0 .. n /\ DOMAIN txs = 1 .. n /\ n <= MaxTxs /\ MaxTxs \in Nat /\ n \in Nat
    BY ConstantsAssumption DEF TxsOK
  <1>1. ASSUME NEW t \in DOMAIN txs, NEW u, IsOutputOf(u, t) PROVE u \in UTXOType
    <2>1. \E j \in Nat : u.id = <<t, j>>
      BY <1>1 DEF IsOutputOf
    <2>2. PICK j \in Nat : u.id = <<t, j>>
      BY <2>1
    <2>3. t \in 1 .. MaxTxs
      BY <1>0
    <2>4. u.id \in UTXOID
      BY <2>2, <2>3 DEF UTXOID
    <2>5. QED
      BY <1>1, <2>4 DEF IsOutputOf, UTXOType
  <1>2. ASSUME NEW u \in Created(n) \cup Refunded(n) PROVE u \in UTXOType
    <2>1. u.id[1] \in DOMAIN txs /\ IsOutputOf(u, u.id[1])
      BY <1>0, CreatedIn
    <2>2. QED
      BY <1>1, <2>1
  <1>3. ASSUME NEW u \in Exported(n) PROVE u \in UTXOType
    <2>1. PICK t \in 1 .. n : u \in ExportedBy(t)
      BY DEF Exported
    <2>2. t \in DOMAIN txs
      BY <1>0
    <2>3. IsOutputOf(u, t)
      BY <2>1, <2>2, CreatedFacts
    <2>4. QED
      BY <1>1, <2>2, <2>3
  <1>4. QED
    BY <1>2, <1>3 DEF LedgerInv

-----------------------------------------------------------------------------
(* The invariant is inductive. *)

LEMMA TxsAreOK == TypeOK /\ RewardsInv => TxsOK
  BY DEF TypeOK, TxsOK

LEMMA AcceptPreserves ==
  ASSUME IInv, ChainStep
  PROVE  IInv'
  <1>1. TypeOK /\ TxsOK /\ RewardsInv /\ InputsInv /\ LedgerInv /\ ClientInv
    BY TxsAreOK DEF IInv
  <1>2. PICK x, r : Accepted(x, r)
    BY <1>1, ChainAccepts
  <1>3. PICK n : n = Len(txs)
    OBVIOUS
  <1>4. Grown(n, x, r)
    BY <1>1, <1>2, <1>3, ChainGrows
  <1>5. RewardsInv'
    BY <1>1, <1>2, <1>4, RewardsKept
  <1>6. InputsInv'
    BY <1>1, <1>2, <1>4, InputsKept
  <1>7. TxsOK'
    BY <1>4, <1>5 DEF Grown, TxsOK
  <1>8. LedgerInv'
    BY <1>1, <1>2, <1>4, <1>6, <1>7, LedgerKept
  <1>9. ClientInv'
    BY <1>1, <1>2, <1>4, ClientKept
  <1>10. /\ Len(txs') \in 1 .. MaxTxs /\ Len(txs') = Len(txs) + 1
         /\ txs' \in Seq(Tx) /\ rewards' \in Seq(Seq(Output))
    BY <1>1, <1>2, <1>4, ConstantsAssumption DEF Grown, Accepted, TypeOK
  <1>11. unspent' \subseteq [id : UTXOID, addrs : Output] /\ exported' \subseteq [id : UTXOID, addrs : Output]
    <2>1. TxsOK' /\ LedgerInv' /\ (Len(txs) \in 1 .. MaxTxs)'
            => (unspent \subseteq UTXOType /\ exported \subseteq UTXOType)'
      BY LedgerIsTyped, PTL
    <2>2. QED
      BY <1>7, <1>8, <1>10, <2>1 DEF UTXOType
  <1>12. staking' \subseteq DOMAIN txs'
    BY <1>5 DEF RewardsInv
  <1>13. synced' \in 0 .. Len(txs')
    BY <1>1, <1>2, <1>10 DEF Accepted, clientVars, TypeOK
  <1>14. /\ coins' \subseteq [id : UTXOID, account : Addr] /\ sent' \subseteq [id : UTXOID, account : Addr]
         /\ rejected' \subseteq UTXOID
    BY <1>1, <1>2 DEF Accepted, clientVars, TypeOK
  <1>15. TypeOK'
    BY <1>10, <1>11, <1>12, <1>13, <1>14 DEF TypeOK
  <1>16. QED
    BY <1>5, <1>6, <1>8, <1>9, <1>15 DEF IInv

LEMMA SyncPreserves ==
  ASSUME IInv, Sync
  PROVE  IInv'
  <1>1. TypeOK /\ TxsOK /\ InputsInv /\ ClientInv
    BY TxsAreOK DEF IInv
  <1>2. /\ ClientInv' /\ synced' \in 0 .. Len(txs)
        /\ coins' \subseteq CoinType /\ sent' \subseteq CoinType /\ rejected' \subseteq UTXOID
    BY <1>1, ClientReads
  <1>3. txs' = txs /\ unspent' = unspent /\ staking' = staking /\ rewards' = rewards /\ exported' = exported
    BY DEF Sync, chainVars
  <1>4. TypeOK'
    BY <1>1, <1>2, <1>3 DEF TypeOK, CoinType
  <1>5. (RewardsInv' <=> RewardsInv)
    BY <1>3 DEF RewardsInv, Ended
  <1>6. (InputsInv' <=> InputsInv) /\ (LedgerInv' <=> LedgerInv)
    BY <1>3 DEF InputsInv, LedgerInv, InputIds, SpentIds, Created, CreatedBy, Refunded, RefundedBy, RewardedTo, StakedBy,
                Stake, Ended, Exported, ExportedBy, Staked
  <1>7. QED
    BY <1>2, <1>4, <1>5, <1>6 DEF IInv

LEMMA InitEstablishes ==
  ASSUME Init
  PROVE  IInv
  <1>1. PICK outs \in Outputs :
            /\ txs = <<[kind |-> "import", ins |-> <<>>, imported |-> 0,
                        outs |-> outs, extra |-> <<>>, ref |-> 0]>>
            /\ unspent = Numbered(1, outs, 0)
    BY DEF Init
  <1>2. staking = {} /\ rewards = <<<<>>>> /\ exported = {} /\ synced = 0 /\ coins = {} /\ sent = {} /\ rejected = {}
    BY DEF Init
  <1> DEFINE x == [kind |-> "import", ins |-> <<>>, imported |-> 0, outs |-> outs, extra |-> <<>>, ref |-> 0]
  <1>3. x \in Tx
    <2>1. outs \in Seq(Output) /\ <<>> \in Seq(Output) /\ <<>> \in Seq(UTXOID) /\ 0 \in 0 .. MaxTxs
      BY ConstantsAssumption
    <2>2. QED
      BY <2>1 DEF Tx, Kind
  <1>4. x.kind = "import" /\ x.ins = <<>> /\ x.outs = outs
    OBVIOUS
  <1> HIDE DEF x
  <1>5. /\ txs \in Seq(Tx) /\ Len(txs) = 1 /\ DOMAIN txs = {1} /\ txs[1] = x
        /\ 1 .. 1 = {1} /\ 1 .. 0 = {} /\ 1 .. Len(txs) = {1}
    BY <1>1, <1>3 DEF x
  <1>6. rewards \in Seq(Seq(Output)) /\ Len(rewards) = 1 /\ rewards[1] = <<>>
    <2> DEFINE Outs == Seq(Output)
    <2>1. <<>> \in Outs
      OBVIOUS
    <2> HIDE DEF Outs
    <2>2. rewards \in Seq(Outs) /\ Len(rewards) = 1 /\ rewards[1] = <<>>
      BY <1>2, <2>1
    <2>3. QED
      BY <2>2 DEF Outs
  <1>7. RewardsInv
    BY <1>2, <1>4, <1>5, <1>6 DEF RewardsInv
  <1>8. InputIds(1) = {} /\ SpentIds(1) = {} /\ SpentIds(0) = {} /\ Created(0) = {} /\ Exported(0) = {}
    BY <1>4, <1>5 DEF InputIds, SpentIds, Created, Exported
  <1>9. InputsInv
    BY <1>4, <1>5, <1>8 DEF InputsInv
  <1>10. Created(1) = Numbered(1, outs, 0) /\ Refunded(1) = {} /\ Exported(1) = {}
    <2>1. ~Ended(1, 1)
      BY <1>4, <1>5 DEF Ended
    <2>2. CreatedBy(1, 1) = Numbered(1, outs, 0) /\ RefundedBy(1) = {} /\ ExportedBy(1) = {}
      BY <1>4, <1>5, <2>1 DEF CreatedBy, StakedBy, RefundedBy, ExportedBy
    <2>3. QED
      BY <1>5, <2>2 DEF Created, Refunded, Exported
  <1>11. Staked = {}
    BY <1>2 DEF Staked
  <1>12. LedgerInv
    BY <1>1, <1>2, <1>5, <1>8, <1>10, <1>11 DEF LedgerInv
  <1>13. ClientInv
    BY <1>2, <1>8 DEF ClientInv, Unshifted, ToCoins
  <1>14. TypeOK
    <2>1. TxsOK
      BY <1>5, <1>6, <1>7 DEF TxsOK
    <2>2. Len(txs) \in 1 .. MaxTxs
      BY <1>5, ConstantsAssumption
    <2>3. unspent \subseteq UTXOType
      BY <1>12, <2>1, <2>2, LedgerIsTyped
    <2>4. QED
      BY <1>2, <1>5, <1>6, <2>2, <2>3 DEF TypeOK, UTXOType
  <1>15. QED
    BY <1>7, <1>9, <1>12, <1>13, <1>14 DEF IInv

(* The invariant that the theorems below rest on *)
THEOREM Inductive == Spec => []IInv
  <1>1. Init => IInv
    BY InitEstablishes
  <1>2. IInv /\ [Next]_vars => IInv'
    <2> SUFFICES ASSUME IInv, [Next]_vars PROVE IInv'
      OBVIOUS
    <2>1. CASE ChainStep
      BY <2>1, AcceptPreserves
    <2>2. CASE Sync
      BY <2>2, SyncPreserves
    <2>3. CASE UNCHANGED vars
      <3>1. /\ txs' = txs /\ unspent' = unspent /\ staking' = staking /\ rewards' = rewards /\ exported' = exported
            /\ synced' = synced /\ coins' = coins /\ sent' = sent /\ rejected' = rejected
        BY <2>3 DEF vars, chainVars, clientVars
      <3>2. TypeOK'
        BY <3>1 DEF IInv, TypeOK
      <3>3. RewardsInv'
        BY <3>1 DEF IInv, RewardsInv, Ended
      <3>4. \A n : /\ Created(n)' = Created(n) /\ Refunded(n)' = Refunded(n)
                   /\ Exported(n)' = Exported(n) /\ SpentIds(n)' = SpentIds(n) /\ InputIds(n)' = InputIds(n)
        BY <3>1 DEF Created, CreatedBy, StakedBy, RewardedTo, Ended, Stake, SpentIds, InputIds, Exported,
                    ExportedBy, Refunded, RefundedBy
      <3>5. InputsInv'
        BY <3>1, <3>4 DEF IInv, InputsInv
      <3>6. /\ Created(Len(txs))' = Created(Len(txs)) /\ Refunded(Len(txs))' = Refunded(Len(txs))
            /\ Exported(Len(txs))' = Exported(Len(txs)) /\ SpentIds(Len(txs))' = SpentIds(Len(txs))
            /\ Created(synced)' = Created(synced) /\ Exported(synced)' = Exported(synced)
            /\ SpentIds(synced)' = SpentIds(synced)
        BY <3>1 DEF Created, CreatedBy, StakedBy, RewardedTo, Ended, Stake, SpentIds, InputIds, Exported,
                    ExportedBy, Refunded, RefundedBy
      <3>7. Staked' = Staked
        BY <3>1 DEF Staked, Stake
      <3>8. LedgerInv'
        BY <3>1, <3>6, <3>7 DEF IInv, LedgerInv
      <3>9. ClientInv'
        <4>1. Shifted' = Shifted
          BY <3>1 DEF Shifted
        <4>2. /\ Unshifted(coins)' = Unshifted(coins) /\ Unshifted(sent)' = Unshifted(sent)
              /\ ToCoins(Exported(synced))' = ToCoins(Exported(synced))
              /\ ToCoins({u \in Created(synced) : u.id \notin SpentIds(synced)})'
                    = ToCoins({u \in Created(synced) : u.id \notin SpentIds(synced)})
          BY <3>1, <3>6, <4>1 DEF Unshifted, ToCoins
        <4>3. ClientInv
          BY DEF IInv
        <4>4. QED
          BY <3>1, <4>1, <4>2, <4>3 DEF ClientInv
      <3>10. QED
        BY <3>2, <3>3, <3>5, <3>8, <3>9 DEF IInv
    <2>4. QED
      BY <2>1, <2>2, <2>3 DEF Next, ChainStep
  <1>3. QED
    BY <1>1, <1>2, PTL DEF Spec


-----------------------------------------------------------------------------
(* The theorems *)

(* Every variable stays within its type: no input, reward or coin names a  *)
(* transaction that is not in the chain, and the client is never ahead.    *)
THEOREM TypeCorrect == Spec => []TypeOK
  <1>1. IInv => TypeOK
    BY DEF IInv
  <1>2. QED
    BY <1>1, Inductive, PTL

(* The parser never fails on a transaction the chain accepted: whatever    *)
(* blocks came in between, each input is an output that its dependencies   *)
(* still list, with one owner, or one that isMultisig skips.               *)
THEOREM AllParse == Spec => []EveryTransactionParses
  <1>1. IInv => EveryTransactionParses
    <2> SUFFICES ASSUME IInv, NEW t \in synced + 1 .. Len(txs) PROVE ~ParseFails(t)
      BY DEF EveryTransactionParses
    <2>1. TxsOK /\ InputsInv /\ t \in DOMAIN txs
      BY TxsAreOK DEF IInv, TypeOK
    <2>2. QED
      BY <2>1, NothingFails
  <1>2. QED
    BY <1>1, Inductive, PTL

(* The operations of a transaction and those of its metadata are numbered  *)
(* from zero without gaps, for every kind of transaction.                  *)
THEOREM AllNumbered == Spec => []OperationsNumbered
  <1>1. IInv => OperationsNumbered
    <2> SUFFICES ASSUME IInv, NEW t \in synced + 1 .. Len(txs)
                 PROVE  LET parsed == Parse(t)
                            all == parsed.operations \o parsed.imported \o parsed.exported
                        IN  \A k \in DOMAIN all : all[k].index = k - 1
      BY DEF OperationsNumbered
    <2>1. TxsOK /\ InputsInv /\ t \in DOMAIN txs
      BY TxsAreOK DEF IInv, TypeOK
    <2>2. QED
      BY <2>1, NumberedWithoutGaps
  <1>2. QED
    BY <1>1, Inductive, PTL

(* Coin changes of transactions whose identifiers are not shifted can all  *)
(* be applied, in the order of the chain.                                  *)
THEOREM AllApply == Spec => []CoinChangesApply
  <1>1. IInv => CoinChangesApply
    BY DEF IInv, ClientInv, CoinChangesApply
  <1>2. QED
    BY <1>1, Inductive, PTL

(* What is unspent or staked is what was created and not spent. *)
LEMMA LedgerIsLive ==
  ASSUME TxsOK, LedgerInv, NEW n, n = Len(txs)
  PROVE  (unspent \ Refunds) \cup UNION {Stake(t) : t \in staking} = Live(n)
  <1>0. n \in 0 .. n /\ n \in 0 .. Len(txs) /\ n \in Nat
    BY DEF TxsOK
  <1>1. ASSUME NEW u \in Refunded(n), u \in unspent PROVE u \in Refunds
    <2>1. u.id[1] \in DOMAIN txs /\ u \in RefundedBy(u.id[1])
      BY <1>0, CreatedIn
    <2> DEFINE t == u.id[1]
    <2>2. t \in DOMAIN txs /\ u \in RefundedBy(t) /\ t = u.id[1]
      BY <2>1
    <2> HIDE DEF t
    <2>3. txs[t].kind = "l1" /\ u \in Numbered(t, <<Refund>>, Len(txs[t].outs))
      BY <2>2 DEF RefundedBy
    <2>4. Len(txs[t].outs) \in Nat /\ <<Refund>> \in Seq(Output)
      BY <2>2, TxFacts, RefundIsOutput
    <2>5. IsAt(u, t, <<Refund>>, Len(txs[t].outs))
      BY <2>3, <2>4, NumberedFacts
    <2>6. u.id[2] = Len(txs[t].outs)
      BY <2>4, <2>5 DEF IsAt
    <2>7. QED
      BY <1>1, <2>2, <2>3, <2>6 DEF Refunds
  <1>2. ASSUME NEW u \in Created(n), u \in Refunds PROVE FALSE
    <2> DEFINE t == u.id[1]
    <2>1. t \in DOMAIN txs /\ u \in CreatedBy(t, n) /\ t = u.id[1]
      BY <1>0, CreatedIn
    <2> HIDE DEF t
    <2>2. txs[t].kind = "l1" /\ u.id[2] = Len(txs[t].outs)
      BY <1>2, <2>1 DEF Refunds
    <2>3. ~Ended(t, n)
      BY <1>0, <2>1, <2>2, NoRewards
    <2>4. u \in Numbered(t, txs[t].outs, 0)
      BY <2>1, <2>2, <2>3 DEF CreatedBy, StakedBy
    <2>5. txs[t].outs \in Seq(Output) /\ Len(txs[t].outs) \in Nat
      BY <2>1, TxFacts
    <2>6. IsAt(u, t, txs[t].outs, 0)
      BY <2>4, <2>5, NumberedFacts
    <2>7. u.id[2] \in Nat /\ u.id[2] < 0 + Len(txs[t].outs)
      BY <2>6 DEF IsAt
    <2>8. QED
      BY <2>2, <2>5, <2>7
  <1>3. /\ \A u : u \in unspent <=> u \in Created(n) \cup Refunded(n) /\ u.id \notin SpentIds(n) /\ u \notin Staked
        /\ \A u \in Staked : u.id \notin SpentIds(n) /\ u \in Created(n)
    BY StakedIsCreated DEF LedgerInv
  <1>4. \A u : u \in (unspent \ Refunds) \cup Staked <=> u \in Created(n) /\ u.id \notin SpentIds(n)
    BY <1>1, <1>2, <1>3
  <1>5. QED
    BY <1>4 DEF Live, Staked

(* A client that has read the whole chain agrees with its ledger. *)
THEOREM CoinsAreLedger == Spec => []CoinsMatchLedger
  <1>1. IInv => CoinsMatchLedger
    <2> SUFFICES ASSUME IInv, synced = Len(txs)
                 PROVE  /\ Unshifted(coins) = ToCoins((unspent \ Refunds) \cup UNION {Stake(t) : t \in staking})
                        /\ Unshifted(sent) = ToCoins(exported)
      BY DEF CoinsMatchLedger
    <2>1. TxsOK /\ LedgerInv /\ ClientInv
      BY TxsAreOK DEF IInv
    <2>2. (unspent \ Refunds) \cup UNION {Stake(t) : t \in staking} = Live(synced)
      BY <2>1, LedgerIsLive
    <2>3. exported = Exported(synced)
      BY <2>1 DEF LedgerInv
    <2>4. QED
      BY <2>1, <2>2, <2>3 DEF ClientInv, Live
  <1>2. QED
    BY <1>1, Inductive, PTL

-----------------------------------------------------------------------------
(* Operations do not depend on what comes later. *)

(* The operations of the inputs, by what was created before them *)
Reads(created, id) == {u \in created : u.id = id /\ Single(u.addrs)}

InputsRead(created, ins) ==
    LET kept == Increasing({i \in DOMAIN ins : Reads(created, ins[i]) # {}})
    IN  AppendOps(newTxOps, "Ins", [k \in DOMAIN kept |->
            Op(OpsLen(newTxOps) + k - 1, ins[kept[k]],
               Owner((CHOOSE u \in Reads(created, ins[kept[k]]) : TRUE).addrs))])

ReadByCreation(t) ==
    Looked(t) => insToOperations(newTxOps, txs[t]) = InputsRead(Created(t - 1), txs[t].ins)

LEMMA InputsByCreation == TxsOK /\ InputsInv => \A d \in DOMAIN txs : ReadByCreation(d)
  <1> SUFFICES ASSUME TxsOK, InputsInv, NEW t \in DOMAIN txs, Looked(t)
               PROVE  insToOperations(newTxOps, txs[t]) = InputsRead(Created(t - 1), txs[t].ins)
    BY DEF ReadByCreation
  <1> DEFINE ins == txs[t].ins
             deps == GetTxDependenciesIDs(txs[t])
             found(id) == Reads(Created(t - 1), id)
             S == {i \in DOMAIN ins : found(ins[i]) # {}}
             M == {i \in DOMAIN ins : ~isMultisig(deps, ins[i])}
             p == Increasing(S)
             known(id) == (CHOOSE c \in GetReferencedAccounts(deps) : c.id = id).account
             owner(id) == Owner((CHOOSE u \in found(id) : TRUE).addrs)
  <1>1. ins \in Seq(UTXOID) /\ Len(ins) \in Nat /\ DOMAIN ins = 1 .. Len(ins)
    <2>1. ins \in Seq(UTXOID)
      BY TxFacts
    <2> HIDE DEF ins
    <2>2. QED
      BY <2>1
  <1>2. ASSUME NEW id \in InputIds(t)
        PROVE  /\ isMultisig(deps, id) <=> found(id) = {}
               /\ found(id) # {} => known(id) = owner(id)
    <2>1. /\ isMultisig(deps, id) <=> ~\E u \in Created(t - 1) : u.id = id /\ Single(u.addrs)
          /\ \A u \in Created(t - 1) : u.id = id /\ Single(u.addrs) =>
                /\ Coin(u) \in GetReferencedAccounts(deps)
                /\ \A c \in GetReferencedAccounts(deps) : c.id = id => c = Coin(u)
      <3> HIDE DEF deps
      <3>1. QED
        BY InputIs DEF deps
    <2> HIDE DEF deps
    <2>2. isMultisig(deps, id) <=> found(id) = {}
      BY <2>1 DEF Reads
    <2>3. ASSUME found(id) # {} PROVE known(id) = owner(id)
      <3> DEFINE u == CHOOSE u \in found(id) : TRUE
      <3>1. u \in found(id)
        BY <2>3
      <3> HIDE DEF u
      <3>2. /\ Coin(u) \in GetReferencedAccounts(deps) /\ Coin(u).id = id
            /\ \A c \in GetReferencedAccounts(deps) : c.id = id => c = Coin(u)
        BY <2>1, <3>1 DEF Reads, Coin
      <3>3. known(id) = Coin(u).account
        BY <3>2
      <3>4. QED
        BY <3>3 DEF Coin, u
    <2>4. QED
      BY <2>2, <2>3
  <1>3. \A i \in DOMAIN ins : ins[i] \in InputIds(t)
    BY DEF InputIds
  <1>4. M = S
    BY <1>2, <1>3
  <1>5. \A k \in DOMAIN p : p[k] \in S
    <2>1. S \in SUBSET (1 .. Len(ins))
      BY <1>1
    <2> HIDE DEF S, ins
    <2>2. QED
      BY <1>1, <2>1, KeptIndices
  <1>6. ASSUME NEW k \in DOMAIN p PROVE known(ins[p[k]]) = owner(ins[p[k]])
    <2> DEFINE i == p[k]
    <2>1. i \in DOMAIN ins /\ found(ins[i]) # {}
      BY <1>5
    <2> HIDE DEF i, found, known, owner, ins
    <2>2. ins[i] \in InputIds(t)
      BY <1>3, <2>1
    <2>3. QED
      BY <1>2, <2>1, <2>2 DEF i
  <1>7. insToOperations(newTxOps, txs[t]) =
            AppendOps(newTxOps, "Ins", [k \in DOMAIN p |-> Op(OpsLen(newTxOps) + k - 1, ins[p[k]], known(ins[p[k]]))])
    <2>1. insToOperations(newTxOps, txs[t]) =
            AppendOps(newTxOps, "Ins", [k \in DOMAIN Increasing(M) |->
                Op(OpsLen(newTxOps) + k - 1, ins[Increasing(M)[k]], known(ins[Increasing(M)[k]]))])
      BY DEF insToOperations, Positions
    <2> HIDE DEF M, S
    <2>2. QED
      BY <1>4, <2>1
  <1>8. InputsRead(Created(t - 1), ins) =
            AppendOps(newTxOps, "Ins", [k \in DOMAIN p |-> Op(OpsLen(newTxOps) + k - 1, ins[p[k]], owner(ins[p[k]]))])
    BY DEF InputsRead
  <1> HIDE DEF p, known, owner, ins
  <1>9. [k \in DOMAIN p |-> Op(OpsLen(newTxOps) + k - 1, ins[p[k]], known(ins[p[k]]))]
            = [k \in DOMAIN p |-> Op(OpsLen(newTxOps) + k - 1, ins[p[k]], owner(ins[p[k]]))]
    <2> DEFINE one(k) == Op(OpsLen(newTxOps) + k - 1, ins[p[k]], known(ins[p[k]]))
               other(k) == Op(OpsLen(newTxOps) + k - 1, ins[p[k]], owner(ins[p[k]]))
    <2>1. \A k \in DOMAIN p : one(k) = other(k)
      BY <1>6
    <2> HIDE DEF one, other
    <2>2. [k \in DOMAIN p |-> one(k)] = [k \in DOMAIN p |-> other(k)]
      BY <2>1
    <2>3. QED
      BY <2>2 DEF one, other
  <1>10. InputsRead(Created(t - 1), txs[t].ins) = InputsRead(Created(t - 1), ins)
    BY DEF ins
  <1>11. QED
    BY <1>7, <1>8, <1>9, <1>10

LEMMA OperationsKept ==
  ASSUME TxsOK, InputsInv, TxsOK', InputsInv', NEW x, NEW r, NEW n, Grown(n, x, r), NEW t \in 1 .. n
  PROVE  TxOps(t)' = TxOps(t)
  <1>0. /\ n = Len(txs) /\ n \in Nat /\ t \in DOMAIN txs /\ t \in DOMAIN txs' /\ txs'[t] = txs[t]
        /\ t - 1 \in 0 .. n
    BY DEF Grown
  <1>1. Looked(t) => insToOperations(newTxOps, txs[t])' = insToOperations(newTxOps, txs[t])
    <2>1. TxsOK' /\ InputsInv' => (\A d \in DOMAIN txs : ReadByCreation(d))'
      BY InputsByCreation, PTL
    <2>2. Looked(t)' => insToOperations(newTxOps, txs[t])' = InputsRead(Created(t - 1)', txs'[t].ins)
      BY <1>0, <2>1 DEF ReadByCreation
    <2>3. Looked(t)' <=> Looked(t)
      BY <1>0 DEF Looked
    <2>4. Created(t - 1)' = Created(t - 1)
      BY <1>0, AllKept
    <2>5. Looked(t) => insToOperations(newTxOps, txs[t]) = InputsRead(Created(t - 1), txs[t].ins)
      BY <1>0, InputsByCreation DEF ReadByCreation
    <2>6. QED
      BY <1>0, <2>2, <2>3, <2>4, <2>5
  <1>2. txs[t].kind = "reward" => /\ txs'[txs[t].ref] = txs[txs[t].ref]
                                  /\ rewards'[txs[t].ref] = rewards[txs[t].ref]
    <2> SUFFICES ASSUME txs[t].kind = "reward"
                 PROVE  /\ txs'[txs[t].ref] = txs[txs[t].ref]
                        /\ rewards'[txs[t].ref] = rewards[txs[t].ref]
      OBVIOUS
    <2>1. txs[t].ref \in 1 .. t - 1
      BY <1>0 DEF TxsOK, RewardsInv
    <2>2. txs[t].ref \in 1 .. n
      BY <1>0, <2>1
    <2>3. Ended(txs[t].ref, n)
      BY DEF Ended
    <2>4. QED
      BY <2>2, <2>3 DEF Grown
  <1>3. CASE txs[t].kind = "time"
    BY <1>0, <1>3 DEF TxOps
  <1>4. CASE txs[t].kind = "reward"
    <2>1. utxosToOperations(newTxOps, txs[t].ref)' = utxosToOperations(newTxOps, txs[t].ref)
      BY <1>0, <1>2, <1>4 DEF utxosToOperations
    <2>2. QED
      BY <1>0, <1>4, <2>1 DEF TxOps
  <1>5. CASE Looked(t)
    <2>1. insToOperations(newTxOps, txs[t])' = insToOperations(newTxOps, txs[t])
      BY <1>1, <1>5
    <2>2. baseTxToCombinedOperations(t, txs[t])' = baseTxToCombinedOperations(t, txs[t])
      BY <1>0, <2>1 DEF baseTxToCombinedOperations, outsToOperations
    <2>3. QED
      BY <1>0, <1>5, <2>1, <2>2 DEF TxOps, outsToOperations, importsToOperations, Looked
  <1>6. QED
    BY <1>3, <1>4, <1>5 DEF Looked

(* Asked for again after any later transaction, the end of its own staking *)
(* among them, a transaction has the operations it had.                    *)
THEOREM OperationsStay == Spec => OperationsNeverChange
  <1>1. IInv /\ IInv' /\ [Next]_vars =>
            [RewardsAdded => \A t \in DOMAIN txs : TxOps(t)' = TxOps(t)]_chainVars
    <2> SUFFICES ASSUME IInv, IInv', [Next]_vars, chainVars' # chainVars, NEW t \in DOMAIN txs
                 PROVE  TxOps(t)' = TxOps(t)
      OBVIOUS
    <2>1. TypeOK /\ TxsOK /\ RewardsInv /\ InputsInv
      BY TxsAreOK DEF IInv
    <2>2. TxsOK' /\ InputsInv'
      BY DEF IInv, TypeOK, TxsOK
    <2>3. ChainStep
      BY DEF Next, ChainStep, Sync, vars
    <2>4. PICK x, r : Accepted(x, r)
      BY <2>1, <2>3, ChainAccepts
    <2>5. PICK n : n = Len(txs)
      OBVIOUS
    <2>6. Grown(n, x, r)
      BY <2>1, <2>4, <2>5, ChainGrows
    <2>7. t \in 1 .. n
      BY <2>6 DEF Grown
    <2>8. QED
      BY <2>1, <2>2, <2>6, <2>7, OperationsKept
  <1>2. QED
    BY <1>1, Inductive, PTL DEF OperationsNeverChange, Spec

=============================================================================
