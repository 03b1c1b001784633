----------------------- MODULE UTXOConstructionProofs -----------------------
(***************************************************************************)
(* Proofs about UTXOConstruction, for any accounts, coins and intents and  *)
(* any number of spends of others.                                         *)
(*                                                                         *)
(* Builders choose operations, sort them and drop what their transactions  *)
(* have no place for; parsing puts the parts together again.  All of them  *)
(* make lists (see InductionLemmas) of the intended operations, and a list *)
(* of a list is a list: that is how each part of a transaction is followed *)
(* back to the operations it was made of.                                  *)
(***************************************************************************)
EXTENDS UTXOConstruction, InductionLemmas

-----------------------------------------------------------------------------
(* Sorting and choosing *)

(* t is s in another order. *)
Rearranges(t, s) == Lists(t, s, DOMAIN s)

(* Numbers can be sorted. *)
LEMMA KeySort ==
  ASSUME NEW n \in Nat, NEW K \in [1 .. n -> Nat]
  PROVE  \E r \in [1 .. n -> 1 .. n] :
            Permutes(r, 1 .. n) /\ \A i, j \in 1 .. n : i < j => ~(K[r[j]] < K[r[i]])
  <1> DEFINE R == {x \in (1 .. n) \X (1 .. n) : ~(K[x[2]] < K[x[1]])}
  <1>0. \A i \in 1 .. n : K[i] \in Nat
    OBVIOUS
  <1>2. \A i, j \in 1 .. n : <<i, j>> \in R <=> ~(K[j] < K[i])
    OBVIOUS
  <1> HIDE DEF R
  <1>1. Preorder(R, 1 .. n)
    <2>1. ASSUME NEW i \in 1 .. n, NEW j \in 1 .. n PROVE <<i, j>> \in R \/ <<j, i>> \in R
      BY <1>0, <1>2
    <2>2. ASSUME NEW i \in 1 .. n, NEW j \in 1 .. n, NEW k \in 1 .. n, <<i, j>> \in R, <<j, k>> \in R
          PROVE  <<i, k>> \in R
      BY <1>0, <1>2, <2>2
    <2>3. QED
      BY <2>1, <2>2 DEF Preorder
  <1>3. QED
    BY <1>1, <1>2, SortingPermutation

InPairOrder(r, n, K, L) ==
    \A i, j \in 1 .. n : i < j =>
        ~(K[r[j]] < K[r[i]] \/ (K[r[j]] = K[r[i]] /\ L[r[j]] < L[r[i]]))

PairSortable(n, K, L) ==
    \E r \in [1 .. n -> 1 .. n] : Permutes(r, 1 .. n) /\ InPairOrder(r, n, K, L)

(* Pairs of numbers can be sorted. *)
LEMMA PairSort ==
  ASSUME NEW n \in Nat, NEW K \in [1 .. n -> Nat], NEW L \in [1 .. n -> Nat]
  PROVE  PairSortable(n, K, L)
  <1> DEFINE R == {x \in (1 .. n) \X (1 .. n) :
                    ~(K[x[2]] < K[x[1]] \/ (K[x[2]] = K[x[1]] /\ L[x[2]] < L[x[1]]))}
  <1>0. \A i \in 1 .. n : K[i] \in Nat /\ L[i] \in Nat
    OBVIOUS
  <1>2. \A i, j \in 1 .. n : <<i, j>> \in R <=> ~(K[j] < K[i] \/ (K[j] = K[i] /\ L[j] < L[i]))
    OBVIOUS
  <1> HIDE DEF R
  <1>1. Preorder(R, 1 .. n)
    <2>1. ASSUME NEW i \in 1 .. n, NEW j \in 1 .. n PROVE <<i, j>> \in R \/ <<j, i>> \in R
      <3>1. K[i] \in Nat /\ L[i] \in Nat /\ K[j] \in Nat /\ L[j] \in Nat
        BY <1>0
      <3>2. /\ <<i, j>> \in R <=> ~(K[j] < K[i] \/ (K[j] = K[i] /\ L[j] < L[i]))
            /\ <<j, i>> \in R <=> ~(K[i] < K[j] \/ (K[i] = K[j] /\ L[i] < L[j]))
        BY <1>2
      <3>3. QED
        BY <3>1, <3>2
    <2>2. ASSUME NEW i \in 1 .. n, NEW j \in 1 .. n, NEW k \in 1 .. n, <<i, j>> \in R, <<j, k>> \in R
          PROVE  <<i, k>> \in R
      <3>1. /\ K[i] \in Nat /\ L[i] \in Nat /\ K[j] \in Nat /\ L[j] \in Nat
            /\ K[k] \in Nat /\ L[k] \in Nat
        BY <1>0
      <3>2. /\ ~(K[j] < K[i] \/ (K[j] = K[i] /\ L[j] < L[i]))
            /\ ~(K[k] < K[j] \/ (K[k] = K[j] /\ L[k] < L[j]))
        BY <1>2, <2>2
      <3>3. ~(K[k] < K[i] \/ (K[k] = K[i] /\ L[k] < L[i]))
        BY <3>1, <3>2
      <3>4. QED
        BY <1>2, <3>3
    <2>3. QED
      BY <2>1, <2>2 DEF Preorder
  <1>3. PICK r \in [1 .. n -> 1 .. n] :
            Permutes(r, 1 .. n) /\ \A i, j \in 1 .. n : i < j => <<r[i], r[j]>> \in R
    BY <1>1, SortingPermutation
  <1>4. InPairOrder(r, n, K, L)
    BY <1>2, <1>3 DEF InPairOrder
  <1>5. QED
    BY <1>3, <1>4 DEF PairSortable

InCoinOrder(s) == \A i, j \in DOMAIN s : i < j => s[i].coin <= s[j].coin

(* What the sorts of the builders return *)
LEMMA ByCoinSorts ==
  ASSUME NEW n \in Nat, NEW s, DOMAIN s = 1 .. n, \A i \in 1 .. n : s[i].coin \in Nat
  PROVE  /\ Rearranges(ByCoin(s), s) /\ DOMAIN ByCoin(s) = 1 .. n
         /\ InCoinOrder(ByCoin(s))
  <1> DEFINE K == [i \in 1 .. n |-> s[i].coin]
             Good(q) == /\ Permutes(q, 1 .. n)
                        /\ \A i, j \in 1 .. n : i < j => ~(s[q[j]].coin < s[q[i]].coin)
             q == CHOOSE q \in [1 .. n -> 1 .. n] : Good(q)
  <1>1. K \in [1 .. n -> Nat] /\ \A i \in 1 .. n : K[i] = s[i].coin
    OBVIOUS
  <1> HIDE DEF K
  <1>2. PICK r \in [1 .. n -> 1 .. n] :
            Permutes(r, 1 .. n) /\ \A i, j \in 1 .. n : i < j => ~(K[r[j]] < K[r[i]])
    BY <1>1, KeySort
  <1>3. Good(r)
    BY <1>1, <1>2
  <1>4. q \in [1 .. n -> 1 .. n] /\ Good(q)
    <2> HIDE DEF Good
    <2>1. QED
      BY <1>2, <1>3
  <1>5. ByCoin(s) = [i \in 1 .. n |-> s[q[i]]]
    BY DEF ByCoin, Arranged
  <1> HIDE DEF q
  <1>6. Permutes(q, 1 .. n)
    BY <1>4
  <1> HIDE DEF Good
  <1>7. Rearranges(ByCoin(s), s)
    <2>1. Lists([i \in 1 .. n |-> s[q[i]]], s, 1 .. n)
      BY <1>6, PermutedLists
    <2>2. QED
      BY <1>5, <2>1 DEF Rearranges
  <1>8. ASSUME NEW i \in 1 .. n, NEW j \in 1 .. n, i < j
        PROVE  ByCoin(s)[i].coin <= ByCoin(s)[j].coin
    <2> DEFINE a == s[q[i]].coin
               b == s[q[j]].coin
    <2>1. q[i] \in 1 .. n /\ q[j] \in 1 .. n
      BY <1>4
    <2>2. ~(b < a) /\ a \in Nat /\ b \in Nat
      BY <1>4, <1>8, <2>1 DEF Good
    <2>3. ByCoin(s)[i].coin = a /\ ByCoin(s)[j].coin = b
      BY <1>5
    <2> HIDE DEF a, b
    <2>4. a <= b
      BY <2>2
    <2>5. QED
      BY <2>3, <2>4
  <1>9. DOMAIN ByCoin(s) = 1 .. n
    BY <1>5
  <1>10. QED
    BY <1>7, <1>8, <1>9 DEF InCoinOrder

LEMMA ByAccountRearranges ==
  ASSUME NEW n \in Nat, NEW s, DOMAIN s = 1 .. n, \A i \in 1 .. n : s[i].account \in Nat
  PROVE  Rearranges(ByAccount(s), s)
  <1> DEFINE K == [i \in 1 .. n |-> s[i].account]
             Good(q) == /\ Permutes(q, 1 .. n)
                        /\ \A i, j \in 1 .. n : i < j => ~(s[q[j]].account < s[q[i]].account)
             q == CHOOSE q \in [1 .. n -> 1 .. n] : Good(q)
  <1>1. K \in [1 .. n -> Nat] /\ \A i \in 1 .. n : K[i] = s[i].account
    OBVIOUS
  <1> HIDE DEF K
  <1>2. PICK r \in [1 .. n -> 1 .. n] :
            Permutes(r, 1 .. n) /\ \A i, j \in 1 .. n : i < j => ~(K[r[j]] < K[r[i]])
    BY <1>1, KeySort
  <1>3. Good(r)
    BY <1>1, <1>2
  <1>4. q \in [1 .. n -> 1 .. n] /\ Good(q)
    <2> HIDE DEF Good
    <2>1. QED
      BY <1>2, <1>3
  <1>5. ByAccount(s) = [i \in 1 .. n |-> s[q[i]]]
    BY DEF ByAccount, Arranged
  <1> HIDE DEF q
  <1>6. Permutes(q, 1 .. n)
    BY <1>4
  <1> HIDE DEF Good
  <1>7. Rearranges(ByAccount(s), s)
    <2>1. Lists([i \in 1 .. n |-> s[q[i]]], s, 1 .. n)
      BY <1>6, PermutedLists
    <2>2. QED
      BY <1>5, <2>1 DEF Rearranges
  <1>8. QED
    BY <1>7

LEMMA ByAmountRearranges ==
  ASSUME NEW n \in Nat, NEW s, DOMAIN s = 1 .. n,
         \A i \in 1 .. n : s[i].amount \in Nat /\ s[i].account \in Nat
  PROVE  Rearranges(ByAmount(s), s)
  <1> DEFINE K == [i \in 1 .. n |-> s[i].amount]
             L == [i \in 1 .. n |-> s[i].account]
             Good(q) == /\ Permutes(q, 1 .. n)
                        /\ \A i, j \in 1 .. n : i < j =>
                                ~(s[q[j]].amount < s[q[i]].amount
                                  \/ (s[q[j]].amount = s[q[i]].amount /\ s[q[j]].account < s[q[i]].account))
             q == CHOOSE q \in [1 .. n -> 1 .. n] : Good(q)
  <1>1. /\ K \in [1 .. n -> Nat] /\ \A i \in 1 .. n : K[i] = s[i].amount
        /\ L \in [1 .. n -> Nat] /\ \A i \in 1 .. n : L[i] = s[i].account
    OBVIOUS
  <1> HIDE DEF K, L
  <1>2. PICK r \in [1 .. n -> 1 .. n] :
            Permutes(r, 1 .. n) /\ InPairOrder(r, n, K, L)
    <2>1. K \in [1 .. n -> Nat] /\ L \in [1 .. n -> Nat]
      BY <1>1
    <2>2. PairSortable(n, K, L)
      BY <2>1, PairSort
    <2>3. QED
      BY <2>2 DEF PairSortable
  <1>3. Good(r)
    <2>1. ASSUME NEW i \in 1 .. n, NEW j \in 1 .. n, i < j
          PROVE  ~(s[r[j]].amount < s[r[i]].amount
                   \/ (s[r[j]].amount = s[r[i]].amount /\ s[r[j]].account < s[r[i]].account))
      <3>1. r[i] \in 1 .. n /\ r[j] \in 1 .. n
        BY <1>2
      <3>2. ~(K[r[j]] < K[r[i]] \/ (K[r[j]] = K[r[i]] /\ L[r[j]] < L[r[i]]))
        BY <1>2, <2>1 DEF InPairOrder
      <3>3. /\ K[r[i]] = s[r[i]].amount /\ K[r[j]] = s[r[j]].amount
            /\ L[r[i]] = s[r[i]].account /\ L[r[j]] = s[r[j]].account
        BY <1>1, <3>1
      <3>4. QED
        BY <3>2, <3>3
    <2>2. QED
      BY <1>2, <2>1
  <1>4. q \in [1 .. n -> 1 .. n] /\ Good(q)
    <2> HIDE DEF Good
    <2>1. QED
      BY <1>2, <1>3
  <1>5. ByAmount(s) = [i \in 1 .. n |-> s[q[i]]]
    BY DEF ByAmount, Arranged
  <1> HIDE DEF q
  <1>6. Permutes(q, 1 .. n)
    BY <1>4
  <1> HIDE DEF Good
  <1>7. Lists([i \in 1 .. n |-> s[q[i]]], s, 1 .. n)
    BY <1>6, PermutedLists
  <1>8. QED
    BY <1>5, <1>7 DEF Rearranges

(* Positions of operations *)
InsOf(ops) == {i \in DOMAIN ops : ops[i].side = "in"}
OutsOf(ops) == {i \in DOMAIN ops : ops[i].side = "out"}
KindAt(ops, P, kind) == {i \in P : ops[i].kind = kind}

(* The inputs and the outputs of an intent are its operations of each      *)
(* side.                                                                   *)
LEMMA InsLists ==
  ASSUME NEW n \in Nat, NEW ops, DOMAIN ops = 1 .. n
  PROVE  Lists(Ins(ops), ops, InsOf(ops))
  <1> DEFINE S == {i \in 1 .. n : ops[i].side = "in"}
  <1>1. Ins(ops) = [k \in DOMAIN Increasing(S) |-> ops[Increasing(S)[k]]] /\ InsOf(ops) = S
    BY DEF Ins, Where, Positions, InsOf
  <1>2. S \in SUBSET (1 .. n)
    OBVIOUS
  <1> HIDE DEF S
  <1>3. Lists([k \in DOMAIN Increasing(S) |-> ops[Increasing(S)[k]]], ops, S)
    BY <1>2, ChosenLists
  <1>4. QED
    BY <1>1, <1>3

LEMMA OutsLists ==
  ASSUME NEW n \in Nat, NEW ops, DOMAIN ops = 1 .. n
  PROVE  Lists(Outs(ops), ops, OutsOf(ops))
  <1> DEFINE S == {i \in 1 .. n : ops[i].side = "out"}
  <1>1. Outs(ops) = [k \in DOMAIN Increasing(S) |-> ops[Increasing(S)[k]]] /\ OutsOf(ops) = S
    BY DEF Outs, Where, Positions, OutsOf
  <1>2. S \in SUBSET (1 .. n)
    OBVIOUS
  <1> HIDE DEF S
  <1>3. Lists([k \in DOMAIN Increasing(S) |-> ops[Increasing(S)[k]]], ops, S)
    BY <1>2, ChosenLists
  <1>4. QED
    BY <1>1, <1>3

(* Choosing a kind among chosen operations *)
LEMMA OfKindLists ==
  ASSUME NEW s, NEW ops, NEW P, Lists(s, ops, P), NEW kind
  PROVE  Lists(OfKind(s, kind), ops, KindAt(ops, P, kind))
  <1>1. PICK n \in Nat : DOMAIN s = 1 .. n
    BY ListDomain
  <1> DEFINE S == {i \in 1 .. n : s[i].kind = kind}
  <1>2. OfKind(s, kind) = [k \in DOMAIN Increasing(S) |-> s[Increasing(S)[k]]]
    BY <1>1 DEF OfKind, Where, Positions
  <1>3. S \in SUBSET (1 .. n) /\ \A i \in DOMAIN s : \A p \in P : s[i] = ops[p] => (i \in S <=> p \in KindAt(ops, P, kind))
    BY <1>1 DEF KindAt
  <1> HIDE DEF S
  <1>4. Lists([k \in DOMAIN Increasing(S) |-> s[Increasing(S)[k]]], s, S)
    BY <1>1, <1>3, ChosenLists
  <1>5. KindAt(ops, P, kind) \in SUBSET P
    BY DEF KindAt
  <1>6. S \subseteq DOMAIN s
    BY <1>1, <1>3
  <1> DEFINE t == [k \in DOMAIN Increasing(S) |-> s[Increasing(S)[k]]]
             Q == KindAt(ops, P, kind)
  <1>7. Lists(t, s, S) /\ Q \in SUBSET P
        /\ \A i \in DOMAIN s : \A p \in P : s[i] = ops[p] => (i \in S <=> p \in Q)
    BY <1>3, <1>4, <1>5
  <1> HIDE DEF t, Q
  <1>8. Lists(t, ops, Q)
    BY <1>6, <1>7, ListOfList
  <1>9. QED
    BY <1>2, <1>8 DEF t, Q

(* Sorting a list leaves it a list of the same elements. *)
LEMMA RearrangedLists ==
  ASSUME NEW s, NEW R, NEW P, Lists(s, R, P), NEW t, Rearranges(t, s)
  PROVE  Lists(t, R, P)
  <1> DEFINE S == DOMAIN s
  <1>1. Lists(t, s, S) /\ S \subseteq DOMAIN s
    BY DEF Rearranges
  <1>2. \A i \in DOMAIN s : \A p \in P : s[i] = R[p] => (i \in S <=> p \in P)
    OBVIOUS
  <1> HIDE DEF S
  <1>3. QED
    BY <1>1, <1>2, ListOfList
-----------------------------------------------------------------------------
(* Intents and the accounts that travel with the transaction *)

IntentOps(ops, n) == ops \in Seq(Operation) /\ n \in Nat /\ DOMAIN ops = 1 .. n

(* What the assumption on Intents says of one intent *)
LEMMA IntentFacts ==
  ASSUME NEW q \in Intents
  PROVE  /\ q.type \in PTypes \cup CTypes /\ q.ops \in Seq(Operation) /\ q.nonce \in Nat \cup {-1}
         /\ Meaningful(q)
         /\ \E n \in Nat : IntentOps(q.ops, n)
  <1>1. q \in Intent /\ Meaningful(q)
    BY ConstantsAssumption
  <1>2. q.type \in PTypes \cup CTypes /\ q.ops \in Seq(Operation) /\ q.nonce \in Nat \cup {-1}
    BY <1>1 DEF Intent
  <1>3. Len(q.ops) \in Nat /\ DOMAIN q.ops = 1 .. Len(q.ops)
    BY <1>2
  <1>4. QED
    BY <1>1, <1>2, <1>3 DEF IntentOps

(* What is known of an input *)
LEMMA InFacts ==
  ASSUME NEW n, NEW ops, IntentOps(ops, n), NEW p \in InsOf(ops)
  PROVE  /\ ops[p].account \in Account /\ ops[p].account \in Nat
         /\ ops[p].coin \in Coins \cup {0} /\ ops[p].coin \in Nat
         /\ ops[p].amount \in Nat /\ ops[p].kind \in Kind /\ ops[p].sigs \in Nat
         /\ ops[p] = [side |-> "in", account |-> ops[p].account, coin |-> ops[p].coin,
                      amount |-> ops[p].amount, kind |-> ops[p].kind, sigs |-> ops[p].sigs]
  <1>1. ops[p] \in Operation /\ ops[p].side = "in"
    BY DEF IntentOps, InsOf
  <1>2. ops[p] \in [side : {"in"}, account : Account, coin : Coins \cup {0}, amount : Nat,
                    kind : Kind, sigs : Nat]
    BY <1>1 DEF Operation
  <1>3. (\A x \in Account : x \in Nat) /\ \A x \in Coins \cup {0} : x \in Nat
    BY ConstantsAssumption
  <1>4. /\ ops[p].account \in Account /\ ops[p].coin \in Coins \cup {0}
        /\ ops[p].amount \in Nat /\ ops[p].kind \in Kind /\ ops[p].sigs \in Nat
    BY <1>2
  <1>5. ops[p].account \in Nat /\ ops[p].coin \in Nat
    BY <1>3, <1>4
  <1>6. ops[p] = [side |-> "in", account |-> ops[p].account, coin |-> ops[p].coin,
                  amount |-> ops[p].amount, kind |-> ops[p].kind, sigs |-> ops[p].sigs]
    BY <1>2
  <1>7. QED
    BY <1>4, <1>5, <1>6

(* What is known of an output *)
LEMMA OutFacts ==
  ASSUME NEW n, NEW ops, IntentOps(ops, n), NEW p \in OutsOf(ops)
  PROVE  /\ ops[p].account \in Account /\ ops[p].account \in Nat /\ ops[p].coin = 0
         /\ ops[p].amount \in Nat /\ ops[p].kind \in Kind /\ ops[p].sigs = 0
         /\ ops[p] = [side |-> "out", account |-> ops[p].account, coin |-> 0,
                      amount |-> ops[p].amount, kind |-> ops[p].kind, sigs |-> 0]
  <1>1. ops[p] \in Operation /\ ops[p].side = "out"
    BY DEF IntentOps, OutsOf
  <1>2. ops[p] \in [side : {"out"}, account : Account, coin : {0}, amount : Nat,
                    kind : Kind, sigs : {0}]
    BY <1>1 DEF Operation
  <1>3. Account \subseteq Nat
    BY ConstantsAssumption
  <1>4. QED
    BY <1>2, <1>3

(* An operation is an input or an output. *)
LEMMA SidesFacts ==
  ASSUME NEW n, NEW ops, IntentOps(ops, n)
  PROVE  InsOf(ops) \cap OutsOf(ops) = {} /\ InsOf(ops) \cup OutsOf(ops) = 1 .. n
         /\ InsOf(ops) \subseteq 1 .. n /\ OutsOf(ops) \subseteq 1 .. n
  <1>1. \A p \in 1 .. n : ops[p] \in Operation
    BY DEF IntentOps
  <1>2. \A p \in 1 .. n : ops[p].side \in {"in", "out"}
    BY <1>1 DEF Operation
  <1>3. DOMAIN ops = 1 .. n
    BY DEF IntentOps
  <1>4. QED
    BY <1>2, <1>3 DEF InsOf, OutsOf

SignersOf(ops) == Map(Ins(ops), LAMBDA op : [coin |-> op.coin, account |-> op.account])
PayloadsOf(ops) == Map(Ins(ops), LAMBDA op : op.account)

(* The account of a known coin is that of one of its entries. *)
LEMMA AccountKnown ==
  ASSUME NEW n \in Nat, NEW s, DOMAIN s = 1 .. n, NEW c \in KnownCoins(s)
  PROVE  \E i \in 1 .. n : s[i].coin = c /\ AccountOf(s, c) = s[i].account
  <1> DEFINE S == {i \in 1 .. n : s[i].coin = c}
             Last(i) == s[i].coin = c /\ \A j \in DOMAIN s : s[j].coin = c => j <= i
             last == CHOOSE i \in DOMAIN s : Last(i)
  <1>1. S \in SUBSET Int /\ S # {}
    BY DEF KnownCoins
  <1>2. IsFiniteSet(S)
    <2>1. IsFiniteSet(1 .. n) /\ S \subseteq 1 .. n
      BY FS_Interval
    <2> HIDE DEF S
    <2>2. QED
      BY <2>1, FS_Subset
  <1>3. PICK x \in S : \A y \in S : y <= x
    <2> HIDE DEF S
    <2>1. QED
      BY <1>1, <1>2, GreatestInt
  <1>4. x \in DOMAIN s /\ Last(x)
    BY <1>3
  <1>5. last \in DOMAIN s /\ Last(last)
    <2> HIDE DEF Last
    <2>1. QED
      BY <1>4
  <1>6. AccountOf(s, c) = s[last].account
    BY DEF AccountOf
  <1> HIDE DEF last
  <1>7. QED
    BY <1>5, <1>6

(* The accounts that travel are those of the inputs. *)
OwnersListed(ops) ==
    \E m \in Nat :
        /\ DOMAIN SignersOf(ops) = 1 .. m /\ DOMAIN Ins(ops) = 1 .. m
        /\ \A i \in 1 .. m : \E p \in InsOf(ops) :
                SignersOf(ops)[i] = [coin |-> ops[p].coin, account |-> ops[p].account]
        /\ \A p \in InsOf(ops) : \E i \in 1 .. m :
                SignersOf(ops)[i] = [coin |-> ops[p].coin, account |-> ops[p].account]

LEMMA SignersList ==
  ASSUME NEW n, NEW ops, IntentOps(ops, n)
  PROVE  OwnersListed(ops)
  <1>1. n \in Nat /\ DOMAIN ops = 1 .. n
    BY DEF IntentOps
  <1>2. Lists(Ins(ops), ops, InsOf(ops))
    BY <1>1, InsLists
  <1>3. PICK m \in Nat : DOMAIN Ins(ops) = 1 .. m
    BY <1>2, ListDomain
  <1>4. /\ \A i \in 1 .. m : \E p \in InsOf(ops) : Ins(ops)[i] = ops[p]
        /\ \A p \in InsOf(ops) : \E i \in 1 .. m : Ins(ops)[i] = ops[p]
    BY <1>2, <1>3, ListElements
  <1>5. /\ DOMAIN SignersOf(ops) = 1 .. m
        /\ \A i \in 1 .. m : SignersOf(ops)[i] = [coin |-> Ins(ops)[i].coin, account |-> Ins(ops)[i].account]
    BY <1>3 DEF SignersOf, Map
  <1>6. ASSUME NEW i \in 1 .. m
        PROVE  \E p \in InsOf(ops) : SignersOf(ops)[i] = [coin |-> ops[p].coin, account |-> ops[p].account]
    <2>1. PICK p \in InsOf(ops) : Ins(ops)[i] = ops[p]
      BY <1>4
    <2>2. QED
      BY <1>5, <2>1
  <1>7. ASSUME NEW p \in InsOf(ops)
        PROVE  \E i \in 1 .. m : SignersOf(ops)[i] = [coin |-> ops[p].coin, account |-> ops[p].account]
    <2>1. PICK i \in 1 .. m : Ins(ops)[i] = ops[p]
      BY <1>4
    <2>2. QED
      BY <1>5, <2>1
  <1>8. QED
    BY <1>3, <1>5, <1>6, <1>7 DEF OwnersListed

(* The coins of the inputs are known, with the accounts of their inputs. *)
LEMMA OwnersTravel ==
  ASSUME NEW q \in Intents, q.type # "EXPORT", ~NoMatch(q.type, q.ops), NEW p \in InsOf(q.ops)
  PROVE  /\ q.ops[p].coin # 0
         /\ q.ops[p].coin \in KnownCoins(SignersOf(q.ops))
         /\ AccountOf(SignersOf(q.ops), q.ops[p].coin) = q.ops[p].account
  <1> DEFINE ops == q.ops
             sg == SignersOf(ops)
             c == ops[p].coin
  <1>1. PICK n \in Nat : IntentOps(ops, n)
    BY IntentFacts
  <1>2. c # 0
    BY DEF NoMatch, InsOf
  <1>3. PICK m \in Nat :
            /\ DOMAIN sg = 1 .. m
            /\ \A i \in 1 .. m : \E r \in InsOf(ops) :
                    sg[i] = [coin |-> ops[r].coin, account |-> ops[r].account]
            /\ \A r \in InsOf(ops) : \E i \in 1 .. m :
                    sg[i] = [coin |-> ops[r].coin, account |-> ops[r].account]
    <2>1. OwnersListed(ops)
      BY <1>1, SignersList
    <2>2. QED
      BY <2>1 DEF OwnersListed
  <1> HIDE DEF sg
  <1>4. PICK i \in 1 .. m : sg[i] = [coin |-> ops[p].coin, account |-> ops[p].account]
    BY <1>3
  <1>5. c \in KnownCoins(sg)
    BY <1>3, <1>4 DEF KnownCoins
  <1>6. PICK j \in 1 .. m : sg[j].coin = c /\ AccountOf(sg, c) = sg[j].account
    BY <1>3, <1>5, AccountKnown
  <1>7. PICK r \in InsOf(ops) : sg[j] = [coin |-> ops[r].coin, account |-> ops[r].account]
    BY <1>3
  <1>8. ops[r].account = ops[p].account
    <2>1. r \in DOMAIN ops /\ p \in DOMAIN ops /\ ops[r].coin = ops[p].coin
      BY <1>6, <1>7 DEF InsOf
    <2>2. QED
      BY <1>2, <2>1, IntentFacts DEF Meaningful
  <1>9. QED
    BY <1>2, <1>5, <1>6, <1>7, <1>8 DEF sg
-----------------------------------------------------------------------------
(* What the parts of a transaction parse as *)

(* The operations an intent means: an export from the C-chain spends no    *)
(* coins.                                                                  *)
Meant(q) ==
    [p \in DOMAIN q.ops |->
        IF q.type = "EXPORT" /\ q.ops[p].side = "in"
        THEN [side |-> "in", account |-> q.ops[p].account, coin |-> 0,
              amount |-> q.ops[p].amount, kind |-> "INPUT", sigs |-> 1]
        ELSE q.ops[p]]

(* Parts of a transaction as operations *)
InOps(ins, sg, kind) == Map(ins, LAMBDA in : InOp(sg, in, kind))
EVMInOps(ins) == Map(ins, EVMInOp)
OutOps(outs, kind) == Map(outs, LAMBDA out : OutOp(out, kind))
OutputsOf(ops) == ByAmount(Map(ops, Out))

(* Coins whose accounts travel with the transaction *)
AreKnown(ins, ops) == \A i \in DOMAIN ins : ins[i].coin \in KnownCoins(SignersOf(ops))

Spends(q) == q \in Intents /\ q.type # "EXPORT" /\ ~NoMatch(q.type, q.ops)

(* The inputs that the builders make of the operations of a kind, sorted   *)
(* by coin                                                                 *)
LEMMA InputsMade ==
  ASSUME NEW q, Spends(q), NEW n, IntentOps(q.ops, n), NEW kind
  PROVE  LET P == KindAt(q.ops, InsOf(q.ops), kind)
             R == [p \in P |-> Input(q.ops[p])]
         IN  Lists(buildInputs(q.ops, kind), R, P) /\ InCoinOrder(buildInputs(q.ops, kind))
  <1> DEFINE ops == q.ops
             P == KindAt(ops, InsOf(ops), kind)
             R == [p \in P |-> Input(ops[p])]
             a == OfKind(Ins(ops), kind)
             b == Map(a, Input)
  <1>1. n \in Nat /\ DOMAIN ops = 1 .. n
    BY DEF IntentOps
  <1>2. Lists(Ins(ops), ops, InsOf(ops))
    BY <1>1, InsLists
  <1>3. Lists(a, ops, P)
    BY <1>2, OfKindLists
  <1>4. \A p \in P : p \in InsOf(ops) /\ R[p] = Input(ops[p]) /\ R[p].coin \in Nat
    <2>1. ASSUME NEW p \in P PROVE p \in InsOf(ops) /\ R[p] = Input(ops[p]) /\ R[p].coin \in Nat
      <3>1. p \in InsOf(ops)
        BY DEF KindAt
      <3>2. ops[p].coin \in Nat
        BY <3>1, InFacts
      <3>3. QED
        BY <3>1, <3>2 DEF Input
    <2>2. QED
      BY <2>1
  <1>5. b = [i \in DOMAIN a |-> b[i]] /\ \A i \in DOMAIN a : b[i] = Input(a[i])
    BY DEF Map
  <1>6. buildInputs(ops, kind) = ByCoin(b)
    BY DEF buildInputs
  <1> HIDE DEF P, R, a, b
  <1>7. \A i \in DOMAIN a : \A p \in P : a[i] = ops[p] => b[i] = R[p]
    BY <1>4, <1>5
  <1>8. Lists(b, R, P)
    BY <1>3, <1>5, <1>7, MappedLists
  <1>9. PICK m \in Nat : DOMAIN b = 1 .. m
    BY <1>8, ListDomain
  <1>10. \A i \in 1 .. m : b[i].coin \in Nat
    <2>1. \A i \in 1 .. m : \E p \in P : b[i] = R[p]
      BY <1>8, <1>9, ListElements
    <2>2. QED
      BY <1>4, <2>1
  <1>11. Rearranges(ByCoin(b), b) /\ InCoinOrder(ByCoin(b))
    BY <1>9, <1>10, ByCoinSorts
  <1>12. Lists(ByCoin(b), R, P)
    BY <1>8, <1>11, RearrangedLists
  <1>13. QED
    BY <1>6, <1>11, <1>12 DEF P, R

(* They parse as these operations. *)
LEMMA InputsParsed ==
  ASSUME NEW q, Spends(q), NEW n, IntentOps(q.ops, n), NEW kind
  PROVE  /\ Lists(InOps(buildInputs(q.ops, kind), SignersOf(q.ops), kind),
                  q.ops, KindAt(q.ops, InsOf(q.ops), kind))
         /\ AreKnown(buildInputs(q.ops, kind), q.ops)
  <1> DEFINE ops == q.ops
             sg == SignersOf(ops)
             P == KindAt(ops, InsOf(ops), kind)
             R == [p \in P |-> Input(ops[p])]
             c == buildInputs(ops, kind)
             d == InOps(c, sg, kind)
  <1>1. Lists(c, R, P)
    BY InputsMade
  <1>2. ASSUME NEW p \in P
        PROVE  InOp(sg, R[p], kind) = ops[p] /\ R[p].coin \in KnownCoins(sg)
    <2>1. p \in InsOf(ops) /\ ops[p].kind = kind
      BY DEF KindAt
    <2>2. AccountOf(sg, ops[p].coin) = ops[p].account /\ ops[p].coin \in KnownCoins(sg)
      BY <2>1, OwnersTravel DEF Spends
    <2>3. R[p] = [coin |-> ops[p].coin, amount |-> ops[p].amount, sigs |-> ops[p].sigs]
      BY DEF Input
    <2>4. ops[p] = [side |-> "in", account |-> ops[p].account, coin |-> ops[p].coin,
                    amount |-> ops[p].amount, kind |-> ops[p].kind, sigs |-> ops[p].sigs]
      BY <2>1, InFacts
    <2> HIDE DEF sg, R
    <2>5. InOp(sg, R[p], kind) = [side |-> "in", account |-> ops[p].account, coin |-> ops[p].coin,
                    amount |-> ops[p].amount, kind |-> kind, sigs |-> ops[p].sigs]
      BY <2>2, <2>3 DEF InOp
    <2>6. QED
      BY <2>1, <2>2, <2>3, <2>4, <2>5
  <1>3. d = [i \in DOMAIN c |-> d[i]] /\ \A i \in DOMAIN c : d[i] = InOp(sg, c[i], kind)
    BY DEF InOps, Map
  <1> HIDE DEF sg, P, R, c, d
  <1>4. \A i \in DOMAIN c : \A p \in P : c[i] = R[p] => d[i] = ops[p]
    BY <1>2, <1>3
  <1>5. Lists(d, ops, P)
    BY <1>1, <1>3, <1>4, MappedLists
  <1>6. \A i \in DOMAIN c : \E p \in P : c[i] = R[p]
    BY <1>1, ListElements
  <1>7. AreKnown(c, ops)
    BY <1>2, <1>6 DEF AreKnown, sg
  <1>8. QED
    BY <1>5, <1>7 DEF sg, P, c, d

(* The same of the imported inputs of the C-chain *)
LEMMA ImportedMade ==
  ASSUME NEW q, Spends(q), NEW n, IntentOps(q.ops, n)
  PROVE  LET P == InsOf(q.ops)
             R == [p \in P |-> [Input(q.ops[p]) EXCEPT !.sigs = 1]]
         IN  Lists(buildImportedInputs(q.ops), R, P) /\ InCoinOrder(buildImportedInputs(q.ops))
  <1> DEFINE ops == q.ops
             P == InsOf(ops)
             R == [p \in P |-> [Input(ops[p]) EXCEPT !.sigs = 1]]
             a == Ins(ops)
             b == Map(a, LAMBDA op : [Input(op) EXCEPT !.sigs = 1])
  <1>1. n \in Nat /\ DOMAIN ops = 1 .. n
    BY DEF IntentOps
  <1>2. Lists(a, ops, P)
    BY <1>1, InsLists
  <1>3. \A p \in P : R[p] = [Input(ops[p]) EXCEPT !.sigs = 1] /\ R[p].coin \in Nat
    <2>1. ASSUME NEW p \in P PROVE R[p] = [Input(ops[p]) EXCEPT !.sigs = 1] /\ R[p].coin \in Nat
      <3>1. ops[p].coin \in Nat
        BY InFacts
      <3>2. QED
        BY <3>1 DEF Input
    <2>2. QED
      BY <2>1
  <1>4. b = [i \in DOMAIN a |-> b[i]] /\ \A i \in DOMAIN a : b[i] = [Input(a[i]) EXCEPT !.sigs = 1]
    BY DEF Map
  <1>5. buildImportedInputs(ops) = ByCoin(b)
    BY DEF buildImportedInputs
  <1> HIDE DEF P, R, a, b
  <1>6. \A i \in DOMAIN a : \A p \in P : a[i] = ops[p] => b[i] = R[p]
    BY <1>3, <1>4
  <1>7. Lists(b, R, P)
    BY <1>2, <1>4, <1>6, MappedLists
  <1>8. PICK m \in Nat : DOMAIN b = 1 .. m
    BY <1>7, ListDomain
  <1>9. \A i \in 1 .. m : b[i].coin \in Nat
    <2>1. \A i \in 1 .. m : \E p \in P : b[i] = R[p]
      BY <1>7, <1>8, ListElements
    <2>2. QED
      BY <1>3, <2>1
  <1>10. Rearranges(ByCoin(b), b) /\ InCoinOrder(ByCoin(b))
    BY <1>8, <1>9, ByCoinSorts
  <1>11. Lists(ByCoin(b), R, P)
    BY <1>7, <1>10, RearrangedLists
  <1>12. QED
    BY <1>5, <1>10, <1>11 DEF P, R

LEMMA ImportedParsed ==
  ASSUME NEW q, Spends(q), q.type = "IMPORT", NEW n, IntentOps(q.ops, n)
  PROVE  /\ Lists(InOps(buildImportedInputs(q.ops), SignersOf(q.ops), "IMPORT"),
                  q.ops, InsOf(q.ops))
         /\ AreKnown(buildImportedInputs(q.ops), q.ops)
  <1> DEFINE ops == q.ops
             sg == SignersOf(ops)
             P == InsOf(ops)
             R == [p \in P |-> [Input(ops[p]) EXCEPT !.sigs = 1]]
             c == buildImportedInputs(ops)
             d == InOps(c, sg, "IMPORT")
  <1>1. Lists(c, R, P)
    BY ImportedMade
  <1>2. ASSUME NEW p \in P
        PROVE  InOp(sg, R[p], "IMPORT") = ops[p] /\ R[p].coin \in KnownCoins(sg)
    <2>1. ops[p].kind = "IMPORT" /\ ops[p].sigs = 1
      <3>1. Meaningful(q) /\ p \in DOMAIN ops /\ ops[p].side = "in"
        BY IntentFacts DEF Spends, InsOf
      <3>2. QED
        BY <3>1 DEF Meaningful, CTypes
    <2>2. AccountOf(sg, ops[p].coin) = ops[p].account /\ ops[p].coin \in KnownCoins(sg)
      BY OwnersTravel DEF Spends
    <2>3. R[p] = [coin |-> ops[p].coin, amount |-> ops[p].amount, sigs |-> 1]
      BY DEF Input
    <2>4. ops[p] = [side |-> "in", account |-> ops[p].account, coin |-> ops[p].coin,
                    amount |-> ops[p].amount, kind |-> ops[p].kind, sigs |-> ops[p].sigs]
      BY InFacts
    <2> HIDE DEF sg, R
    <2>5. InOp(sg, R[p], "IMPORT") = [side |-> "in", account |-> ops[p].account, coin |-> ops[p].coin,
                    amount |-> ops[p].amount, kind |-> "IMPORT", sigs |-> 1]
      BY <2>2, <2>3 DEF InOp
    <2>6. QED
      BY <2>1, <2>2, <2>3, <2>4, <2>5
  <1>3. d = [i \in DOMAIN c |-> d[i]] /\ \A i \in DOMAIN c : d[i] = InOp(sg, c[i], "IMPORT")
    BY DEF InOps, Map
  <1> HIDE DEF sg, P, R, c, d
  <1>4. \A i \in DOMAIN c : \A p \in P : c[i] = R[p] => d[i] = ops[p]
    BY <1>2, <1>3
  <1>5. Lists(d, ops, P)
    BY <1>1, <1>3, <1>4, MappedLists
  <1>6. \A i \in DOMAIN c : \E p \in P : c[i] = R[p]
    BY <1>1, ListElements
  <1>7. AreKnown(c, ops)
    BY <1>2, <1>6 DEF AreKnown, sg
  <1>8. QED
    BY <1>5, <1>7 DEF sg, P, c, d

(* The inputs of an export from the C-chain, which lose their coins *)
LEMMA EVMInputsParsed ==
  ASSUME NEW q \in Intents, q.type = "EXPORT", NEW n, IntentOps(q.ops, n)
  PROVE  LET P == InsOf(q.ops)
             R == [p \in P |-> EVMInput(q.ops[p])]
         IN  /\ Lists(buildIns(q.ops), R, P)
             /\ Lists(EVMInOps(buildIns(q.ops)), Meant(q), P)
  <1> DEFINE ops == q.ops
             P == InsOf(ops)
             R == [p \in P |-> EVMInput(ops[p])]
             M == Meant(q)
             a == Ins(ops)
             b == Map(a, EVMInput)
             c == ByAccount(b)
             d == EVMInOps(c)
  <1>1. n \in Nat /\ DOMAIN ops = 1 .. n
    BY DEF IntentOps
  <1>2. Lists(a, ops, P)
    BY <1>1, InsLists
  <1>3. ASSUME NEW p \in P
        PROVE  R[p] = EVMInput(ops[p]) /\ R[p].account \in Nat /\ EVMInOp(R[p]) = M[p]
    <2>1. ops[p].account \in Nat /\ p \in DOMAIN ops /\ ops[p].side = "in"
      BY InFacts DEF InsOf
    <2>2. R[p] = [account |-> ops[p].account, amount |-> ops[p].amount]
      BY DEF EVMInput
    <2>3. M[p] = [side |-> "in", account |-> ops[p].account, coin |-> 0,
                  amount |-> ops[p].amount, kind |-> "INPUT", sigs |-> 1]
      BY <2>1 DEF Meant
    <2> HIDE DEF M, R
    <2>4. QED
      BY <2>1, <2>2, <2>3 DEF EVMInOp, EVMInput
  <1>4. b = [i \in DOMAIN a |-> b[i]] /\ \A i \in DOMAIN a : b[i] = EVMInput(a[i])
    BY DEF Map
  <1>5. buildIns(ops) = c
    BY DEF buildIns
  <1>6. d = [i \in DOMAIN c |-> d[i]] /\ \A i \in DOMAIN c : d[i] = EVMInOp(c[i])
    BY DEF EVMInOps, Map
  <1> HIDE DEF P, R, M, a, b, d
  <1>7. \A i \in DOMAIN a : \A p \in P : a[i] = ops[p] => b[i] = R[p]
    BY <1>3, <1>4
  <1>8. Lists(b, R, P)
    BY <1>2, <1>4, <1>7, MappedLists
  <1>9. PICK m \in Nat : DOMAIN b = 1 .. m
    BY <1>8, ListDomain
  <1>10. \A i \in 1 .. m : b[i].account \in Nat
    <2>1. \A i \in 1 .. m : \E p \in P : b[i] = R[p]
      BY <1>8, <1>9, ListElements
    <2>2. QED
      BY <1>3, <2>1
  <1>11. Rearranges(c, b)
    BY <1>9, <1>10, ByAccountRearranges
  <1> HIDE DEF c
  <1>12. Lists(c, R, P)
    BY <1>8, <1>11, RearrangedLists
  <1>13. \A i \in DOMAIN c : \A p \in P : c[i] = R[p] => d[i] = M[p]
    BY <1>3, <1>6
  <1>14. Lists(d, M, P)
    BY <1>6, <1>12, <1>13, MappedLists
  <1>15. buildIns(ops) = c /\ EVMInOps(buildIns(ops)) = d
    BY <1>5 DEF d, c
  <1>16. QED
    BY <1>12, <1>14, <1>15 DEF P, R, M

(* Sorted outputs, parsed as their kind *)
LEMMA OutputsParsed ==
  ASSUME NEW n, NEW ops, IntentOps(ops, n), NEW a, NEW P \in SUBSET OutsOf(ops), Lists(a, ops, P),
         NEW kind, \A p \in P : ops[p].kind = kind
  PROVE  Lists(OutOps(OutputsOf(a), kind), ops, P)
  <1> DEFINE R == [p \in P |-> Out(ops[p])]
             b == Map(a, Out)
             c == ByAmount(b)
             d == OutOps(c, kind)
  <1>1. ASSUME NEW p \in P
        PROVE  /\ R[p] = Out(ops[p]) /\ R[p].amount \in Nat /\ R[p].account \in Nat
               /\ OutOp(R[p], kind) = ops[p]
    <2>1. /\ ops[p].account \in Nat /\ ops[p].amount \in Nat
          /\ ops[p] = [side |-> "out", account |-> ops[p].account, coin |-> 0,
                       amount |-> ops[p].amount, kind |-> ops[p].kind, sigs |-> 0]
      BY OutFacts
    <2>2. R[p] = [account |-> ops[p].account, amount |-> ops[p].amount]
      BY DEF Out
    <2>3. ops[p].kind = kind
      OBVIOUS
    <2> HIDE DEF R
    <2>4. OutOp(R[p], kind) = [side |-> "out", account |-> ops[p].account, coin |-> 0,
                       amount |-> ops[p].amount, kind |-> kind, sigs |-> 0]
      BY <2>2 DEF OutOp
    <2>5. OutOp(R[p], kind) = ops[p]
      BY <2>1, <2>3, <2>4
    <2>6. R[p].amount \in Nat /\ R[p].account \in Nat /\ R[p] = Out(ops[p])
      BY <2>1, <2>2 DEF Out
    <2>7. QED
      BY <2>5, <2>6
  <1>2. b = [i \in DOMAIN a |-> b[i]] /\ \A i \in DOMAIN a : b[i] = Out(a[i])
    BY DEF Map
  <1>3. d = [i \in DOMAIN c |-> d[i]] /\ \A i \in DOMAIN c : d[i] = OutOp(c[i], kind)
    BY DEF OutOps, Map
  <1> HIDE DEF R, b, d
  <1>4. \A i \in DOMAIN a : \A p \in P : a[i] = ops[p] => b[i] = R[p]
    BY <1>1, <1>2
  <1>5. Lists(b, R, P)
    BY <1>2, <1>4, MappedLists
  <1>6. PICK m \in Nat : DOMAIN b = 1 .. m
    BY <1>5, ListDomain
  <1>7. \A i \in 1 .. m : b[i].amount \in Nat /\ b[i].account \in Nat
    <2>1. \A i \in 1 .. m : \E p \in P : b[i] = R[p]
      BY <1>5, <1>6, ListElements
    <2>2. QED
      BY <1>1, <2>1
  <1>8. Rearranges(c, b)
    BY <1>6, <1>7, ByAmountRearranges
  <1> HIDE DEF c
  <1>9. Lists(c, R, P)
    BY <1>5, <1>8, RearrangedLists
  <1>10. \A i \in DOMAIN c : \A p \in P : c[i] = R[p] => d[i] = ops[p]
    BY <1>1, <1>3
  <1>11. Lists(d, ops, P)
    BY <1>3, <1>9, <1>10, MappedLists
  <1>12. QED
    BY <1>11 DEF d, c, b, OutputsOf

(* The outputs of a kind parse as the operations of this kind. *)
LEMMA KindOutputsParsed ==
  ASSUME NEW n, NEW ops, IntentOps(ops, n), NEW kind
  PROVE  Lists(OutOps(buildOutputs(ops, kind), kind), ops,
               KindAt(ops, OutsOf(ops), kind))
  <1> DEFINE P == KindAt(ops, OutsOf(ops), kind)
             a == OfKind(Outs(ops), kind)
  <1>1. Lists(Outs(ops), ops, OutsOf(ops))
    BY OutsLists DEF IntentOps
  <1>2. Lists(a, ops, P)
    BY <1>1, OfKindLists
  <1>3. P \in SUBSET OutsOf(ops) /\ \A p \in P : ops[p].kind = kind
    BY DEF KindAt
  <1>4. buildOutputs(ops, kind) = OutputsOf(a)
    BY DEF buildOutputs, OutputsOf
  <1> HIDE DEF P, a
  <1>5. Lists(OutOps(OutputsOf(a), kind), ops, P)
    BY <1>2, <1>3, OutputsParsed
  <1>6. QED
    BY <1>4, <1>5 DEF P

(* The parts of a parsed transaction, one after the other *)
LEMMA FiveAppended ==
  ASSUME NEW R, NEW a, NEW b, NEW c, NEW d, NEW e, NEW A, NEW B, NEW C, NEW D, NEW E,
         Lists(a, R, A), Lists(b, R, B), Lists(c, R, C), Lists(d, R, D), Lists(e, R, E),
         A \cap B = {}, (A \cup B) \cap C = {}, (A \cup B \cup C) \cap D = {},
         (A \cup B \cup C \cup D) \cap E = {}
  PROVE  Lists(a \o b \o c \o d \o e, R, A \cup B \cup C \cup D \cup E)
  <1>1. Lists(a \o b, R, A \cup B)
    BY ListAppended
  <1>2. Lists(a \o b \o c, R, A \cup B \cup C)
    BY <1>1, ListAppended
  <1>3. Lists(a \o b \o c \o d, R, A \cup B \cup C \cup D)
    BY <1>2, ListAppended
  <1>4. QED
    BY <1>3, ListAppended

(* Empty parts parse as nothing. *)
LEMMA NothingParsed ==
  ASSUME NEW R, NEW sg, NEW kind
  PROVE  /\ Lists(InOps(<<>>, sg, kind), R, {})
         /\ Lists(EVMInOps(<<>>), R, {})
         /\ Lists(OutOps(<<>>, kind), R, {})
  <1>1. InOps(<<>>, sg, kind) = <<>> /\ EVMInOps(<<>>) = <<>> /\ OutOps(<<>>, kind) = <<>>
    BY DEF InOps, EVMInOps, OutOps, Map
  <1>2. QED
    BY <1>1, EmptyLists

(* The operations that the parts of the transaction can hold *)
Kept(q) == {p \in DOMAIN q.ops : q.ops[p].kind \in Parts(q.type)}

ParsesAs(q, tx) ==
    /\ Lists(ParseTx(tx, SignersOf(q.ops)), Meant(q), Kept(q))
    /\ TxCoins(tx) \subseteq KnownCoins(SignersOf(q.ops))

(* A transaction parses as what its parts parse as. *)
LEMMA PartsParsed ==
  ASSUME NEW q, NEW tx, NEW A, NEW B, NEW C, NEW D, NEW E,
         Lists(InOps(tx.ins, SignersOf(q.ops), "INPUT"), Meant(q), A),
         Lists(InOps(tx.imported, SignersOf(q.ops), "IMPORT"), Meant(q), B),
         Lists(EVMInOps(tx.evmIns), Meant(q), C),
         Lists(OutOps(tx.outs, "OUTPUT"), Meant(q), D),
         Lists(OutOps(tx.extra, ExtraKind(tx.type)), Meant(q), E),
         A \cap B = {}, (A \cup B) \cap C = {}, (A \cup B \cup C) \cap D = {},
         (A \cup B \cup C \cup D) \cap E = {},
         A \cup B \cup C \cup D \cup E = Kept(q),
         AreKnown(tx.ins, q.ops), AreKnown(tx.imported, q.ops)
  PROVE  ParsesAs(q, tx)
  <1> DEFINE sg == SignersOf(q.ops)
             a == InOps(tx.ins, sg, "INPUT")
             b == InOps(tx.imported, sg, "IMPORT")
             c == EVMInOps(tx.evmIns)
             d == OutOps(tx.outs, "OUTPUT")
             e == OutOps(tx.extra, ExtraKind(tx.type))
             M == Meant(q)
             K == Kept(q)
  <1>1. ParseTx(tx, sg) = a \o b \o c \o d \o e
    BY DEF ParseTx, InOps, EVMInOps, OutOps
  <1>2. TxCoins(tx) \subseteq KnownCoins(sg)
    BY DEF TxCoins, AreKnown
  <1>3. Lists(a, M, A) /\ Lists(b, M, B) /\ Lists(c, M, C) /\ Lists(d, M, D) /\ Lists(e, M, E)
    OBVIOUS
  <1> HIDE DEF a, b, c, d, e, M, sg
  <1>4. Lists(a \o b \o c \o d \o e, M, A \cup B \cup C \cup D \cup E)
    BY <1>3, FiveAppended
  <1>5. Lists(ParseTx(tx, sg), M, Kept(q))
    BY <1>1, <1>4
  <1>6. QED
    BY <1>2, <1>5 DEF ParsesAs, M, sg

(* No coin is missing of no inputs. *)
LEMMA NoneKnown == ASSUME NEW ops PROVE AreKnown(<<>>, ops)
  BY DEF AreKnown

(* All intents but exports from the C-chain mean their operations. *)
LEMMA MeantUnlessExport ==
  ASSUME NEW q, q.type # "EXPORT", NEW s, NEW P \in SUBSET DOMAIN q.ops, Lists(s, q.ops, P)
  PROVE  Lists(s, Meant(q), P)
  <1>1. \A p \in P : Meant(q)[p] = q.ops[p]
    BY DEF Meant
  <1>2. QED
    BY <1>1, SameValuesListed

(* What a P-chain transaction takes of an intent *)
LEMMA BaseParsed ==
  ASSUME NEW q, Spends(q), NEW n, IntentOps(q.ops, n), NEW kind
  PROVE  /\ Lists(InOps(buildInputs(q.ops, kind), SignersOf(q.ops), kind), Meant(q),
                  KindAt(q.ops, InsOf(q.ops), kind))
         /\ Lists(OutOps(buildOutputs(q.ops, kind), kind), Meant(q),
                  KindAt(q.ops, OutsOf(q.ops), kind))
         /\ AreKnown(buildInputs(q.ops, kind), q.ops)
  <1> DEFINE P == KindAt(q.ops, InsOf(q.ops), kind)
             Q == KindAt(q.ops, OutsOf(q.ops), kind)
  <1>1. P \in SUBSET DOMAIN q.ops /\ Q \in SUBSET DOMAIN q.ops
    BY DEF KindAt, InsOf, OutsOf
  <1>2. q.type # "EXPORT"
    BY DEF Spends
  <1>3. Lists(InOps(buildInputs(q.ops, kind), SignersOf(q.ops), kind), q.ops, P)
        /\ AreKnown(buildInputs(q.ops, kind), q.ops)
    BY InputsParsed
  <1>4. Lists(OutOps(buildOutputs(q.ops, kind), kind), q.ops, Q)
    BY KindOutputsParsed
  <1> HIDE DEF P, Q
  <1>5. QED
    BY <1>1, <1>2, <1>3, <1>4, MeantUnlessExport DEF P, Q

PTypeParts(q, tx, imported, extra) ==
    /\ tx.ins = buildInputs(q.ops, "INPUT")
    /\ tx.imported = (IF imported THEN buildInputs(q.ops, "IMPORT") ELSE <<>>)
    /\ tx.evmIns = <<>>
    /\ tx.outs = buildOutputs(q.ops, "OUTPUT")
    /\ tx.extra = (IF extra = "none" THEN <<>> ELSE buildOutputs(q.ops, extra))
    /\ extra # "none" => ExtraKind(tx.type) = extra
    /\ Parts(q.type) = {"INPUT", "OUTPUT"} \cup (IF imported THEN {"IMPORT"} ELSE {})
                       \cup (IF extra = "none" THEN {} ELSE {extra})

(* The parts of the transactions of the P-chain *)
LEMMA PTxParts ==
  ASSUME NEW q, q.type \in PTypes, NEW md
  PROVE  LET tx == BuildTx(q.type, q.ops, md)
         IN  \/ PTypeParts(q, tx, TRUE, "none")
             \/ PTypeParts(q, tx, FALSE, "EXPORT")
             \/ PTypeParts(q, tx, FALSE, "STAKE")
  <1> DEFINE tx == BuildTx(q.type, q.ops, md)
  <1>1. CASE q.type = "IMPORT_AVAX"
    <2>1. tx = buildImportTx(q.ops)
      BY <1>1 DEF BuildTx
    <2>2. PTypeParts(q, tx, TRUE, "none")
      BY <1>1, <2>1 DEF PTypeParts, buildImportTx, BaseTx, EmptyTx, Parts
    <2>3. QED
      BY <2>2
  <1>2. CASE q.type = "EXPORT_AVAX"
    <2>1. tx = buildExportTx(q.ops)
      BY <1>2 DEF BuildTx
    <2>2. PTypeParts(q, tx, FALSE, "EXPORT")
      BY <1>2, <2>1 DEF PTypeParts, buildExportTx, BaseTx, EmptyTx, Parts, ExtraKind
    <2>3. QED
      BY <2>2
  <1>3. CASE q.type = "ADD_VALIDATOR"
    <2>1. tx = buildStakingTx(q.ops)
      BY <1>3 DEF BuildTx
    <2>2. PTypeParts(q, tx, FALSE, "STAKE")
      BY <1>3, <2>1 DEF PTypeParts, buildStakingTx, BaseTx, EmptyTx, Parts, ExtraKind
    <2>3. QED
      BY <2>2
  <1>4. QED
    BY <1>1, <1>2, <1>3 DEF PTypes

(* Operations of kinds a builder accepts *)
LEMMA BuiltKinds ==
  ASSUME NEW q, q.type \in PTypes, ~BuildFails(q.type, q.ops)
  PROVE  /\ \A p \in InsOf(q.ops) : q.ops[p].kind \in {"INPUT", "IMPORT"}
         /\ \A p \in OutsOf(q.ops) : q.ops[p].kind \in {"OUTPUT", "STAKE", "EXPORT"}
  BY DEF BuildFails, InsOf, OutsOf

(* What is built for the P-chain parses as what is meant. *)
LEMMA PTypesParsed ==
  ASSUME NEW q \in Intents, q.type \in PTypes, ~NoMatch(q.type, q.ops), ~BuildFails(q.type, q.ops), NEW md
  PROVE  ParsesAs(q, BuildTx(q.type, q.ops, md))
  <1> DEFINE tx == BuildTx(q.type, q.ops, md)
             ops == q.ops
             M == Meant(q)
             In(kind) == KindAt(ops, InsOf(ops), kind)
             To(kind) == KindAt(ops, OutsOf(ops), kind)
  <1>1. PICK n \in Nat : IntentOps(ops, n)
    BY IntentFacts
  <1>2. Spends(q)
    BY DEF Spends, PTypes
  <1>3. ASSUME NEW kind
        PROVE  /\ Lists(InOps(buildInputs(ops, kind), SignersOf(ops), kind), M, In(kind))
               /\ Lists(OutOps(buildOutputs(ops, kind), kind), M, To(kind))
               /\ AreKnown(buildInputs(ops, kind), ops)
    BY <1>1, <1>2, BaseParsed
  <1>4. /\ \A kind : Lists(InOps(<<>>, SignersOf(ops), kind), M, {})
        /\ \A kind : Lists(OutOps(<<>>, kind), M, {})
        /\ Lists(EVMInOps(<<>>), M, {})
        /\ AreKnown(<<>>, ops)
    BY NothingParsed, NoneKnown
  <1>5. /\ InsOf(ops) \cap OutsOf(ops) = {} /\ DOMAIN ops = InsOf(ops) \cup OutsOf(ops)
        /\ \A p \in InsOf(ops) : ops[p].kind \in {"INPUT", "IMPORT"}
        /\ \A p \in OutsOf(ops) : ops[p].kind \in {"OUTPUT", "STAKE", "EXPORT"}
    BY <1>1, SidesFacts, BuiltKinds DEF IntentOps
  <1> HIDE DEF tx, M
  <1>6. CASE PTypeParts(q, tx, TRUE, "none")
    <2>1. /\ Lists(InOps(tx.ins, SignersOf(ops), "INPUT"), M, In("INPUT"))
          /\ Lists(InOps(tx.imported, SignersOf(ops), "IMPORT"), M, In("IMPORT"))
          /\ Lists(EVMInOps(tx.evmIns), M, {})
          /\ Lists(OutOps(tx.outs, "OUTPUT"), M, To("OUTPUT"))
          /\ Lists(OutOps(tx.extra, ExtraKind(tx.type)), M, {})
          /\ AreKnown(tx.ins, ops) /\ AreKnown(tx.imported, ops)
      <3> HIDE DEF In, To
      <3>1. QED
        BY <1>3, <1>4, <1>6 DEF PTypeParts
    <2>2. /\ In("INPUT") \cap In("IMPORT") = {}
          /\ (In("INPUT") \cup In("IMPORT")) \cap {} = {}
          /\ (In("INPUT") \cup In("IMPORT") \cup {}) \cap To("OUTPUT") = {}
          /\ (In("INPUT") \cup In("IMPORT") \cup {} \cup To("OUTPUT")) \cap {} = {}
      BY <1>5 DEF KindAt
    <2>3. Parts(q.type) = {"INPUT", "OUTPUT", "IMPORT"}
      BY <1>6 DEF PTypeParts
    <2>4. In("INPUT") \cup In("IMPORT") \cup {} \cup To("OUTPUT") \cup {} = Kept(q)
      BY <1>5, <2>3 DEF KindAt, Kept
    <2> HIDE DEF In, To
    <2>5. QED
      BY <2>1, <2>2, <2>4, PartsParsed DEF tx, M
  <1>7. ASSUME NEW extra \in {"EXPORT", "STAKE"}, PTypeParts(q, tx, FALSE, extra)
        PROVE  ParsesAs(q, tx)
    <2>0. extra # "none" /\ extra # "OUTPUT" /\ extra # "INPUT" /\ extra # "IMPORT"
      OBVIOUS
    <2>1. /\ Lists(InOps(tx.ins, SignersOf(ops), "INPUT"), M, In("INPUT"))
          /\ Lists(InOps(tx.imported, SignersOf(ops), "IMPORT"), M, {})
          /\ Lists(EVMInOps(tx.evmIns), M, {})
          /\ Lists(OutOps(tx.outs, "OUTPUT"), M, To("OUTPUT"))
          /\ Lists(OutOps(tx.extra, ExtraKind(tx.type)), M, To(extra))
          /\ AreKnown(tx.ins, ops) /\ AreKnown(tx.imported, ops)
      <3> HIDE DEF In, To
      <3>1. QED
        BY <1>3, <1>4, <1>7, <2>0 DEF PTypeParts
    <2>2. /\ In("INPUT") \cap {} = {}
          /\ (In("INPUT") \cup {}) \cap {} = {}
          /\ (In("INPUT") \cup {} \cup {}) \cap To("OUTPUT") = {}
          /\ (In("INPUT") \cup {} \cup {} \cup To("OUTPUT")) \cap To(extra) = {}
      BY <1>5, <2>0 DEF KindAt
    <2>3. Parts(q.type) = {"INPUT", "OUTPUT", extra}
      BY <1>7, <2>0 DEF PTypeParts
    <2>4. In("INPUT") \cup {} \cup {} \cup To("OUTPUT") \cup To(extra) = Kept(q)
      BY <1>5, <2>0, <2>3 DEF KindAt, Kept
    <2> HIDE DEF In, To
    <2>5. QED
      BY <2>1, <2>2, <2>4, PartsParsed DEF tx, M
  <1>8. QED
    BY <1>6, <1>7, PTxParts DEF tx

(* What an import to the C-chain becomes parses as what is meant. *)
LEMMA ImportParsed ==
  ASSUME NEW q \in Intents, q.type = "IMPORT", ~NoMatch(q.type, q.ops), NEW md
  PROVE  ParsesAs(q, BuildTx(q.type, q.ops, md))
  <1> DEFINE tx == BuildTx(q.type, q.ops, md)
             ops == q.ops
             M == Meant(q)
             A == InsOf(ops)
             D == OutsOf(ops)
  <1>1. PICK n \in Nat : IntentOps(ops, n)
    BY IntentFacts
  <1>2. Spends(q)
    BY DEF Spends
  <1>3. A \in SUBSET DOMAIN ops /\ D \in SUBSET DOMAIN ops /\ A \cap D = {} /\ A \cup D = DOMAIN ops
    BY <1>1, SidesFacts DEF IntentOps
  <1>4. /\ \A p \in A : ops[p].kind = "IMPORT"
        /\ \A p \in D : ops[p].kind = "OUTPUT"
    <2>1. Meaningful(q)
      BY IntentFacts
    <2>2. QED
      BY <2>1 DEF Meaningful, CTypes, InsOf, OutsOf
  <1>5. Lists(InOps(buildImportedInputs(ops), SignersOf(ops), "IMPORT"), ops, A)
        /\ AreKnown(buildImportedInputs(ops), ops)
    BY <1>1, <1>2, ImportedParsed
  <1>6. Lists(OutOps(OutputsOf(Outs(ops)), "OUTPUT"), ops, D)
    <2>1. Lists(Outs(ops), ops, D)
      BY <1>1, OutsLists DEF IntentOps
    <2>2. D \in SUBSET OutsOf(ops)
      OBVIOUS
    <2> HIDE DEF D
    <2>3. QED
      BY <1>1, <1>4, <2>1, <2>2, OutputsParsed
  <1>7. /\ tx.ins = <<>> /\ tx.imported = buildImportedInputs(ops) /\ tx.evmIns = <<>>
        /\ tx.outs = OutputsOf(Outs(ops)) /\ tx.extra = <<>>
    BY DEF BuildTx, buildAtomicImportTx, EmptyTx, OutputsOf
  <1>8. /\ \A kind : Lists(InOps(<<>>, SignersOf(ops), kind), M, {})
        /\ \A kind : Lists(OutOps(<<>>, kind), M, {})
        /\ Lists(EVMInOps(<<>>), M, {})
        /\ AreKnown(<<>>, ops)
    BY NothingParsed, NoneKnown
  <1>9. {} \cup A \cup {} \cup D \cup {} = Kept(q)
    <2>1. Parts(q.type) = {"IMPORT", "OUTPUT"}
      BY DEF Parts
    <2> HIDE DEF A, D
    <2>2. QED
      BY <1>3, <1>4, <2>1 DEF Kept
  <1> HIDE DEF tx, A, D
  <1>10. Lists(InOps(buildImportedInputs(ops), SignersOf(ops), "IMPORT"), M, A)
         /\ Lists(OutOps(OutputsOf(Outs(ops)), "OUTPUT"), M, D)
    BY <1>3, <1>5, <1>6, MeantUnlessExport
  <1> HIDE DEF M
  <1>11. /\ Lists(InOps(tx.ins, SignersOf(ops), "INPUT"), M, {})
         /\ Lists(InOps(tx.imported, SignersOf(ops), "IMPORT"), M, A)
         /\ Lists(EVMInOps(tx.evmIns), M, {})
         /\ Lists(OutOps(tx.outs, "OUTPUT"), M, D)
         /\ Lists(OutOps(tx.extra, ExtraKind(tx.type)), M, {})
         /\ AreKnown(tx.ins, ops) /\ AreKnown(tx.imported, ops)
    BY <1>5, <1>7, <1>8, <1>10
  <1>12. /\ {} \cap A = {} /\ ({} \cup A) \cap {} = {} /\ ({} \cup A \cup {}) \cap D = {}
         /\ ({} \cup A \cup {} \cup D) \cap {} = {}
    BY <1>3
  <1>13. ParsesAs(q, tx)
    BY <1>9, <1>11, <1>12, PartsParsed DEF M
  <1>14. QED
    BY <1>13 DEF tx

(* What an export from the C-chain becomes parses as what is meant. *)
LEMMA ExportParsed ==
  ASSUME NEW q \in Intents, q.type = "EXPORT", NEW md
  PROVE  ParsesAs(q, BuildTx(q.type, q.ops, md))
  <1> DEFINE tx == BuildTx(q.type, q.ops, md)
             ops == q.ops
             M == Meant(q)
             C == InsOf(ops)
             E == OutsOf(ops)
  <1>1. PICK n \in Nat : IntentOps(ops, n)
    BY IntentFacts
  <1>3. C \in SUBSET DOMAIN ops /\ E \in SUBSET DOMAIN ops /\ C \cap E = {} /\ C \cup E = DOMAIN ops
    BY <1>1, SidesFacts DEF IntentOps
  <1>4. /\ \A p \in C : ops[p].kind = "INPUT"
        /\ \A p \in E : ops[p].kind = "EXPORT"
    <2>1. Meaningful(q)
      BY IntentFacts
    <2>2. QED
      BY <2>1 DEF Meaningful, CTypes, InsOf, OutsOf
  <1>5. Lists(EVMInOps(buildIns(ops)), M, C)
    BY <1>1, EVMInputsParsed
  <1>6. Lists(OutOps(OutputsOf(Outs(ops)), "EXPORT"), ops, E)
    <2>1. Lists(Outs(ops), ops, E)
      BY <1>1, OutsLists DEF IntentOps
    <2>2. E \in SUBSET OutsOf(ops)
      OBVIOUS
    <2> HIDE DEF E
    <2>3. QED
      BY <1>1, <1>4, <2>1, <2>2, OutputsParsed
  <1>7. /\ tx.ins = <<>> /\ tx.imported = <<>> /\ tx.evmIns = buildIns(ops)
        /\ tx.outs = <<>> /\ tx.extra = OutputsOf(Outs(ops)) /\ ExtraKind(tx.type) = "EXPORT"
    BY DEF BuildTx, buildAtomicExportTx, EmptyTx, OutputsOf, ExtraKind
  <1>8. /\ \A kind : Lists(InOps(<<>>, SignersOf(ops), kind), M, {})
        /\ \A kind : Lists(OutOps(<<>>, kind), M, {})
        /\ Lists(EVMInOps(<<>>), M, {})
        /\ AreKnown(<<>>, ops)
    BY NothingParsed, NoneKnown
  <1>9. {} \cup {} \cup C \cup {} \cup E = Kept(q)
    <2>1. Parts(q.type) = {"INPUT", "EXPORT"}
      BY DEF Parts
    <2> HIDE DEF C, E
    <2>2. QED
      BY <1>3, <1>4, <2>1 DEF Kept
  <1>10. Lists(OutOps(OutputsOf(Outs(ops)), "EXPORT"), M, E)
    <2>1. \A p \in E : M[p] = ops[p]
      BY DEF OutsOf, Meant
    <2> HIDE DEF M, E
    <2>2. QED
      BY <1>6, <2>1, SameValuesListed
  <1> HIDE DEF tx, C, E, M
  <1>11. /\ Lists(InOps(tx.ins, SignersOf(ops), "INPUT"), M, {})
         /\ Lists(InOps(tx.imported, SignersOf(ops), "IMPORT"), M, {})
         /\ Lists(EVMInOps(tx.evmIns), M, C)
         /\ Lists(OutOps(tx.outs, "OUTPUT"), M, {})
         /\ Lists(OutOps(tx.extra, ExtraKind(tx.type)), M, E)
         /\ AreKnown(tx.ins, ops) /\ AreKnown(tx.imported, ops)
    BY <1>5, <1>7, <1>8, <1>10
  <1>12. /\ {} \cap {} = {} /\ ({} \cup {}) \cap C = {} /\ ({} \cup {} \cup C) \cap {} = {}
         /\ ({} \cup {} \cup C \cup {}) \cap E = {}
    BY <1>3
  <1>13. ParsesAs(q, tx)
    BY <1>9, <1>11, <1>12, PartsParsed DEF M
  <1>14. QED
    BY <1>13 DEF tx

(* What is built from an intent parses as what is meant. *)
LEMMA BuiltParses ==
  ASSUME NEW q \in Intents, ~NoMatch(q.type, q.ops), ~BuildFails(q.type, q.ops), NEW md
  PROVE  ParsesAs(q, BuildTx(q.type, q.ops, md))
  <1>1. q.type \in PTypes \cup CTypes
    BY IntentFacts
  <1>2. QED
    BY <1>1, PTypesParsed, ImportParsed, ExportParsed DEF CTypes
-----------------------------------------------------------------------------
(* Types of what the endpoints return *)

(* An intent that matches has inputs, each with an account. *)
LEMMA InsNotEmpty ==
  ASSUME NEW q \in Intents, ~NoMatch(q.type, q.ops)
  PROVE  /\ InsOf(q.ops) # {}
         /\ SignersOf(q.ops) # <<>>
         /\ PayloadsOf(q.ops) \in Seq(Account) /\ PayloadsOf(q.ops) # <<>>
         /\ Len(PayloadsOf(q.ops)) \in Nat /\ Len(PayloadsOf(q.ops)) > 0
         /\ Ins(q.ops)[1].account \in Account
  <1> DEFINE ops == q.ops
             a == Ins(ops)
  <1>1. PICK n \in Nat : IntentOps(ops, n)
    BY IntentFacts
  <1>2. Lists(a, ops, InsOf(ops))
    BY <1>1, InsLists DEF IntentOps
  <1>3. a # <<>>
    BY DEF NoMatch
  <1>4. PICK m \in Nat : DOMAIN a = 1 .. m /\ Len(a) = m /\ (m = 0 => InsOf(ops) = {}) /\ (InsOf(ops) = {} => m = 0)
    BY <1>2, ListDomain
  <1>5. ~(m = 0)
    <2> SUFFICES ASSUME m = 0 PROVE FALSE
      OBVIOUS
    <2>1. a \in Seq(Operation)
      <3>1. \A p \in InsOf(ops) : ops[p] \in Operation
        BY <1>1 DEF IntentOps, InsOf
      <3>2. QED
        BY <1>2, <3>1, ListIsSequence
    <2>2. QED
      BY <1>3, <1>4, <2>1
  <1>6. \A i \in 1 .. m : a[i].account \in Account
    <2>1. \A i \in 1 .. m : \E p \in InsOf(ops) : a[i] = ops[p]
      BY <1>2, <1>4, ListElements
    <2>2. \A p \in InsOf(ops) : ops[p].account \in Account
      BY <1>1, InFacts
    <2>3. QED
      BY <2>1, <2>2
  <1>7. PayloadsOf(ops) = [i \in 1 .. m |-> a[i].account] /\ DOMAIN SignersOf(ops) = 1 .. m
    BY <1>4 DEF PayloadsOf, SignersOf, Map
  <1> HIDE DEF a
  <1>8. PayloadsOf(ops) \in [1 .. m -> Account]
    BY <1>6, <1>7
  <1>9. PayloadsOf(ops) \in Seq(Account) /\ Len(PayloadsOf(ops)) = m
    BY <1>8
  <1>10. 1 \in 1 .. m /\ m > 0
    BY <1>5
  <1>11. SignersOf(ops) # <<>> /\ PayloadsOf(ops) # <<>>
    BY <1>7, <1>9, <1>10
  <1>12. QED
    BY <1>4, <1>5, <1>6, <1>9, <1>10, <1>11 DEF a

(* What is meant and what is parsed are operations. *)
LEMMA MeantType ==
  ASSUME NEW q \in Intents, NEW p \in DOMAIN q.ops
  PROVE  Meant(q)[p] \in Operation
  <1>1. PICK n \in Nat : IntentOps(q.ops, n)
    BY IntentFacts
  <1>2. q.ops[p] \in Operation
    BY <1>1 DEF IntentOps
  <1>3. CASE q.type = "EXPORT" /\ q.ops[p].side = "in"
    <2>1. p \in InsOf(q.ops)
      BY <1>3 DEF InsOf
    <2>2. q.ops[p].account \in Account /\ q.ops[p].amount \in Nat
      BY <1>1, <2>1, InFacts
    <2>3. Meant(q)[p] = [side |-> "in", account |-> q.ops[p].account, coin |-> 0,
                         amount |-> q.ops[p].amount, kind |-> "INPUT", sigs |-> 1]
      BY <1>3 DEF Meant
    <2>4. QED
      BY <2>2, <2>3 DEF Operation, Kind
  <1>4. CASE ~(q.type = "EXPORT" /\ q.ops[p].side = "in")
    BY <1>2, <1>4 DEF Meant
  <1>5. QED
    BY <1>3, <1>4

LEMMA ParsedType ==
  ASSUME NEW q \in Intents, NEW tx, ParsesAs(q, tx)
  PROVE  ParseTx(tx, SignersOf(q.ops)) \in Seq(Operation)
  <1>1. Lists(ParseTx(tx, SignersOf(q.ops)), Meant(q), Kept(q))
    BY DEF ParsesAs
  <1>2. \A p \in Kept(q) : Meant(q)[p] \in Operation
    BY MeantType DEF Kept
  <1>3. QED
    BY <1>1, <1>2, ListIsSequence

(* The account of a known coin is that of an input with this coin. *)
LEMMA KnownAccount ==
  ASSUME NEW n, NEW ops, IntentOps(ops, n), NEW c \in KnownCoins(SignersOf(ops))
  PROVE  \E p \in InsOf(ops) : ops[p].coin = c /\ AccountOf(SignersOf(ops), c) = ops[p].account
  <1> DEFINE sg == SignersOf(ops)
  <1>1. PICK m \in Nat :
            /\ DOMAIN sg = 1 .. m
            /\ \A i \in 1 .. m : \E r \in InsOf(ops) :
                    sg[i] = [coin |-> ops[r].coin, account |-> ops[r].account]
    <2>1. OwnersListed(ops)
      BY SignersList
    <2>2. QED
      BY <2>1 DEF OwnersListed
  <1> HIDE DEF sg
  <1>2. PICK j \in 1 .. m : sg[j].coin = c /\ AccountOf(sg, c) = sg[j].account
    BY <1>1, AccountKnown DEF sg
  <1>3. PICK r \in InsOf(ops) : sg[j] = [coin |-> ops[r].coin, account |-> ops[r].account]
    BY <1>1
  <1>4. QED
    BY <1>2, <1>3 DEF sg

(* Accounts of parsed operations *)
LEMMA IdentifiersType ==
  ASSUME NEW n, NEW ops, IntentOps(ops, n), NEW s \in Seq(Operation), NEW rtx,
         rtx.signers = SignersOf(ops), ~SignersMissing(rtx, s)
  PROVE  GetAccountIdentifiers(rtx, s) \in Seq(Account)
  <1> DEFINE a == Ins(s)
             g == GetAccountIdentifiers(rtx, s)
  <1>1. Len(s) \in Nat /\ DOMAIN s = 1 .. Len(s)
    OBVIOUS
  <1>2. Lists(a, s, InsOf(s))
    BY <1>1, InsLists
  <1>3. PICK m \in Nat : DOMAIN a = 1 .. m
    BY <1>2, ListDomain
  <1>4. \A i \in 1 .. m : a[i].coin \in KnownCoins(SignersOf(ops))
    BY <1>3 DEF SignersMissing
  <1>5. g = [i \in 1 .. m |-> AccountOf(SignersOf(ops), a[i].coin)]
    BY <1>3 DEF GetAccountIdentifiers, Map
  <1> HIDE DEF a, g
  <1>6. ASSUME NEW i \in 1 .. m PROVE AccountOf(SignersOf(ops), a[i].coin) \in Account
    <2> DEFINE c == a[i].coin
    <2>1. c \in KnownCoins(SignersOf(ops))
      BY <1>4
    <2> HIDE DEF c
    <2>2. \E p \in InsOf(ops) : ops[p].coin = c /\ AccountOf(SignersOf(ops), c) = ops[p].account
      BY <2>1, KnownAccount
    <2>3. PICK p \in InsOf(ops) : AccountOf(SignersOf(ops), c) = ops[p].account
      BY <2>2
    <2>4. ops[p].account \in Account
      BY InFacts
    <2>5. QED
      BY <2>3, <2>4 DEF c
  <1>7. g \in [1 .. m -> Account]
    BY <1>5, <1>6
  <1>8. g \in Seq(Account)
    BY <1>7
  <1>9. QED
    BY <1>8 DEF g
-----------------------------------------------------------------------------
(* Offsets of signatures and credentials *)

Inputs(ins, m) == m \in Nat /\ DOMAIN ins = 1 .. m /\ \A i \in 1 .. m : ins[i].sigs \in Nat

(* Offsets of signatures *)
LEMMA OffsetIsNat ==
  ASSUME NEW ins, NEW m, Inputs(ins, m), NEW k \in 0 .. m
  PROVE  sigOffset(ins, k) \in Nat
  <1> DEFINE f == [i \in DOMAIN ins |-> ins[i].sigs]
  <1>1. IsFiniteSet(1 .. k)
    BY FS_Interval
  <1>2. \A x \in 1 .. k : f[x] \in Nat
    BY DEF Inputs
  <1> HIDE DEF f
  <1>3. SumFunctionOnSet(f, 1 .. k) \in Nat
    BY <1>1, <1>2, SumIsNat
  <1>4. QED
    BY <1>3 DEF sigOffset, f

LEMMA OffsetNext ==
  ASSUME NEW ins, NEW m, Inputs(ins, m), NEW i \in 1 .. m
  PROVE  sigOffset(ins, i) = sigOffset(ins, i - 1) + ins[i].sigs
  <1> DEFINE f == [j \in DOMAIN ins |-> ins[j].sigs]
             S == 1 .. i - 1
  <1>0. m \in Nat /\ i \in Nat /\ i - 1 \in Nat
    BY DEF Inputs
  <1>1. IsFiniteSet(S) /\ i \notin S /\ S \cup {i} = 1 .. i
    BY <1>0, FS_Interval
  <1>2. \A x \in S \cup {i} : f[x] \in Int
    BY <1>0, <1>1 DEF Inputs
  <1>3. f[i] = ins[i].sigs
    BY DEF Inputs
  <1>4. sigOffset(ins, i) = SumFunctionOnSet(f, 1 .. i) /\ sigOffset(ins, i - 1) = SumFunctionOnSet(f, S)
    BY DEF sigOffset
  <1> HIDE DEF f, S
  <1>5. SumFunctionOnSet(f, S \cup {i}) = f[i] + SumFunctionOnSet(f, S)
    BY <1>1, <1>2, SumAdd
  <1>6. sigOffset(ins, i) = ins[i].sigs + sigOffset(ins, i - 1)
    BY <1>1, <1>3, <1>4, <1>5
  <1>7. sigOffset(ins, i - 1) \in Nat /\ ins[i].sigs \in Nat
    <2>1. i - 1 \in 0 .. m
      BY <1>0
    <2>2. QED
      BY <2>1, OffsetIsNat DEF Inputs
  <1>8. QED
    BY <1>6, <1>7

LEMMA OffsetNone ==
  ASSUME NEW ins
  PROVE  sigOffset(ins, 0) = 0
  <1> DEFINE f == [j \in DOMAIN ins |-> ins[j].sigs]
  <1>1. sigOffset(ins, 0) = SumFunctionOnSet(f, 1 .. 0) /\ 1 .. 0 = {}
    BY DEF sigOffset
  <1> HIDE DEF f
  <1>2. SumFunctionOnSet(f, {}) = 0
    BY SumEmpty
  <1>3. QED
    BY <1>1, <1>2

LEMMA OffsetBound ==
  ASSUME NEW ins, NEW m, Inputs(ins, m), NEW k \in 0 .. m
  PROVE  sigOffset(ins, k) <= sigOffset(ins, m)
  <1> DEFINE N == {d \in Nat : d <= m => sigOffset(ins, m - d) <= sigOffset(ins, m)}
  <1>0. m \in Nat
    BY DEF Inputs
  <1>1. 0 \in N
    <2>1. m \in 0 .. m /\ m - 0 = m
      BY <1>0
    <2>2. sigOffset(ins, m) \in Nat
      BY <2>1, OffsetIsNat
    <2>3. QED
      BY <2>1, <2>2
  <1>2. ASSUME NEW d \in N
        PROVE  d + 1 \in N
    <2> SUFFICES ASSUME d + 1 <= m PROVE sigOffset(ins, m - (d + 1)) <= sigOffset(ins, m)
      BY <1>2
    <2> DEFINE i == m - d
    <2>1. i \in 1 .. m /\ i - 1 \in 0 .. m /\ m - (d + 1) = i - 1 /\ m \in 0 .. m /\ i \in 0 .. m
      BY <1>0
    <2>2. sigOffset(ins, i) <= sigOffset(ins, m)
      BY <1>0
    <2> HIDE DEF i
    <2>3. sigOffset(ins, i) = sigOffset(ins, i - 1) + ins[i].sigs /\ ins[i].sigs \in Nat
      BY <2>1, OffsetNext DEF Inputs
    <2>4. sigOffset(ins, i) \in Nat /\ sigOffset(ins, i - 1) \in Nat /\ sigOffset(ins, m) \in Nat
      BY <2>1, OffsetIsNat
    <2>5. sigOffset(ins, i - 1) <= sigOffset(ins, m)
      BY <2>2, <2>3, <2>4
    <2>6. QED
      BY <2>1, <2>5
  <1>3. N \subseteq Nat
    OBVIOUS
  <1> HIDE DEF N
  <1>4. \A d \in Nat : d \in N
    BY <1>1, <1>2, <1>3, InductionNat
  <1>5. m - k \in Nat /\ m - k <= m /\ m - (m - k) = k
    BY <1>0
  <1>6. m - k \in N
    BY <1>4, <1>5
  <1>7. QED
    BY <1>5, <1>6 DEF N

(* With as many signatures as the inputs take, each input gets its own. *)
LEMMA CredentialsListed ==
  ASSUME NEW ins, NEW m, Inputs(ins, m), NEW sgs \in Seq(Account), Len(sgs) = sigOffset(ins, m),
         sgs # <<>>
  PROVE  /\ BuildCredentialList(ins, sgs) \in Seq(Seq(Account))
         /\ BuildCredentialList(ins, sgs) # <<>>
  <1> DEFINE c == BuildCredentialList(ins, sgs)
             o(i) == sigOffset(ins, i)
  <1>0. m \in Nat /\ DOMAIN ins = 1 .. m
    BY DEF Inputs
  <1>1. ASSUME NEW i \in 1 .. m
        PROVE  SubSeq(sgs, o(i - 1) + 1, o(i - 1) + ins[i].sigs) \in Seq(Account)
    <2>1. i - 1 \in 0 .. m /\ i \in 0 .. m
      BY <1>0
    <2>2. o(i - 1) \in Nat /\ o(i) <= o(m) /\ o(i) = o(i - 1) + ins[i].sigs /\ ins[i].sigs \in Nat
      <3>1. o(i - 1) \in Nat
        BY <2>1, OffsetIsNat
      <3>2. o(i) <= o(m)
        BY <2>1, OffsetBound
      <3>3. o(i) = o(i - 1) + ins[i].sigs
        BY OffsetNext
      <3>4. QED
        BY <3>1, <3>2, <3>3 DEF Inputs
    <2> DEFINE a == o(i - 1) + 1
               b == o(i - 1) + ins[i].sigs
    <2> HIDE DEF o
    <2>3. a \in Int /\ b \in Int /\ a >= 1 /\ b <= Len(sgs)
      BY <2>2 DEF o
    <2> HIDE DEF a, b
    <2>4. ASSUME NEW j \in a .. b PROVE sgs[j] \in Account
      <3>1. j \in 1 .. Len(sgs)
        BY <2>3
      <3>2. QED
        BY <3>1
    <2>5. SubSeq(sgs, a, b) \in Seq(Account)
      BY <2>3, <2>4, SubSeqProperties
    <2>6. QED
      BY <2>5 DEF a, b
  <1>2. c = [i \in 1 .. m |-> SubSeq(sgs, o(i - 1) + 1, o(i - 1) + ins[i].sigs)]
    BY <1>0 DEF BuildCredentialList
  <1> HIDE DEF o
  <1>3. c \in [1 .. m -> Seq(Account)]
    BY <1>1, <1>2
  <1>4. c \in Seq(Seq(Account)) /\ Len(c) = m
    BY <1>0, <1>3
  <1>5. m # 0
    <2> SUFFICES ASSUME m = 0 PROVE FALSE
      OBVIOUS
    <2>1. Len(sgs) = 0
      BY OffsetNone
    <2>2. QED
      BY <2>1
  <1>6. c # <<>>
    BY <1>0, <1>4, <1>5
  <1>7. QED
    BY <1>4, <1>6
-----------------------------------------------------------------------------
(* Inputs of transactions *)

BuiltType(tx, type) == tx.type = type

(* A transaction has the type of the intent. *)
LEMMA BuiltTypes ==
  ASSUME NEW q \in Intents, NEW md
  PROVE  BuiltType(BuildTx(q.type, q.ops, md), q.type)
  <1>1. q.type \in PTypes \cup CTypes
    BY IntentFacts
  <1>2. CASE q.type = "IMPORT_AVAX"
    BY <1>2 DEF BuiltType, BuildTx, buildImportTx, BaseTx, EmptyTx
  <1>3. CASE q.type = "EXPORT_AVAX"
    BY <1>3 DEF BuiltType, BuildTx, buildExportTx, BaseTx, EmptyTx
  <1>4. CASE q.type = "ADD_VALIDATOR"
    BY <1>4 DEF BuiltType, BuildTx, buildStakingTx, BaseTx, EmptyTx
  <1>5. CASE q.type = "IMPORT"
    BY <1>5 DEF BuiltType, BuildTx, buildAtomicImportTx, EmptyTx
  <1>6. CASE q.type = "EXPORT"
    BY <1>6 DEF BuiltType, BuildTx, buildAtomicExportTx, EmptyTx
  <1>7. QED
    BY <1>1, <1>2, <1>3, <1>4, <1>5, <1>6 DEF PTypes, CTypes

(* Inputs take a number of signatures. *)
LEMMA InputsSign ==
  ASSUME NEW q, Spends(q), NEW n, IntentOps(q.ops, n), NEW kind
  PROVE  \E m : Inputs(buildInputs(q.ops, kind), m)
  <1> DEFINE P == KindAt(q.ops, InsOf(q.ops), kind)
             R == [p \in P |-> Input(q.ops[p])]
             c == buildInputs(q.ops, kind)
  <1>1. Lists(c, R, P)
    BY InputsMade
  <1>2. \A p \in P : R[p].sigs \in Nat
    BY InFacts DEF KindAt, Input
  <1> HIDE DEF P, R, c
  <1>3. PICK m \in Nat : DOMAIN c = 1 .. m
    BY <1>1, ListDomain
  <1>4. \A i \in DOMAIN c : \E p \in P : c[i] = R[p]
    BY <1>1, ListElements
  <1>5. Inputs(c, m)
    BY <1>2, <1>3, <1>4 DEF Inputs
  <1>6. QED
    BY <1>5 DEF c

LEMMA ImportsSign ==
  ASSUME NEW q, Spends(q), NEW n, IntentOps(q.ops, n)
  PROVE  \E m : Inputs(buildImportedInputs(q.ops), m)
  <1> DEFINE P == InsOf(q.ops)
             R == [p \in P |-> [Input(q.ops[p]) EXCEPT !.sigs = 1]]
             c == buildImportedInputs(q.ops)
  <1>1. Lists(c, R, P)
    BY ImportedMade
  <1>2. \A p \in P : R[p].sigs \in Nat
    BY DEF Input
  <1> HIDE DEF P, R, c
  <1>3. PICK m \in Nat : DOMAIN c = 1 .. m
    BY <1>1, ListDomain
  <1>4. \A i \in DOMAIN c : \E p \in P : c[i] = R[p]
    BY <1>1, ListElements
  <1>5. Inputs(c, m)
    BY <1>2, <1>3, <1>4 DEF Inputs
  <1>6. QED
    BY <1>5 DEF c

(* The inputs that /construction/combine gives credentials to *)
LEMMA TxInputs ==
  ASSUME NEW q \in Intents, q.type # "EXPORT", NEW md
  PROVE  getTxInputs(BuildTx(q.type, q.ops, md)) =
            IF q.type = "IMPORT" THEN buildImportedInputs(q.ops)
            ELSE buildInputs(q.ops, IF q.type = "IMPORT_AVAX" THEN "IMPORT" ELSE "INPUT")
  <1> DEFINE tx == BuildTx(q.type, q.ops, md)
  <1>1. q.type \in PTypes \cup CTypes
    BY IntentFacts
  <1>2. CASE q.type = "IMPORT_AVAX"
    BY <1>2 DEF BuildTx, buildImportTx, BaseTx, EmptyTx, getTxInputs
  <1>3. CASE q.type = "EXPORT_AVAX"
    BY <1>3 DEF BuildTx, buildExportTx, BaseTx, EmptyTx, getTxInputs
  <1>4. CASE q.type = "ADD_VALIDATOR"
    BY <1>4 DEF BuildTx, buildStakingTx, BaseTx, EmptyTx, getTxInputs
  <1>5. CASE q.type = "IMPORT"
    BY <1>5 DEF BuildTx, buildAtomicImportTx, EmptyTx, getTxInputs
  <1>6. QED
    BY <1>1, <1>2, <1>3, <1>4, <1>5 DEF PTypes, CTypes

LEMMA BuiltInputs ==
  ASSUME NEW q \in Intents, q.type # "EXPORT", ~NoMatch(q.type, q.ops), NEW md
  PROVE  \E m : Inputs(getTxInputs(BuildTx(q.type, q.ops, md)), m)
  <1>1. PICK n \in Nat : IntentOps(q.ops, n)
    BY IntentFacts
  <1>2. Spends(q)
    BY DEF Spends
  <1>3. CASE q.type = "IMPORT"
    <2>1. \E m : Inputs(buildImportedInputs(q.ops), m)
      BY <1>1, <1>2, ImportsSign
    <2>2. getTxInputs(BuildTx(q.type, q.ops, md)) = buildImportedInputs(q.ops)
      BY <1>3, TxInputs
    <2>3. QED
      BY <2>1, <2>2
  <1>4. CASE q.type # "IMPORT"
    <2> DEFINE kind == IF q.type = "IMPORT_AVAX" THEN "IMPORT" ELSE "INPUT"
    <2>1. getTxInputs(BuildTx(q.type, q.ops, md)) = buildInputs(q.ops, kind)
      BY <1>4, TxInputs
    <2> HIDE DEF kind
    <2>2. \E m : Inputs(buildInputs(q.ops, kind), m)
      BY <1>1, <1>2, InputsSign
    <2>3. QED
      BY <2>1, <2>2
  <1>5. QED
    BY <1>3, <1>4

(* Once a call to combine succeeds, there is a credential for each input.  *)
LEMMA CredentialsType ==
  ASSUME NEW q \in Intents, ~NoMatch(q.type, q.ops), NEW md,
         NEW tx, tx = BuildTx(q.type, q.ops, md), ~CombineFails(tx, PayloadsOf(q.ops))
  PROVE  /\ Credentials(tx, PayloadsOf(q.ops)) \in Seq(Seq(Account))
         /\ Credentials(tx, PayloadsOf(q.ops)) # <<>>
  <1> DEFINE sgs == PayloadsOf(q.ops)
  <1>1. sgs \in Seq(Account) /\ sgs # <<>> /\ Len(sgs) \in Nat /\ Len(sgs) > 0
    BY InsNotEmpty
  <1>2. tx.type = q.type
    BY BuiltTypes DEF BuiltType
  <1> HIDE DEF sgs
  <1>3. CASE q.type = "EXPORT"
    <2>1. \A i \in 1 .. 1 : sgs[i] \in Account
      BY <1>1
    <2>2. SubSeq(sgs, 1, 1) \in Seq(Account)
      BY <2>1, SubSeqProperties
    <2>3. Credentials(tx, sgs) = <<SubSeq(sgs, 1, 1)>>
      BY <1>2, <1>3 DEF Credentials
    <2> DEFINE c == SubSeq(sgs, 1, 1)
    <2> HIDE DEF c
    <2>4. <<c>> \in Seq(Seq(Account)) /\ <<c>> # <<>>
      BY <2>2 DEF c
    <2>5. QED
      BY <2>3, <2>4 DEF c, sgs
  <1>4. CASE q.type # "EXPORT"
    <2> DEFINE ins == getTxInputs(tx)
    <2>1. PICK m : Inputs(ins, m)
      BY <1>4, BuiltInputs
    <2>2. Len(sgs) = sigOffset(ins, Len(ins))
      BY <1>2, <1>4 DEF CombineFails, sgs
    <2>3. Credentials(tx, sgs) = BuildCredentialList(ins, sgs)
      BY <1>2, <1>4 DEF Credentials
    <2> HIDE DEF ins
    <2>4. Len(ins) = m
      BY <2>1 DEF Inputs
    <2>5. BuildCredentialList(ins, sgs) \in Seq(Seq(Account)) /\ BuildCredentialList(ins, sgs) # <<>>
      BY <1>1, <2>1, <2>2, <2>4, CredentialsListed
    <2>6. QED
      BY <2>3, <2>5 DEF sgs
  <1>5. QED
    BY <1>3, <1>4
-----------------------------------------------------------------------------
-----------------------------------------------------------------------------
(* What is parsed is what was intended *)

(* Intents whose operations all have a place mean their operations. *)
LEMMA MeantWhenTyped ==
  ASSUME NEW q \in Intents, q.type # "EXPORT" \/ WellTyped(q), NEW p \in DOMAIN q.ops
  PROVE  Meant(q)[p] = q.ops[p]
  <1>1. PICK n \in Nat : IntentOps(q.ops, n)
    BY IntentFacts
  <1>2. CASE q.type = "EXPORT" /\ q.ops[p].side = "in"
    <2>1. p \in InsOf(q.ops)
      BY <1>2 DEF InsOf
    <2>2. q.ops[p] = [side |-> "in", account |-> q.ops[p].account, coin |-> q.ops[p].coin,
                      amount |-> q.ops[p].amount, kind |-> q.ops[p].kind, sigs |-> q.ops[p].sigs]
      BY <1>1, <2>1, InFacts
    <2>3. q.ops[p].coin = 0
      BY <1>2 DEF WellTyped
    <2>4. Meaningful(q)
      BY IntentFacts
    <2>5. q.ops[p].kind = "INPUT" /\ q.ops[p].sigs = 1
      BY <1>2, <2>4 DEF Meaningful, CTypes
    <2>6. Meant(q)[p] = [side |-> "in", account |-> q.ops[p].account, coin |-> 0,
                         amount |-> q.ops[p].amount, kind |-> "INPUT", sigs |-> 1]
      BY <1>2 DEF Meant
    <2>7. QED
      BY <2>2, <2>3, <2>5, <2>6
  <1>3. CASE ~(q.type = "EXPORT" /\ q.ops[p].side = "in")
    BY <1>3 DEF Meant
  <1>4. QED
    BY <1>2, <1>3

(* No operation is parsed more often than it was intended. *)
LEMMA CountParsed ==
  ASSUME NEW q \in Intents, q.type # "EXPORT" \/ WellTyped(q), NEW tx, ParsesAs(q, tx), NEW op
  PROVE  Count(ParseTx(tx, SignersOf(q.ops)), op) <= Count(q.ops, op)
  <1> DEFINE s == ParseTx(tx, SignersOf(q.ops))
             A == WhereIs(Meant(q), Kept(q), op)
             B == WhereIs(q.ops, DOMAIN q.ops, op)
  <1>1. Lists(s, Meant(q), Kept(q))
    BY DEF ParsesAs
  <1>2. A \subseteq B
    BY MeantWhenTyped DEF Kept, WhereIs
  <1>3. IsFiniteSet(B)
    <2>1. PICK n \in Nat : IntentOps(q.ops, n)
      BY IntentFacts
    <2>2. IsFiniteSet(DOMAIN q.ops) /\ B \subseteq DOMAIN q.ops
      BY <2>1, FS_Interval DEF IntentOps, WhereIs
    <2> HIDE DEF B
    <2>3. QED
      BY <2>2, FS_Subset
  <1>4. Cardinality(A) <= Cardinality(B)
    <2> HIDE DEF A, B
    <2>1. QED
      BY <1>2, <1>3, FS_Subset
  <1> HIDE DEF s
  <1>5. Cardinality(WhereIs(s, DOMAIN s, op)) = Cardinality(A)
    BY <1>1, CountListed
  <1>6. QED
    BY <1>4, <1>5 DEF Count, s, WhereIs

(* None is lost if all have a place. *)
LEMMA LengthParsed ==
  ASSUME NEW q \in Intents, WellTyped(q), NEW tx, ParsesAs(q, tx)
  PROVE  Len(ParseTx(tx, SignersOf(q.ops))) = Len(q.ops)
  <1>1. PICK n \in Nat : IntentOps(q.ops, n)
    BY IntentFacts
  <1>2. Kept(q) = 1 .. n /\ Len(q.ops) = n
    BY <1>1 DEF IntentOps, Kept, WellTyped
  <1>3. Lists(ParseTx(tx, SignersOf(q.ops)), Meant(q), 1 .. n)
    BY <1>2 DEF ParsesAs
  <1>4. QED
    BY <1>2, <1>3, LengthListed

(* The payloads are for the accounts of the inputs. *)
LEMMA PayloadMembers ==
  ASSUME NEW q \in Intents
  PROVE  Members(PayloadsOf(q.ops)) = {q.ops[p].account : p \in InsOf(q.ops)}
  <1> DEFINE a == Ins(q.ops)
  <1>1. PICK n \in Nat : IntentOps(q.ops, n)
    BY IntentFacts
  <1>2. Lists(a, q.ops, InsOf(q.ops))
    BY <1>1, InsLists DEF IntentOps
  <1>3. PayloadsOf(q.ops) = [i \in DOMAIN a |-> a[i].account]
    BY DEF PayloadsOf, Map
  <1> HIDE DEF a
  <1>4. /\ \A i \in DOMAIN a : \E p \in InsOf(q.ops) : a[i] = q.ops[p]
        /\ \A p \in InsOf(q.ops) : \E i \in DOMAIN a : a[i] = q.ops[p]
    BY <1>2, ListElements
  <1>5. QED
    BY <1>3, <1>4 DEF Members

SameSigners(q, tx, rtx) ==
    Members(GetAccountIdentifiers(rtx, ParseTx(tx, SignersOf(q.ops)))) = Members(PayloadsOf(q.ops))

(* The inputs of what is parsed *)
LEMMA ParsedInputs ==
  ASSUME NEW q \in Intents, WellTyped(q), NEW tx, ParsesAs(q, tx)
  PROVE  LET s == ParseTx(tx, SignersOf(q.ops))
         IN  /\ \A i \in DOMAIN Ins(s) : \E p \in InsOf(q.ops) : Ins(s)[i] = q.ops[p]
             /\ \A p \in InsOf(q.ops) : \E i \in DOMAIN Ins(s) : Ins(s)[i] = q.ops[p]
             /\ DOMAIN Ins(s) # {} <=> InsOf(q.ops) # {}
  <1> DEFINE s == ParseTx(tx, SignersOf(q.ops))
             a == Ins(s)
  <1>1. Lists(s, Meant(q), Kept(q)) /\ Kept(q) = DOMAIN q.ops
    BY DEF ParsesAs, Kept, WellTyped
  <1> HIDE DEF s
  <1>2. PICK m \in Nat : DOMAIN s = 1 .. m
    BY <1>1, ListDomain
  <1>3. Lists(a, s, InsOf(s))
    BY <1>2, InsLists
  <1> HIDE DEF a
  <1>4. /\ \A i \in DOMAIN a : \E j \in InsOf(s) : a[i] = s[j]
        /\ \A j \in InsOf(s) : \E i \in DOMAIN a : a[i] = s[j]
    BY <1>3, ListElements
  <1>5. /\ \A j \in DOMAIN s : \E p \in DOMAIN q.ops : s[j] = q.ops[p]
        /\ \A p \in DOMAIN q.ops : \E j \in DOMAIN s : s[j] = q.ops[p]
    <2>1. /\ \A j \in DOMAIN s : \E p \in Kept(q) : s[j] = Meant(q)[p]
          /\ \A p \in Kept(q) : \E j \in DOMAIN s : s[j] = Meant(q)[p]
      BY <1>1, ListElements
    <2>2. \A p \in DOMAIN q.ops : Meant(q)[p] = q.ops[p]
      BY MeantWhenTyped
    <2>3. QED
      BY <1>1, <2>1, <2>2
  <1>6. /\ \A i \in DOMAIN a : \E p \in InsOf(q.ops) : a[i] = q.ops[p]
        /\ \A p \in InsOf(q.ops) : \E i \in DOMAIN a : a[i] = q.ops[p]
    BY <1>4, <1>5 DEF InsOf
  <1>7. DOMAIN a # {} <=> InsOf(q.ops) # {}
    BY <1>6
  <1>8. QED
    BY <1>6, <1>7 DEF a, s

(* The signers parsed from the signed transaction are those of the         *)
(* payloads.                                                               *)
LEMMA SignersParsed ==
  ASSUME NEW q \in Intents, WellTyped(q), ~NoMatch(q.type, q.ops), NEW tx, ParsesAs(q, tx),
         NEW rtx, rtx.signers = SignersOf(q.ops),
         ~SignersMissing(rtx, ParseTx(tx, SignersOf(q.ops))),
         q.type = "EXPORT" => Cardinality(Members(PayloadsOf(q.ops))) = 1
  PROVE  SameSigners(q, tx, rtx)
  <1> DEFINE s == ParseTx(tx, SignersOf(q.ops))
             a == Ins(s)
             g == GetAccountIdentifiers(rtx, s)
             Of(c) == AccountOf(SignersOf(q.ops), c)
  <1>1. PICK n \in Nat : IntentOps(q.ops, n)
    BY IntentFacts
  <1>2. /\ \A i \in DOMAIN a : \E p \in InsOf(q.ops) : a[i] = q.ops[p]
        /\ \A p \in InsOf(q.ops) : \E i \in DOMAIN a : a[i] = q.ops[p]
        /\ DOMAIN a # {} <=> InsOf(q.ops) # {}
    BY ParsedInputs
  <1>3. g = [i \in DOMAIN a |-> Of(a[i].coin)]
    BY DEF GetAccountIdentifiers, Map
  <1>4. \A i \in DOMAIN a : a[i].coin \in KnownCoins(SignersOf(q.ops))
    BY DEF SignersMissing
  <1>5. Members(PayloadsOf(q.ops)) = {q.ops[p].account : p \in InsOf(q.ops)}
    BY PayloadMembers
  <1>6. Members(g) = {Of(a[i].coin) : i \in DOMAIN a}
    <2> HIDE DEF a, Of, g
    <2>1. QED
      BY <1>3 DEF Members
  <1>7. CASE q.type # "EXPORT"
    <2>1. \A p \in InsOf(q.ops) : Of(q.ops[p].coin) = q.ops[p].account
      BY <1>7, OwnersTravel
    <2> HIDE DEF a, Of, g, s
    <2>2. Members(g) = {q.ops[p].account : p \in InsOf(q.ops)}
      BY <1>2, <1>6, <2>1
    <2>3. QED
      BY <1>5, <2>2 DEF SameSigners, g, s
  <1>8. CASE q.type = "EXPORT"
    <2> DEFINE M == {q.ops[p].account : p \in InsOf(q.ops)}
    <2>1. \A i \in DOMAIN a : Of(a[i].coin) \in M
      <3> SUFFICES ASSUME NEW i \in DOMAIN a PROVE Of(a[i].coin) \in M
        OBVIOUS
      <3> DEFINE c == a[i].coin
      <3>1. c \in KnownCoins(SignersOf(q.ops))
        BY <1>4
      <3> HIDE DEF c
      <3>2. \E p \in InsOf(q.ops) : q.ops[p].coin = c /\ AccountOf(SignersOf(q.ops), c) = q.ops[p].account
        BY <1>1, <3>1, KnownAccount
      <3>3. QED
        BY <3>2 DEF c
    <2>2. InsOf(q.ops) # {}
      BY InsNotEmpty
    <2>3. IsFiniteSet(M)
      <3>0. ASSUME NEW p \in InsOf(q.ops) PROVE q.ops[p].account \in Account
        <4> DEFINE ops == q.ops
        <4> HIDE DEF ops
        <4>1. IntentOps(ops, n) /\ p \in InsOf(ops)
          BY <1>1 DEF ops
        <4>2. ops[p].account \in Account
          BY <4>1, InFacts
        <4>3. QED
          BY <4>2 DEF ops
      <3>1. M \subseteq Account
        BY <3>0
      <3> HIDE DEF M
      <3>2. QED
        BY <3>1, FS_Subset, ConstantsAssumption
    <2>4. Cardinality(M) = 1
      BY <1>5, <1>8
    <2>5. PICK x : M = {x}
      <3> HIDE DEF M
      <3>1. QED
        BY <2>3, <2>4, FS_Singleton
    <2> HIDE DEF a, Of, g, s, M
    <2>6. Members(g) = {x}
      BY <1>2, <1>6, <2>1, <2>2, <2>5
    <2>7. QED
      BY <1>5, <2>5, <2>6 DEF SameSigners, g, s, M
  <1>9. QED
    BY <1>7, <1>8
-----------------------------------------------------------------------------
(* The inductive invariant *)

Before == {"preprocess", "metadata", "payloads"}
HasDestination == intent.type \in {"EXPORT_AVAX", "EXPORT"}

(* The transaction travels with what belongs to it. *)
Whole(rtx) ==
    rtx = [tx |-> rtx.tx, creds |-> rtx.creds, signers |-> rtx.signers,
           destination |-> rtx.destination]

(* What the client's calls have passed, and when the transaction exists *)
PhaseInv ==
    /\ Whole(rosettaTx)
    /\ phase \notin {"preprocess", "failed"} => ~NoMatch(intent.type, intent.ops)
    /\ phase = "metadata" => options = intent
    /\ phase \in Before => rosettaTx.signers = <<>>
    /\ phase \notin Before \cup {"failed"} => rosettaTx.signers # <<>>
    /\ phase \notin {"preprocess", "metadata", "failed"} => metadata.destination = HasDestination

(* Once it exists, the transaction is the one built from the intent, with  *)
(* the accounts of its inputs.                                             *)
BuiltInv ==
    rosettaTx.signers # <<>> =>
        /\ ~NoMatch(intent.type, intent.ops) /\ ~BuildFails(intent.type, intent.ops)
        /\ rosettaTx.tx = BuildTx(intent.type, intent.ops, metadata)
        /\ rosettaTx.signers = SignersOf(intent.ops)
        /\ rosettaTx.destination = HasDestination
        /\ payloads = PayloadsOf(intent.ops)

ParsedInv ==
    parsed.ops # <<>> =>
        /\ rosettaTx.signers # <<>>
        /\ parsed.ops = ParseTx(rosettaTx.tx, rosettaTx.signers)
        /\ parsed.signers # <<>> =>
            /\ ~SignersMissing(rosettaTx, parsed.ops)
            /\ parsed.signers = GetAccountIdentifiers(rosettaTx, parsed.ops)

SignedInv ==
    IsSigned => /\ ~CombineFails(rosettaTx.tx, payloads)
                /\ rosettaTx.creds = Credentials(rosettaTx.tx, payloads)

(* The node has accepted nothing but what the client submits. *)
HashInv ==
    /\ accepted \subseteq {hash}
    /\ accepted # {} => phase \in {"submit", "done", "failed"}
    /\ phase \in {"submit", "done"} => hash = TxID(rosettaTx)

(* Nonces grow, and the one of the transaction is the one the client       *)
(* named, or the exporting account's when metadata was answered.           *)
NonceInv ==
    /\ \A a \in Account : nonceThen[a] <= nonce[a]
    /\ phase \notin {"preprocess", "metadata", "failed"} =>
        metadata.nonce = IF intent.type # "EXPORT" THEN 0
                         ELSE IF intent.nonce # -1 THEN intent.nonce ELSE nonceThen[Exporter]

IInv == TypeOK /\ PhaseInv /\ BuiltInv /\ ParsedInv /\ SignedInv /\ HashInv /\ NonceInv
-----------------------------------------------------------------------------
(* What the client confirms follows from the inductive invariant. *)
LEMMA InvConfirms == IInv => IntentConfirmed
  <1> SUFFICES ASSUME IInv PROVE IntentConfirmed
    OBVIOUS
  <1> DEFINE q == intent
             tx == rosettaTx.tx
  <1>1. accepted \subseteq {hash}
    BY DEF IInv, HashInv
  <1>2. ASSUME parsed.ops # <<>>
        PROVE  /\ \A op \in Members(parsed.ops) : Count(parsed.ops, op) <= Count(q.ops, op)
                      \/ (q.type = "EXPORT" /\ ~WellTyped(q))
               /\ WellTyped(q) => Len(parsed.ops) = Len(q.ops)
               /\ parsed.signers # <<>> /\ WellTyped(q)
                  /\ (q.type = "EXPORT" => Cardinality(Members(payloads)) = 1)
                      => Members(parsed.signers) = Members(payloads)
    <2>1. rosettaTx.signers # <<>> /\ q \in Intents
      BY <1>2 DEF IInv, ParsedInv, TypeOK
    <2>2. /\ ~NoMatch(q.type, q.ops) /\ ~BuildFails(q.type, q.ops)
          /\ tx = BuildTx(q.type, q.ops, metadata)
          /\ rosettaTx.signers = SignersOf(q.ops)
          /\ payloads = PayloadsOf(q.ops)
      BY <2>1 DEF IInv, BuiltInv
    <2>3. parsed.ops = ParseTx(tx, SignersOf(q.ops))
      BY <1>2, <2>2 DEF IInv, ParsedInv
    <2>4. parsed.signers # <<>> => /\ ~SignersMissing(rosettaTx, ParseTx(tx, SignersOf(q.ops)))
                                   /\ parsed.signers = GetAccountIdentifiers(rosettaTx, ParseTx(tx, SignersOf(q.ops)))
      BY <1>2, <2>2, <2>3 DEF IInv, ParsedInv
    <2> HIDE DEF q, tx
    <2>5. ParsesAs(q, tx)
      BY <2>1, <2>2, BuiltParses
    <2>6. ASSUME NEW op \in Members(parsed.ops), q.type # "EXPORT" \/ WellTyped(q)
          PROVE  Count(parsed.ops, op) <= Count(q.ops, op)
      BY <2>1, <2>3, <2>5, <2>6, CountParsed
    <2>7. ASSUME WellTyped(q) PROVE Len(parsed.ops) = Len(q.ops)
      BY <2>1, <2>3, <2>5, <2>7, LengthParsed
    <2>8. ASSUME parsed.signers # <<>>, WellTyped(q), q.type = "EXPORT" => Cardinality(Members(payloads)) = 1
          PROVE  Members(parsed.signers) = Members(payloads)
      <3>1. q.type = "EXPORT" => Cardinality(Members(PayloadsOf(q.ops))) = 1
        BY <2>2, <2>8
      <3>2. SameSigners(q, tx, rosettaTx)
        BY <2>1, <2>2, <2>4, <2>5, <2>8, <3>1, SignersParsed
      <3>3. QED
        BY <2>2, <2>4, <2>8, <3>2 DEF SameSigners
    <2>9. QED
      BY <2>6, <2>7, <2>8
  <1>3. QED
    BY <1>1, <1>2 DEF IntentConfirmed
-----------------------------------------------------------------------------
(* Each step of the client and of the others keeps the inductive           *)
(* invariant.                                                              *)
LEMMA InitInv == Init => IInv
  <1> SUFFICES ASSUME Init PROVE IInv
    OBVIOUS
  <1>1. /\ rosettaTx.signers = <<>> /\ rosettaTx.creds = <<>> /\ rosettaTx.tx = EmptyTx
        /\ parsed.ops = <<>> /\ parsed.signers = <<>> /\ parsed = [ops |-> <<>>, signers |-> <<>>]
        /\ payloads = <<>> /\ phase = "preprocess" /\ metadata = [nonce |-> 0, destination |-> FALSE]
        /\ accepted = {} /\ spent = {} /\ nonce = FirstNonce /\ nonceThen = FirstNonce /\ spends = 0
        /\ intent \in Intents /\ options = None
        /\ rosettaTx = [tx |-> EmptyTx, creds |-> <<>>, signers |-> <<>>, destination |-> FALSE]
    BY DEF Init
  <1>2. TxCoins(EmptyTx) = {}
    BY DEF TxCoins, EmptyTx
  <1>3. TypeOK
    <2>1. phase \in Phase /\ ~IsSigned
      BY <1>1 DEF Phase, IsSigned
    <2>2. TxCoins(rosettaTx.tx) \subseteq KnownCoins(rosettaTx.signers)
      BY <1>1, <1>2
    <2>3. spends \in 0 .. MaxSpends
      BY <1>1, ConstantsAssumption
    <2>4. parsed \in [ops : Seq(Operation), signers : Seq(Account)]
      BY <1>1
    <2>5. metadata \in [nonce : Nat, destination : BOOLEAN]
      BY <1>1
    <2>6. nonce \in [Account -> Nat] /\ nonceThen \in [Account -> Nat]
      BY <1>1, ConstantsAssumption
    <2>7. QED
      BY <1>1, <2>1, <2>2, <2>3, <2>4, <2>5, <2>6 DEF TypeOK
  <1>4. PhaseInv /\ BuiltInv /\ ParsedInv /\ HashInv
    BY <1>1 DEF PhaseInv, Whole, BuiltInv, ParsedInv, HashInv, Before
  <1>5. SignedInv
    BY <1>1 DEF SignedInv, IsSigned
  <1>6. NonceInv
    BY <1>1, ConstantsAssumption DEF NonceInv
  <1>7. QED
    BY <1>3, <1>4, <1>5, <1>6 DEF IInv

(* A step that only moves to a phase that asks for nothing new *)
LEMMA FailedKeeps == IInv /\ Failed => IInv'
  <1> SUFFICES ASSUME IInv, Failed PROVE IInv'
    OBVIOUS
  <1>1. /\ phase' = "failed"
        /\ UNCHANGED <<intent, options, metadata, rosettaTx, payloads, parsed, hash,
                       accepted, spent, nonce, spends, nonceThen>>
    BY DEF Failed, nodeVars
  <1>2. TypeOK'
    BY <1>1 DEF IInv, TypeOK, Phase, IsSigned
  <1>3. PhaseInv'
    BY <1>1 DEF IInv, PhaseInv, Before
  <1>4. BuiltInv'
    BY <1>1 DEF IInv, BuiltInv, HasDestination
  <1>5. ParsedInv'
    BY <1>1 DEF IInv, ParsedInv
  <1>6. SignedInv' /\ HashInv'
    BY <1>1 DEF IInv, SignedInv, IsSigned, HashInv
  <1>7. NonceInv'
    BY <1>1 DEF IInv, NonceInv, Exporter
  <1>8. QED
    BY <1>2, <1>3, <1>4, <1>5, <1>6, <1>7 DEF IInv

LEMMA PreprocessKeeps == IInv /\ ConstructionPreprocess => IInv'
  <1> SUFFICES ASSUME IInv, ConstructionPreprocess PROVE IInv'
    OBVIOUS
  <1>1. CASE Failed
    BY <1>1, FailedKeeps
  <1>2. CASE /\ ~NoMatch(intent.type, intent.ops)
             /\ options' = intent
             /\ phase' = "metadata"
             /\ UNCHANGED <<intent, metadata, rosettaTx, payloads, parsed, hash, nodeVars, nonceThen>>
    <2>1. /\ phase = "preprocess" /\ phase' = "metadata"
          /\ UNCHANGED <<intent, metadata, rosettaTx, payloads, parsed, hash,
                         accepted, spent, nonce, spends, nonceThen>>
      BY <1>2 DEF nodeVars, ConstructionPreprocess, Calling
    <2>2. TypeOK'
      BY <1>2, <2>1 DEF IInv, TypeOK, Phase, IsSigned
    <2>3. PhaseInv'
      BY <1>2, <2>1 DEF IInv, PhaseInv, Before
    <2>4. BuiltInv'
      BY <2>1 DEF IInv, BuiltInv, HasDestination
    <2>5. ParsedInv'
      BY <2>1 DEF IInv, ParsedInv
    <2>6. SignedInv' /\ HashInv'
      BY <2>1 DEF IInv, SignedInv, IsSigned, HashInv
    <2>7. NonceInv'
      BY <2>1 DEF IInv, NonceInv, Exporter
    <2>8. QED
      BY <2>2, <2>3, <2>4, <2>5, <2>6, <2>7 DEF IInv
  <1>3. QED
    BY <1>1, <1>2 DEF ConstructionPreprocess
-----------------------------------------------------------------------------
LEMMA MetadataKeeps == IInv /\ ConstructionMetadata => IInv'
  <1> SUFFICES ASSUME IInv, ConstructionMetadata PROVE IInv'
    OBVIOUS
  <1>1. CASE Failed
    BY <1>1, FailedKeeps
  <1>2. CASE /\ metadata' = [nonce |-> NonceOf(options),
                             destination |-> options.type \in {"EXPORT_AVAX", "EXPORT"}]
             /\ nonceThen' = nonce
             /\ phase' = "payloads"
             /\ UNCHANGED <<intent, options, rosettaTx, payloads, parsed, hash, nodeVars>>
    <2>1. /\ phase = "metadata" /\ phase' = "payloads" /\ nonceThen' = nonce
          /\ UNCHANGED <<intent, options, rosettaTx, payloads, parsed, hash,
                         accepted, spent, nonce, spends>>
      BY <1>2 DEF nodeVars, ConstructionMetadata, Calling
    <2>2. /\ options = intent /\ ~NoMatch(intent.type, intent.ops) /\ rosettaTx.signers = <<>>
          /\ intent \in Intents /\ nonce \in [Account -> Nat] /\ accepted = {}
      BY <2>1 DEF IInv, PhaseInv, TypeOK, Before, HashInv
    <2>3. NonceOf(intent) \in Nat
      <3>1. intent.nonce \in Nat \cup {-1}
        BY <2>2, IntentFacts
      <3>2. Ins(intent.ops)[1].account \in Account
        BY <2>2, InsNotEmpty
      <3>3. QED
        BY <2>2, <3>1, <3>2 DEF NonceOf
    <2>4. metadata'.nonce = NonceOf(intent) /\ metadata'.destination = HasDestination
          /\ metadata' \in [nonce : Nat, destination : BOOLEAN]
      BY <1>2, <2>2, <2>3 DEF HasDestination
    <2>5. TypeOK'
      BY <2>1, <2>4 DEF IInv, TypeOK, Phase, IsSigned
    <2>6. PhaseInv'
      BY <2>1, <2>2, <2>4 DEF IInv, PhaseInv, Before, HasDestination
    <2>7. BuiltInv' /\ ParsedInv'
      BY <2>1, <2>2 DEF IInv, BuiltInv, ParsedInv
    <2>8. SignedInv' /\ HashInv'
      BY <2>1 DEF IInv, SignedInv, IsSigned, HashInv
    <2>9. NonceInv'
      <3>1. \A a \in Account : nonceThen'[a] <= nonce'[a]
        BY <2>1, <2>2
      <3>2. NonceOf(intent) = IF intent.type # "EXPORT" THEN 0
                              ELSE IF intent.nonce # -1 THEN intent.nonce ELSE nonce[Exporter]
        BY DEF NonceOf, Exporter
      <3>3. Exporter' = Exporter
        BY <2>1 DEF Exporter
      <3>4. QED
        BY <2>1, <2>4, <3>1, <3>2, <3>3 DEF NonceInv
    <2>10. QED
      BY <2>5, <2>6, <2>7, <2>8, <2>9 DEF IInv
  <1>3. QED
    BY <1>1, <1>2 DEF ConstructionMetadata

LEMMA PayloadsKeeps == IInv /\ ConstructionPayloads => IInv'
  <1> SUFFICES ASSUME IInv, ConstructionPayloads PROVE IInv'
    OBVIOUS
  <1>1. CASE Failed
    BY <1>1, FailedKeeps
  <1>2. CASE /\ ~NoMatch(intent.type, intent.ops) /\ ~BuildFails(intent.type, intent.ops)
             /\ rosettaTx' = [tx |-> BuildTx(intent.type, intent.ops, metadata),
                              creds |-> <<>>,
                              signers |-> SignersOf(intent.ops),
                              destination |-> metadata.destination]
             /\ payloads' = PayloadsOf(intent.ops)
             /\ phase' = "parse"
             /\ UNCHANGED <<intent, options, metadata, parsed, hash, nodeVars, nonceThen>>
    <2>1. /\ phase = "payloads" /\ phase' = "parse"
          /\ UNCHANGED <<intent, options, metadata, parsed, hash, accepted, spent, nonce, spends, nonceThen>>
      BY <1>2 DEF nodeVars, ConstructionPayloads, Calling
    <2>2. /\ intent \in Intents /\ metadata.destination = HasDestination
          /\ rosettaTx.signers = <<>> /\ accepted = {}
      BY <2>1 DEF IInv, PhaseInv, TypeOK, Before, HashInv
    <2> DEFINE tx == BuildTx(intent.type, intent.ops, metadata)
               sg == SignersOf(intent.ops)
               pl == PayloadsOf(intent.ops)
    <2>3. rosettaTx'.tx = tx /\ rosettaTx'.creds = <<>> /\ rosettaTx'.signers = sg
          /\ rosettaTx'.destination = HasDestination /\ payloads' = pl
      BY <1>2, <2>2
    <2>4. ParsesAs(intent, tx)
      BY <1>2, <2>2, BuiltParses
    <2>5. sg # <<>> /\ pl \in Seq(Account)
      BY <1>2, <2>2, InsNotEmpty
    <2>6. TxCoins(tx) \subseteq KnownCoins(sg)
      BY <2>4 DEF ParsesAs
    <2> HIDE DEF tx, sg, pl
    <2>7. parsed.ops = <<>>
      BY <2>2 DEF IInv, ParsedInv
    <2>8. TypeOK'
      BY <2>1, <2>3, <2>5, <2>6 DEF IInv, TypeOK, Phase, IsSigned
    <2>9. PhaseInv'
      <3>1. Whole(rosettaTx')
        BY <1>2, <2>3 DEF Whole
      <3>2. QED
        BY <1>2, <2>1, <2>2, <2>3, <2>5, <3>1 DEF IInv, PhaseInv, Before, HasDestination
    <2>10. BuiltInv'
      BY <1>2, <2>1, <2>3 DEF BuiltInv, HasDestination, tx, sg, pl
    <2>11. ParsedInv'
      BY <2>1, <2>7 DEF ParsedInv
    <2>12. SignedInv' /\ HashInv'
      BY <2>1, <2>2 DEF SignedInv, IsSigned, HashInv
    <2>13. NonceInv'
      BY <2>1 DEF IInv, NonceInv, Exporter
    <2>14. QED
      BY <2>8, <2>9, <2>10, <2>11, <2>12, <2>13 DEF IInv
  <1>3. QED
    BY <1>1, <1>2 DEF ConstructionPayloads, SignersOf, PayloadsOf

(* Facts that hold once the transaction exists *)
LEMMA WhenBuilt ==
  ASSUME IInv, phase \notin Before \cup {"failed"}
  PROVE  /\ intent \in Intents /\ ~NoMatch(intent.type, intent.ops) /\ ~BuildFails(intent.type, intent.ops)
         /\ rosettaTx.signers # <<>>
         /\ rosettaTx.tx = BuildTx(intent.type, intent.ops, metadata)
         /\ rosettaTx.signers = SignersOf(intent.ops)
         /\ rosettaTx.destination = HasDestination
         /\ payloads = PayloadsOf(intent.ops)
         /\ ParsesAs(intent, rosettaTx.tx)
         /\ rosettaTx.tx.type = intent.type
  <1>1. intent \in Intents /\ rosettaTx.signers # <<>>
    BY DEF IInv, TypeOK, PhaseInv
  <1>2. /\ ~NoMatch(intent.type, intent.ops) /\ ~BuildFails(intent.type, intent.ops)
        /\ rosettaTx.tx = BuildTx(intent.type, intent.ops, metadata)
        /\ rosettaTx.signers = SignersOf(intent.ops)
        /\ rosettaTx.destination = HasDestination
        /\ payloads = PayloadsOf(intent.ops)
    BY <1>1 DEF IInv, BuiltInv
  <1>3. ParsesAs(intent, rosettaTx.tx)
    BY <1>1, <1>2, BuiltParses
  <1>4. rosettaTx.tx.type = intent.type
    BY <1>1, <1>2, BuiltTypes DEF BuiltType
  <1>5. QED
    BY <1>1, <1>2, <1>3, <1>4

LEMMA ParseKeeps ==
  ASSUME IInv, NEW signed \in BOOLEAN, NEW from, NEW then, phase = from,
         <<signed, from, then>> \in {<<FALSE, "parse", "combine">>, <<TRUE, "parse signed", "hash">>},
         Parse(signed, then)
  PROVE  IInv'
  <1> DEFINE ops == ParseTx(rosettaTx.tx, rosettaTx.signers)
             sgs == IF signed THEN GetAccountIdentifiers(rosettaTx, ops) ELSE <<>>
  <1>1. CASE Failed
    BY <1>1, FailedKeeps
  <1>2. CASE /\ ~(signed /\ SignersMissing(rosettaTx, ops))
             /\ parsed' = [ops |-> ops, signers |-> sgs]
             /\ phase' = then
             /\ UNCHANGED <<intent, options, metadata, rosettaTx, payloads, hash, nodeVars, nonceThen>>
    <2>1. /\ phase = from /\ phase' = then
          /\ UNCHANGED <<intent, options, metadata, rosettaTx, payloads, hash,
                         accepted, spent, nonce, spends, nonceThen>>
      BY <1>2 DEF nodeVars
    <2>2. \/ ~signed /\ from = "parse" /\ then = "combine"
          \/ signed /\ from = "parse signed" /\ then = "hash"
      OBVIOUS
    <2>3. phase \notin Before \cup {"failed"}
      BY <2>2 DEF Before
    <2>4. /\ intent \in Intents /\ rosettaTx.signers # <<>>
          /\ rosettaTx.signers = SignersOf(intent.ops)
          /\ ParsesAs(intent, rosettaTx.tx)
      BY <2>3, WhenBuilt
    <2>5. ops \in Seq(Operation)
      BY <2>4, ParsedType
    <2>6. sgs \in Seq(Account)
      <3>1. CASE signed
        <4>1. PICK n \in Nat : IntentOps(intent.ops, n)
          BY <2>4, IntentFacts
        <4>2. ~SignersMissing(rosettaTx, ops)
          BY <1>2, <3>1
        <4> HIDE DEF ops
        <4>3. GetAccountIdentifiers(rosettaTx, ops) \in Seq(Account)
          BY <2>4, <2>5, <4>1, <4>2, IdentifiersType
        <4>4. QED
          BY <3>1, <4>3
      <3>2. CASE ~signed
        <4>1. sgs = <<>>
          BY <3>2
        <4>2. <<>> \in Seq(Account)
          BY EmptySequence
        <4> HIDE DEF sgs
        <4>3. QED
          BY <4>1, <4>2
      <3>3. QED
        BY <3>1, <3>2
    <2>7. sgs # <<>> => signed /\ sgs = GetAccountIdentifiers(rosettaTx, ops)
      OBVIOUS
    <2>8. parsed'.ops = ops /\ parsed'.signers = sgs
      BY <1>2
    <2>9. ParsedInv'
      BY <1>2, <2>1, <2>4, <2>7, <2>8 DEF ParsedInv
    <2> HIDE DEF ops, sgs
    <2>10. TypeOK'
      <3>1. parsed' \in [ops : Seq(Operation), signers : Seq(Account)]
        BY <1>2, <2>5, <2>6
      <3>2. phase' \in Phase /\ (IsSigned' => IsSigned)
        BY <2>1, <2>2 DEF Phase, IsSigned
      <3>3. QED
        BY <2>1, <3>1, <3>2 DEF IInv, TypeOK
    <2>11. PhaseInv'
      BY <2>1, <2>2 DEF IInv, PhaseInv, Before, HasDestination
    <2>12. BuiltInv'
      BY <2>1 DEF IInv, BuiltInv, HasDestination
    <2>13. SignedInv' /\ HashInv'
      BY <2>1, <2>2 DEF IInv, SignedInv, IsSigned, HashInv
    <2>14. NonceInv'
      BY <2>1, <2>2 DEF IInv, NonceInv, Exporter
    <2>15. QED
      BY <2>9, <2>10, <2>11, <2>12, <2>13, <2>14 DEF IInv
  <1>3. QED
    BY <1>1, <1>2 DEF Parse
-----------------------------------------------------------------------------
LEMMA CombineKeeps == IInv /\ ConstructionCombine => IInv'
  <1> SUFFICES ASSUME IInv, ConstructionCombine PROVE IInv'
    OBVIOUS
  <1>1. CASE Failed
    BY <1>1, FailedKeeps
  <1>2. CASE /\ ~CombineFails(rosettaTx.tx, payloads)
             /\ rosettaTx' = [rosettaTx EXCEPT !.creds = Credentials(rosettaTx.tx, payloads)]
             /\ phase' = "parse signed"
             /\ UNCHANGED <<intent, options, metadata, payloads, parsed, hash, nodeVars, nonceThen>>
    <2>1. /\ phase = "combine" /\ phase' = "parse signed"
          /\ UNCHANGED <<intent, options, metadata, payloads, parsed, hash,
                         accepted, spent, nonce, spends, nonceThen>>
      BY <1>2 DEF nodeVars, ConstructionCombine, Calling
    <2>2. phase \notin Before \cup {"failed"}
      BY <2>1 DEF Before
    <2>3. /\ intent \in Intents /\ ~NoMatch(intent.type, intent.ops)
          /\ rosettaTx.tx = BuildTx(intent.type, intent.ops, metadata)
          /\ payloads = PayloadsOf(intent.ops)
      BY <2>2, WhenBuilt
    <2> DEFINE c == Credentials(rosettaTx.tx, payloads)
    <2>4. c \in Seq(Seq(Account)) /\ c # <<>>
      BY <1>2, <2>3, CredentialsType
    <2>5. rosettaTx'.tx = rosettaTx.tx /\ rosettaTx'.signers = rosettaTx.signers
          /\ rosettaTx'.destination = rosettaTx.destination /\ rosettaTx'.creds = c
      <3>1. Whole(rosettaTx)
        BY DEF IInv, PhaseInv
      <3>2. QED
        BY <1>2, <3>1 DEF Whole
    <2> HIDE DEF c
    <2>6. TypeOK'
      BY <2>1, <2>4, <2>5 DEF IInv, TypeOK, Phase
    <2>7. PhaseInv'
      <3>1. Whole(rosettaTx) /\ Whole(rosettaTx')
        BY <1>2 DEF IInv, PhaseInv, Whole
      <3>2. QED
        BY <2>1, <2>5, <3>1 DEF IInv, PhaseInv, Before, HasDestination
    <2>8. BuiltInv'
      BY <2>1, <2>5 DEF IInv, BuiltInv, HasDestination
    <2>9. ParsedInv'
      BY <2>1, <2>5 DEF IInv, ParsedInv, SignersMissing, GetAccountIdentifiers, Map
    <2>10. SignedInv'
      BY <1>2, <2>1, <2>5 DEF SignedInv, c
    <2>11. HashInv' /\ NonceInv'
      BY <2>1 DEF IInv, HashInv, NonceInv, Exporter
    <2>12. QED
      BY <2>6, <2>7, <2>8, <2>9, <2>10, <2>11 DEF IInv
  <1>3. QED
    BY <1>1, <1>2 DEF ConstructionCombine

LEMMA HashKeeps == IInv /\ ConstructionHash => IInv'
  <1> SUFFICES ASSUME IInv, ConstructionHash PROVE IInv'
    OBVIOUS
  <1>1. /\ phase = "hash" /\ phase' = "submit" /\ hash' = TxID(rosettaTx)
        /\ UNCHANGED <<intent, options, metadata, rosettaTx, payloads, parsed,
                       accepted, spent, nonce, spends, nonceThen>>
    BY DEF nodeVars, ConstructionHash, Calling, HashTx
  <1>2. TypeOK'
    BY <1>1 DEF IInv, TypeOK, Phase, IsSigned
  <1>3. PhaseInv'
    BY <1>1 DEF IInv, PhaseInv, Before, HasDestination
  <1>4. BuiltInv'
    BY <1>1 DEF IInv, BuiltInv, HasDestination
  <1>5. ParsedInv'
    BY <1>1 DEF IInv, ParsedInv
  <1>6. SignedInv'
    BY <1>1 DEF IInv, SignedInv, IsSigned
  <1>7. HashInv'
    BY <1>1 DEF IInv, HashInv, TxID
  <1>8. NonceInv'
    BY <1>1 DEF IInv, NonceInv, Exporter
  <1>9. QED
    BY <1>2, <1>3, <1>4, <1>5, <1>6, <1>7, <1>8 DEF IInv

(* A transaction spends coins that exist. *)
LEMMA CoinsOfTx ==
  ASSUME NEW q \in Intents, ~NoMatch(q.type, q.ops), NEW md,
         NEW tx, tx = BuildTx(q.type, q.ops, md), ParsesAs(q, tx)
  PROVE  TxCoins(tx) \subseteq Coins
  <1>1. CASE q.type = "EXPORT"
    <2>1. tx.ins = <<>> /\ tx.imported = <<>>
      BY <1>1 DEF BuildTx, buildAtomicExportTx, EmptyTx
    <2>2. QED
      BY <2>1 DEF TxCoins
  <1>2. CASE q.type # "EXPORT"
    <2>1. PICK n \in Nat : IntentOps(q.ops, n)
      BY IntentFacts
    <2>2. TxCoins(tx) \subseteq KnownCoins(SignersOf(q.ops))
      BY DEF ParsesAs
    <2>3. ASSUME NEW c \in KnownCoins(SignersOf(q.ops)) PROVE c \in Coins
      <3>1. \E p \in InsOf(q.ops) : q.ops[p].coin = c /\ AccountOf(SignersOf(q.ops), c) = q.ops[p].account
        BY <2>1, KnownAccount
      <3>2. PICK p \in InsOf(q.ops) : q.ops[p].coin = c
        BY <3>1
      <3>3. q.ops[p].coin # 0
        BY <1>2, OwnersTravel
      <3> DEFINE ops == q.ops
      <3> HIDE DEF ops
      <3>4. IntentOps(ops, n) /\ p \in InsOf(ops)
        BY <2>1, <3>2 DEF ops
      <3>5. ops[p].coin \in Coins \cup {0}
        BY <3>4, InFacts
      <3>6. QED
        BY <3>2, <3>3, <3>5 DEF ops
    <2>4. QED
      BY <2>2, <2>3
  <1>3. QED
    BY <1>1, <1>2

LEMMA SubmitKeeps == IInv /\ ConstructionSubmit => IInv'
  <1> SUFFICES ASSUME IInv, ConstructionSubmit PROVE IInv'
    OBVIOUS
  <1>1. CASE Failed
    BY <1>1, FailedKeeps
  <1>2. CASE /\ accepted' = accepted \cup {TxID(rosettaTx)}
             /\ spent' = spent \cup TxCoins(rosettaTx.tx)
             /\ nonce' = [a \in Account |-> IF \E i \in DOMAIN rosettaTx.tx.evmIns :
                                                rosettaTx.tx.evmIns[i].account = a
                                            THEN nonce[a] + 1 ELSE nonce[a]]
             /\ phase' \in {"done", "submit"}
             /\ UNCHANGED <<intent, options, metadata, rosettaTx, payloads, parsed, hash, spends, nonceThen>>
    <2>1. /\ phase = "submit" /\ phase' \in {"done", "submit"}
          /\ UNCHANGED <<intent, options, metadata, rosettaTx, payloads, parsed, hash, spends, nonceThen>>
          /\ accepted' = accepted \cup {TxID(rosettaTx)}
      BY <1>2 DEF ConstructionSubmit, Calling
    <2>2. phase \notin Before \cup {"failed"}
      BY <2>1 DEF Before
    <2>3. /\ intent \in Intents /\ ~NoMatch(intent.type, intent.ops)
          /\ rosettaTx.tx = BuildTx(intent.type, intent.ops, metadata)
          /\ ParsesAs(intent, rosettaTx.tx)
      BY <2>2, WhenBuilt
    <2>4. spent' \subseteq Coins
      <3>1. TxCoins(rosettaTx.tx) \subseteq Coins
        BY <2>3, CoinsOfTx
      <3>2. QED
        BY <1>2, <3>1 DEF IInv, TypeOK
    <2>5. nonce' \in [Account -> Nat]
      <3>1. nonce \in [Account -> Nat]
        BY DEF IInv, TypeOK
      <3>2. QED
        BY <1>2, <3>1
    <2>6. TypeOK'
      BY <2>1, <2>4, <2>5 DEF IInv, TypeOK, Phase, IsSigned
    <2>7. PhaseInv'
      BY <2>1 DEF IInv, PhaseInv, Before, HasDestination
    <2>8. BuiltInv'
      BY <2>1 DEF IInv, BuiltInv, HasDestination
    <2>9. ParsedInv'
      BY <2>1 DEF IInv, ParsedInv
    <2>10. SignedInv'
      BY <2>1 DEF IInv, SignedInv, IsSigned
    <2>11. HashInv'
      BY <2>1 DEF IInv, HashInv, TxID
    <2>12. NonceInv'
      <3>1. nonce \in [Account -> Nat] /\ nonceThen \in [Account -> Nat]
        BY DEF IInv, TypeOK
      <3>2. \A a \in Account : nonce'[a] \in {nonce[a], nonce[a] + 1}
        BY <1>2
      <3>3. \A a \in Account : nonceThen'[a] <= nonce'[a]
        BY <2>1, <3>1, <3>2 DEF IInv, NonceInv
      <3>4. QED
        BY <2>1, <3>3 DEF IInv, NonceInv, Exporter
    <2>13. QED
      BY <2>6, <2>7, <2>8, <2>9, <2>10, <2>11, <2>12 DEF IInv
  <1>3. QED
    BY <1>1, <1>2 DEF ConstructionSubmit

LEMMA SpendKeeps == IInv /\ SpendElsewhere => IInv'
  <1> SUFFICES ASSUME IInv, SpendElsewhere PROVE IInv'
    OBVIOUS
  <1>1. /\ spends < MaxSpends /\ spends' = spends + 1
        /\ UNCHANGED <<intent, phase, options, metadata, rosettaTx, payloads, parsed, hash, accepted, nonceThen>>
    BY DEF SpendElsewhere
  <1>2. spends \in Nat /\ spends' \in 0 .. MaxSpends /\ spends' # 0
    BY <1>1, ConstantsAssumption DEF IInv, TypeOK
  <1>3. spent' \subseteq Coins /\ nonce' \in [Account -> Nat]
    <2>1. spent \subseteq Coins /\ nonce \in [Account -> Nat]
      BY DEF IInv, TypeOK
    <2>2. QED
      BY <2>1 DEF SpendElsewhere
  <1>4. TypeOK'
    BY <1>1, <1>2, <1>3 DEF IInv, TypeOK, IsSigned
  <1>5. PhaseInv'
    BY <1>1 DEF IInv, PhaseInv, Before, HasDestination
  <1>6. BuiltInv'
    BY <1>1 DEF IInv, BuiltInv, HasDestination
  <1>7. ParsedInv'
    BY <1>1 DEF IInv, ParsedInv
  <1>8. SignedInv' /\ HashInv'
    BY <1>1 DEF IInv, SignedInv, IsSigned, HashInv, TxID
  <1>9. NonceInv'
    <2>1. nonce \in [Account -> Nat] /\ nonceThen \in [Account -> Nat]
      BY DEF IInv, TypeOK
    <2>2. \A a \in Account : nonce'[a] \in {nonce[a], nonce[a] + 1}
      BY <2>1 DEF SpendElsewhere
    <2>3. \A a \in Account : nonceThen'[a] <= nonce'[a]
      BY <1>1, <2>1, <2>2 DEF IInv, NonceInv
    <2>4. QED
      BY <1>1, <2>3 DEF IInv, NonceInv, Exporter
  <1>10. QED
    BY <1>4, <1>5, <1>6, <1>7, <1>8, <1>9 DEF IInv

LEMMA StutterKeeps == IInv /\ UNCHANGED vars => IInv'
  <1> SUFFICES ASSUME IInv, UNCHANGED vars PROVE IInv'
    OBVIOUS
  <1>1. UNCHANGED <<intent, phase, options, metadata, rosettaTx, payloads, parsed, hash,
                    accepted, spent, nonce, spends, nonceThen>>
    BY DEF vars, nodeVars
  <1>2. TypeOK' /\ PhaseInv'
    BY <1>1 DEF IInv, TypeOK, IsSigned, PhaseInv, HasDestination
  <1>3. BuiltInv' /\ ParsedInv'
    BY <1>1 DEF IInv, BuiltInv, HasDestination, ParsedInv
  <1>4. SignedInv' /\ HashInv' /\ NonceInv'
    BY <1>1 DEF IInv, SignedInv, IsSigned, HashInv, TxID, NonceInv, Exporter
  <1>5. QED
    BY <1>2, <1>3, <1>4 DEF IInv

LEMMA StepInv == IInv /\ [Next]_vars => IInv'
  <1> SUFFICES ASSUME IInv, [Next]_vars PROVE IInv'
    OBVIOUS
  <1>1. CASE ParseUnsigned
    <2>1. phase = "parse" /\ Parse(FALSE, "combine")
      BY <1>1 DEF ParseUnsigned, Calling
    <2>2. QED
      BY <2>1, ParseKeeps
  <1>2. CASE ParseSigned
    <2>1. phase = "parse signed" /\ Parse(TRUE, "hash")
      BY <1>2 DEF ParseSigned, Calling
    <2>2. QED
      BY <2>1, ParseKeeps
  <1>3. QED
    BY <1>1, <1>2, PreprocessKeeps, MetadataKeeps, PayloadsKeeps, CombineKeeps, HashKeeps,
       SubmitKeeps, SpendKeeps, StutterKeeps DEF Next
-----------------------------------------------------------------------------
(* The transaction that travels with the client is, from the payloads on,  *)
(* the one built from the intent, with the accounts of its inputs, and its *)
(* credentials are those that combine makes of the payloads' signatures.   *)
THEOREM Inductive == Spec => []IInv
  BY InitInv, StepInv, PTL DEF Spec

(* The transaction travels in one piece, whatever the client intends.      *)
THEOREM TypeCorrect == Spec => []TypeOK
  <1>1. IInv => TypeOK
    BY DEF IInv
  <1>2. QED
    BY <1>1, Inductive, PTL

(* What /construction/parse shows, before and after signing, are the       *)
(* intended operations, none twice and none lost, with their signers; and  *)
(* the hash given offline is that of the accepted transaction.             *)
THEOREM IntentsConfirmed == Spec => []IntentConfirmed
  BY InvConfirms, Inductive, PTL
-----------------------------------------------------------------------------
(* Intents in place *)

(* A list with different coins, in the order of its coins *)
Different(R, P) == \A p, r \in P : R[p].coin = R[r].coin => p = r
Strict(s) == \A i, j \in DOMAIN s : i < j => s[i].coin < s[j].coin

(* A list with different coins, sorted by coin, has no coin twice. *)
LEMMA StrictOrder ==
  ASSUME NEW s, NEW R, NEW P, Lists(s, R, P), \A p \in P : R[p].coin \in Nat,
         Different(R, P), InCoinOrder(s)
  PROVE  Strict(s) /\ \A i \in DOMAIN s : s[i].coin \in Nat
  <1>1. PICK n : \E f : Listing(s, R, P, n, f)
    BY DEF Lists
  <1>2. PICK f : Listing(s, R, P, n, f)
    BY <1>1
  <1>3. /\ n \in Nat /\ DOMAIN s = 1 .. n /\ \A i \in 1 .. n : f[i] \in P
        /\ \A i, j \in 1 .. n : f[i] = f[j] => i = j
        /\ \A i \in 1 .. n : s[i] = R[f[i]]
    BY <1>2 DEF Listing
  <1>4. \A i \in 1 .. n : s[i].coin \in Nat
    BY <1>3
  <1>5. ASSUME NEW i \in 1 .. n, NEW j \in 1 .. n, i < j PROVE s[i].coin < s[j].coin
    <2>1. s[i].coin <= s[j].coin
      BY <1>3, <1>5 DEF InCoinOrder
    <2>2. s[i].coin # s[j].coin
      <3> SUFFICES ASSUME s[i].coin = s[j].coin PROVE FALSE
        OBVIOUS
      <3>1. f[i] = f[j]
        BY <1>3 DEF Different
      <3>2. i = j
        BY <1>3, <3>1
      <3>3. QED
        BY <1>5, <3>2
    <2>3. s[i].coin \in Nat /\ s[j].coin \in Nat
      BY <1>4
    <2> DEFINE x == s[i].coin
               y == s[j].coin
    <2> HIDE DEF x, y
    <2>4. x <= y /\ x # y /\ x \in Nat /\ y \in Nat
      BY <2>1, <2>2, <2>3 DEF x, y
    <2>5. x < y
      BY <2>4
    <2>6. QED
      BY <2>5 DEF x, y
  <1>6. QED
    BY <1>3, <1>4, <1>5 DEF Strict

(* Distinct coins of the inputs, as InPlace says it *)
LEMMA DistinctInputs ==
  ASSUME NEW q \in Intents, InPlace(q), q.type # "EXPORT"
  PROVE  Different(q.ops, InsOf(q.ops))
  <1> DEFINE a == Ins(q.ops)
             C == {a[i].coin : i \in DOMAIN a}
             g == [i \in DOMAIN a |-> a[i].coin]
  <1>1. PICK n \in Nat : IntentOps(q.ops, n)
    BY IntentFacts
  <1>2. Lists(a, q.ops, InsOf(q.ops))
    BY <1>1, InsLists DEF IntentOps
  <1>3. Cardinality(C) = Len(a)
    BY DEF InPlace
  <1> HIDE DEF a
  <1>4. PICK m : \E f : Listing(a, q.ops, InsOf(q.ops), m, f)
    BY <1>2 DEF Lists
  <1>5. PICK f : Listing(a, q.ops, InsOf(q.ops), m, f)
    BY <1>4
  <1>6. /\ m \in Nat /\ DOMAIN a = 1 .. m /\ Len(a) = m
        /\ \A p \in InsOf(q.ops) : \E i \in 1 .. m : f[i] = p
        /\ \A i \in 1 .. m : a[i] = q.ops[f[i]]
    BY <1>5 DEF Listing
  <1>7. g \in Surjection(1 .. m, C)
    BY <1>6 DEF Surjection
  <1>8. IsFiniteSet(1 .. m) /\ Cardinality(1 .. m) = m
    BY <1>6, FS_Interval
  <1> HIDE DEF C, g
  <1>9. g \in Injection(1 .. m, C)
    BY <1>3, <1>6, <1>7, <1>8, FS_Surjection
  <1>10. \A i, j \in 1 .. m : g[i] = g[j] => i = j
    BY <1>9 DEF Injection, IsInjective
  <1>11. \A i, j \in 1 .. m : a[i].coin = a[j].coin => i = j
    BY <1>6, <1>10 DEF g
  <1>12. ASSUME NEW p \in InsOf(q.ops), NEW r \in InsOf(q.ops), q.ops[p].coin = q.ops[r].coin
         PROVE  p = r
    <2>1. PICK i \in 1 .. m : f[i] = p
      BY <1>6
    <2>2. PICK j \in 1 .. m : f[j] = r
      BY <1>6
    <2>3. a[i].coin = a[j].coin
      BY <1>6, <1>12, <2>1, <2>2
    <2>4. QED
      BY <1>11, <2>1, <2>2, <2>3
  <1>13. QED
    BY <1>12 DEF Different
-----------------------------------------------------------------------------
InKind(q) == IF q.type \in {"IMPORT_AVAX", "IMPORT"} THEN "IMPORT" ELSE "INPUT"
Spending(q) == [p \in InsOf(q.ops) |-> Input(q.ops[p])]
Elsewhere(q) == IF InKind(q) = "IMPORT" THEN "INPUT" ELSE "IMPORT"

(* What InPlace says of one input *)
LEMMA InPlaceInputs ==
  ASSUME NEW q \in Intents, InPlace(q), NEW p \in InsOf(q.ops)
  PROVE  /\ q.ops[p].sigs = 1 /\ q.ops[p].kind = InKind(q)
         /\ q.ops[p].kind = "IMPORT" <=> q.ops[p].coin \in Imported
         /\ q.type # "EXPORT" => q.ops[p].account = Owner[q.ops[p].coin]
  <1> DEFINE a == Ins(q.ops)
  <1>1. PICK n \in Nat : IntentOps(q.ops, n)
    BY IntentFacts
  <1>2. Lists(a, q.ops, InsOf(q.ops))
    BY <1>1, InsLists DEF IntentOps
  <1>3. \A i \in DOMAIN a : /\ a[i].sigs = 1 /\ a[i].kind = InKind(q)
                            /\ a[i].kind = "IMPORT" <=> a[i].coin \in Imported
                            /\ q.type # "EXPORT" => a[i].account = Owner[a[i].coin]
    BY DEF InPlace, InKind
  <1> HIDE DEF a
  <1>4. PICK i \in DOMAIN a : a[i] = q.ops[p]
    BY <1>2, ListElements
  <1>5. QED
    BY <1>3, <1>4

AllTaken(q, ins) == Lists(ins, Spending(q), InsOf(q.ops)) /\ InCoinOrder(ins)

(* All inputs of an intent in place are inputs of the transaction. *)
LEMMA KindTaken ==
  ASSUME NEW q \in Intents, InPlace(q), Spends(q), NEW n, IntentOps(q.ops, n)
  PROVE  /\ AllTaken(q, buildInputs(q.ops, InKind(q)))
         /\ buildInputs(q.ops, Elsewhere(q)) = <<>>
  <1>1. KindAt(q.ops, InsOf(q.ops), InKind(q)) = InsOf(q.ops)
    BY InPlaceInputs DEF KindAt
  <1>2. KindAt(q.ops, InsOf(q.ops), Elsewhere(q)) = {}
    BY InPlaceInputs DEF KindAt, InKind, Elsewhere
  <1>3. AllTaken(q, buildInputs(q.ops, InKind(q)))
    <2> DEFINE kind == InKind(q)
    <2> HIDE DEF kind
    <2>1. LET P == KindAt(q.ops, InsOf(q.ops), kind)
              R == [p \in P |-> Input(q.ops[p])]
          IN  Lists(buildInputs(q.ops, kind), R, P) /\ InCoinOrder(buildInputs(q.ops, kind))
      BY InputsMade
    <2>2. QED
      BY <1>1, <2>1 DEF AllTaken, Spending, kind
  <1>4. buildInputs(q.ops, Elsewhere(q)) = <<>>
    <2> DEFINE kind == Elsewhere(q)
    <2> HIDE DEF kind
    <2>1. LET P == KindAt(q.ops, InsOf(q.ops), kind)
              R == [p \in P |-> Input(q.ops[p])]
          IN  Lists(buildInputs(q.ops, kind), R, P)
      BY InputsMade
    <2> DEFINE b == buildInputs(q.ops, kind)
               R == [p \in {} |-> Input(q.ops[p])]
    <2>2. Lists(b, R, {})
      BY <1>2, <2>1 DEF kind
    <2> HIDE DEF b, R
    <2>3. b = <<>>
      BY <2>2, NothingListed
    <2>4. QED
      BY <2>3 DEF b, kind
  <1>5. QED
    BY <1>3, <1>4

LEMMA ImportsTaken ==
  ASSUME NEW q \in Intents, InPlace(q), Spends(q), NEW n, IntentOps(q.ops, n)
  PROVE  AllTaken(q, buildImportedInputs(q.ops))
  <1> DEFINE R == [p \in InsOf(q.ops) |-> [Input(q.ops[p]) EXCEPT !.sigs = 1]]
  <1>1. Lists(buildImportedInputs(q.ops), R, InsOf(q.ops)) /\ InCoinOrder(buildImportedInputs(q.ops))
    BY ImportedMade
  <1>2. \A p \in InsOf(q.ops) : Spending(q)[p] = R[p]
    <2> SUFFICES ASSUME NEW p \in InsOf(q.ops) PROVE Input(q.ops[p]) = [Input(q.ops[p]) EXCEPT !.sigs = 1]
      BY DEF Spending
    <2>1. q.ops[p].sigs = 1
      BY InPlaceInputs
    <2>2. QED
      BY <2>1 DEF Input
  <1> HIDE DEF R
  <1>3. Lists(buildImportedInputs(q.ops), Spending(q), InsOf(q.ops))
    BY <1>1, <1>2, SameValuesListed
  <1>4. QED
    BY <1>1, <1>3 DEF AllTaken

(* Where the inputs of the transaction are *)
InputParts(q, tx, ins) ==
    /\ tx.evmIns = <<>>
    /\ IF InKind(q) = "IMPORT" THEN tx.ins = <<>> /\ tx.imported = ins
       ELSE tx.ins = ins /\ tx.imported = <<>>

LEMMA InputsTaken ==
  ASSUME NEW q \in Intents, InPlace(q), q.type # "EXPORT", NEW md,
         NEW tx, tx = BuildTx(q.type, q.ops, md)
  PROVE  AllTaken(q, getTxInputs(tx)) /\ InputParts(q, tx, getTxInputs(tx))
  <1>0. PICK n \in Nat : IntentOps(q.ops, n)
    BY IntentFacts
  <1>1. q.type \in PTypes \cup CTypes
    BY IntentFacts
  <1>2. Spends(q)
    BY DEF Spends, InPlace
  <1>3. CASE q.type = "IMPORT_AVAX"
    <2>1. InKind(q) = "IMPORT" /\ Elsewhere(q) = "INPUT"
      BY <1>3 DEF InKind, Elsewhere
    <2>2. AllTaken(q, buildInputs(q.ops, "IMPORT")) /\ buildInputs(q.ops, "INPUT") = <<>>
      BY <1>0, <1>2, <2>1, KindTaken
    <2>3. tx.evmIns = <<>> /\ tx.ins = buildInputs(q.ops, "INPUT") /\ tx.imported = buildInputs(q.ops, "IMPORT")
          /\ tx.type = "IMPORT_AVAX"
      BY <1>3 DEF BuildTx, buildImportTx, BaseTx, EmptyTx
    <2>4. QED
      BY <2>1, <2>2, <2>3 DEF InputParts, getTxInputs
  <1>4. CASE q.type \in {"EXPORT_AVAX", "ADD_VALIDATOR"}
    <2>1. InKind(q) = "INPUT"
      BY <1>4 DEF InKind
    <2>2. AllTaken(q, buildInputs(q.ops, "INPUT"))
      BY <1>0, <1>2, <2>1, KindTaken
    <2>3. tx.evmIns = <<>> /\ tx.ins = buildInputs(q.ops, "INPUT") /\ tx.imported = <<>> /\ tx.type = q.type
      <3>1. CASE q.type = "EXPORT_AVAX"
        BY <3>1 DEF BuildTx, buildExportTx, BaseTx, EmptyTx
      <3>2. CASE q.type = "ADD_VALIDATOR"
        BY <3>2 DEF BuildTx, buildStakingTx, BaseTx, EmptyTx
      <3>3. QED
        BY <1>4, <3>1, <3>2
    <2>4. QED
      BY <1>4, <2>1, <2>2, <2>3 DEF InputParts, getTxInputs
  <1>5. CASE q.type = "IMPORT"
    <2>1. InKind(q) = "IMPORT"
      BY <1>5 DEF InKind
    <2>2. AllTaken(q, buildImportedInputs(q.ops))
      BY <1>0, <1>2, ImportsTaken
    <2>3. tx.evmIns = <<>> /\ tx.ins = <<>> /\ tx.imported = buildImportedInputs(q.ops) /\ tx.type = "IMPORT"
      BY <1>5 DEF BuildTx, buildAtomicImportTx, EmptyTx
    <2>4. QED
      BY <2>1, <2>2, <2>3 DEF InputParts, getTxInputs
  <1>6. QED
    BY <1>1, <1>3, <1>4, <1>5 DEF PTypes, CTypes
-----------------------------------------------------------------------------
(* Inputs with one signature each have the signature at their own index. *)
LEMMA OffsetOnes ==
  ASSUME NEW ins, NEW m, Inputs(ins, m), \A i \in 1 .. m : ins[i].sigs = 1, NEW k \in 0 .. m
  PROVE  sigOffset(ins, k) = k
  <1> DEFINE N == {d \in Nat : d <= m => sigOffset(ins, d) = d}
  <1>0. m \in Nat
    BY DEF Inputs
  <1>1. 0 \in N
    BY OffsetNone
  <1>2. ASSUME NEW d \in N PROVE d + 1 \in N
    <2> SUFFICES ASSUME d + 1 <= m PROVE sigOffset(ins, d + 1) = d + 1
      BY <1>2
    <2> DEFINE i == d + 1
    <2>1. i \in 1 .. m /\ i - 1 = d
      BY <1>0
    <2>2. sigOffset(ins, d) = d
      BY <1>0
    <2> HIDE DEF i
    <2>3. sigOffset(ins, i) = sigOffset(ins, i - 1) + ins[i].sigs
      BY <2>1, OffsetNext
    <2>4. sigOffset(ins, i) = d + 1
      BY <2>1, <2>2, <2>3
    <2>5. QED
      BY <2>4 DEF i
  <1>3. N \subseteq Nat
    OBVIOUS
  <1> HIDE DEF N
  <1>4. k \in N
    BY <1>0, <1>1, <1>2, <1>3, InductionNat
  <1>5. QED
    BY <1>0, <1>4 DEF N

LEMMA CredentialEach ==
  ASSUME NEW ins, NEW m, Inputs(ins, m), \A i \in 1 .. m : ins[i].sigs = 1,
         NEW sgs \in Seq(Account), Len(sgs) = m
  PROVE  BuildCredentialList(ins, sgs) = [i \in 1 .. m |-> <<sgs[i]>>]
  <1>0. m \in Nat /\ DOMAIN ins = 1 .. m
    BY DEF Inputs
  <1>1. ASSUME NEW i \in 1 .. m
        PROVE  SubSeq(sgs, sigOffset(ins, i - 1) + 1, sigOffset(ins, i - 1) + ins[i].sigs) = <<sgs[i]>>
    <2>1. i - 1 \in 0 .. m /\ i \in 1 .. Len(sgs)
      BY <1>0
    <2>2. sigOffset(ins, i - 1) = i - 1
      BY <2>1, OffsetOnes
    <2>3. sigOffset(ins, i - 1) + 1 = i /\ sigOffset(ins, i - 1) + ins[i].sigs = i
      BY <2>1, <2>2
    <2>4. SubSeq(sgs, i, i) = <<sgs[i]>>
      BY <2>1, SubSeqOne
    <2>5. QED
      BY <2>3, <2>4
  <1>2. QED
    BY <1>0, <1>1 DEF BuildCredentialList

(* As many inputs as payloads, each with one signature *)
LEMMA InputsCounted ==
  ASSUME NEW q \in Intents, InPlace(q), q.type # "EXPORT", NEW ins, AllTaken(q, ins)
  PROVE  \E m \in Nat :
            /\ Inputs(ins, m) /\ Len(ins) = m /\ \A i \in 1 .. m : ins[i].sigs = 1
            /\ Len(PayloadsOf(q.ops)) = m /\ DOMAIN PayloadsOf(q.ops) = 1 .. m
            /\ DOMAIN Ins(q.ops) = 1 .. m
  <1> DEFINE a == Ins(q.ops)
             P == InsOf(q.ops)
  <1>1. PICK n \in Nat : IntentOps(q.ops, n)
    BY IntentFacts
  <1>2. Lists(a, q.ops, P)
    BY <1>1, InsLists DEF IntentOps
  <1>3. Lists(ins, Spending(q), P)
    BY DEF AllTaken
  <1>4. PayloadsOf(q.ops) = [i \in DOMAIN a |-> a[i].account]
    BY DEF PayloadsOf, Map
  <1>5. \A p \in P : Spending(q)[p].sigs = 1
    BY InPlaceInputs DEF Spending, Input
  <1> HIDE DEF a, P
  <1>6. PICK m \in Nat : DOMAIN a = 1 .. m
    BY <1>2, ListDomain
  <1>7. PICK k \in Nat : DOMAIN ins = 1 .. k /\ Len(ins) = k
    BY <1>3, ListDomain
  <1>8. k = m
    <2>1. Cardinality(DOMAIN a) = Cardinality(P)
      BY <1>2, CountListed
    <2>2. Cardinality(DOMAIN ins) = Cardinality(P)
      BY <1>3, CountListed
    <2>3. Cardinality(1 .. m) = m /\ Cardinality(1 .. k) = k
      BY FS_Interval
    <2>4. QED
      BY <1>6, <1>7, <2>1, <2>2, <2>3
  <1>9. \A i \in 1 .. k : ins[i].sigs = 1
    <2>1. \A i \in DOMAIN ins : \E p \in P : ins[i] = Spending(q)[p]
      BY <1>3, ListElements
    <2>2. QED
      BY <1>5, <1>7, <2>1
  <1>10. Inputs(ins, m)
    BY <1>7, <1>8, <1>9 DEF Inputs
  <1>11. Len(PayloadsOf(q.ops)) = m /\ DOMAIN PayloadsOf(q.ops) = 1 .. m
    BY <1>4, <1>6
  <1>12. QED
    BY <1>6, <1>7, <1>8, <1>9, <1>10, <1>11 DEF a

(* The number of signatures is the one that combine asks for. *)
LEMMA CombineSucceeds ==
  ASSUME NEW q \in Intents, InPlace(q), NEW md, NEW tx, tx = BuildTx(q.type, q.ops, md)
  PROVE  ~CombineFails(tx, PayloadsOf(q.ops))
  <1>1. tx.type = q.type
    BY BuiltTypes DEF BuiltType
  <1>2. CASE q.type = "EXPORT"
    <2>1. Len(PayloadsOf(q.ops)) \in Nat /\ Len(PayloadsOf(q.ops)) > 0
      <3>1. ~NoMatch(q.type, q.ops)
        BY DEF InPlace
      <3>2. QED
        BY <3>1, InsNotEmpty
    <2> DEFINE l == Len(PayloadsOf(q.ops))
    <2>2. CombineFails(tx, PayloadsOf(q.ops)) => l < 1
      BY <1>1, <1>2 DEF CombineFails
    <2> HIDE DEF l
    <2>3. l \in Nat /\ l > 0
      BY <2>1 DEF l
    <2>4. QED
      BY <2>2, <2>3
  <1>3. CASE q.type # "EXPORT"
    <2> DEFINE ins == getTxInputs(tx)
    <2>1. AllTaken(q, ins)
      BY <1>3, InputsTaken
    <2>2. CombineFails(tx, PayloadsOf(q.ops)) <=> Len(PayloadsOf(q.ops)) # sigOffset(ins, Len(ins))
      BY <1>1, <1>3 DEF CombineFails
    <2> HIDE DEF ins
    <2>3. PICK m \in Nat :
            /\ Inputs(ins, m) /\ Len(ins) = m /\ \A i \in 1 .. m : ins[i].sigs = 1
            /\ Len(PayloadsOf(q.ops)) = m
      BY <1>3, <2>1, InputsCounted
    <2>4. m \in 0 .. m
      OBVIOUS
    <2>5. sigOffset(ins, m) = m
      BY <2>3, <2>4, OffsetOnes
    <2>6. QED
      BY <2>2, <2>3, <2>5
  <1>4. QED
    BY <1>2, <1>3

(* The payloads are in the order of the transaction's inputs. *)
LEMMA PayloadsInOrder ==
  ASSUME NEW q \in Intents, InPlace(q), q.type # "EXPORT", NEW ins, AllTaken(q, ins),
         NEW m \in Nat, Inputs(ins, m), DOMAIN Ins(q.ops) = 1 .. m
  PROVE  /\ \A i \in 1 .. m : PayloadsOf(q.ops)[i] = Owner[ins[i].coin]
         /\ Strict(ins)
  <1> DEFINE a == Ins(q.ops)
             b == ByCoin(a)
             P == InsOf(q.ops)
  <1>1. PICK n \in Nat : IntentOps(q.ops, n)
    BY IntentFacts
  <1>2. Lists(a, q.ops, P)
    BY <1>1, InsLists DEF IntentOps
  <1>3. PayloadsOf(q.ops) = [i \in 1 .. m |-> a[i].account] /\ DOMAIN a = 1 .. m
    BY DEF PayloadsOf, Map
  <1>4. \A i \in 1 .. m : a[i].account = b[i].account
    BY <1>3 DEF InPlace
  <1>5. ASSUME NEW p \in P
        PROVE  /\ q.ops[p].coin \in Nat /\ q.ops[p].account = Owner[q.ops[p].coin]
               /\ Spending(q)[p].coin = q.ops[p].coin
    <2>1. q.ops[p].account = Owner[q.ops[p].coin]
      BY InPlaceInputs
    <2>2. Spending(q)[p].coin = q.ops[p].coin
      BY DEF Spending, Input
    <2> DEFINE ops == q.ops
    <2> HIDE DEF ops
    <2>3. IntentOps(ops, n) /\ p \in InsOf(ops)
      BY <1>1 DEF ops
    <2>4. ops[p].coin \in Nat
      BY <2>3, InFacts
    <2>5. QED
      BY <2>1, <2>2, <2>4 DEF ops
  <1>6. Different(q.ops, P)
    BY DistinctInputs
  <1> HIDE DEF a, P, b
  <1>7. \A i \in 1 .. m : a[i].coin \in Nat
    <2>0. DOMAIN a = 1 .. m
      BY <1>3
    <2>1. \A i \in DOMAIN a : \E p \in P : a[i] = q.ops[p]
      BY <1>2, ListElements
    <2>2. QED
      BY <1>5, <2>0, <2>1
  <1>8. Rearranges(b, a) /\ DOMAIN b = 1 .. m /\ InCoinOrder(b)
    BY <1>3, <1>7, ByCoinSorts DEF b
  <1>9. Lists(b, q.ops, P)
    BY <1>2, <1>8, RearrangedLists
  <1>10. Strict(b) /\ \A i \in 1 .. m : b[i].coin \in Nat
    BY <1>5, <1>6, <1>8, <1>9, StrictOrder
  <1>11. Lists(ins, Spending(q), P) /\ InCoinOrder(ins)
    BY DEF AllTaken, P
  <1>12. Different(Spending(q), P) /\ \A p \in P : Spending(q)[p].coin \in Nat
    BY <1>5, <1>6 DEF Different
  <1>13. Strict(ins) /\ \A i \in 1 .. m : ins[i].coin \in Nat
    <2>1. Strict(ins) /\ \A i \in DOMAIN ins : ins[i].coin \in Nat
      BY <1>11, <1>12, StrictOrder
    <2>2. DOMAIN ins = 1 .. m
      BY DEF Inputs
    <2>3. QED
      BY <2>1, <2>2
  <1>14. /\ \A i \in 1 .. m : \E p \in P : b[i] = q.ops[p]
         /\ \A p \in P : \E i \in 1 .. m : b[i] = q.ops[p]
    <2>1. /\ \A i \in DOMAIN b : \E p \in P : b[i] = q.ops[p]
          /\ \A p \in P : \E i \in DOMAIN b : b[i] = q.ops[p]
      BY <1>9, ListElements
    <2>2. DOMAIN b = 1 .. m
      BY <1>8
    <2>3. QED
      BY <2>1, <2>2
  <1>15. /\ \A i \in 1 .. m : \E p \in P : ins[i] = Spending(q)[p]
         /\ \A p \in P : \E i \in 1 .. m : ins[i] = Spending(q)[p]
    <2> DEFINE R == Spending(q)
    <2> HIDE DEF R
    <2>0. Lists(ins, R, P)
      BY <1>11 DEF R
    <2>1. /\ \A i \in DOMAIN ins : \E p \in P : ins[i] = R[p]
          /\ \A p \in P : \E i \in DOMAIN ins : ins[i] = R[p]
      BY <2>0, ListElements
    <2>2. DOMAIN ins = 1 .. m
      BY DEF Inputs
    <2>3. QED
      BY <2>1, <2>2 DEF R
  <1> DEFINE x == [i \in 1 .. m |-> b[i].coin]
             y == [i \in 1 .. m |-> ins[i].coin]
  <1>16. x \in [1 .. m -> Nat] /\ y \in [1 .. m -> Nat]
    BY <1>10, <1>13
  <1>17. \A i, j \in 1 .. m : i < j => x[i] < x[j]
    BY <1>8, <1>10 DEF Strict
  <1>18. \A i, j \in 1 .. m : i < j => y[i] < y[j]
    <2>1. DOMAIN ins = 1 .. m
      BY DEF Inputs
    <2>2. \A i, j \in 1 .. m : i < j => ins[i].coin < ins[j].coin
      BY <1>13, <2>1 DEF Strict
    <2>3. QED
      BY <2>2
  <1>19. ASSUME NEW i \in 1 .. m PROVE \E j \in 1 .. m : x[i] = y[j]
    <2>1. PICK p \in P : b[i] = q.ops[p]
      BY <1>14
    <2>2. PICK j \in 1 .. m : ins[j] = Spending(q)[p]
      BY <1>15
    <2>3. b[i].coin = ins[j].coin
      BY <1>5, <2>1, <2>2
    <2>4. QED
      BY <2>3
  <1>20. ASSUME NEW i \in 1 .. m PROVE \E j \in 1 .. m : y[i] = x[j]
    <2>1. PICK p \in P : ins[i] = Spending(q)[p]
      BY <1>15
    <2>2. PICK j \in 1 .. m : b[j] = q.ops[p]
      BY <1>14
    <2>3. b[j].coin = ins[i].coin
      BY <1>5, <2>1, <2>2
    <2>4. QED
      BY <2>3
  <1> HIDE DEF x, y
  <1>21. \A i \in 1 .. m : x[i] = y[i]
    BY <1>16, <1>17, <1>18, <1>19, <1>20, StrictUnique
  <1>22. ASSUME NEW i \in 1 .. m PROVE PayloadsOf(q.ops)[i] = Owner[ins[i].coin]
    <2>1. b[i].coin = ins[i].coin
      BY <1>21 DEF x, y
    <2>2. PICK p \in P : b[i] = q.ops[p]
      BY <1>14
    <2>3. b[i].account = Owner[b[i].coin]
      BY <1>5, <2>2
    <2>4. PayloadsOf(q.ops)[i] = b[i].account
      BY <1>3, <1>4
    <2>5. QED
      BY <2>1, <2>3, <2>4
  <1>23. QED
    BY <1>13, <1>22
-----------------------------------------------------------------------------
OwnersOf(tx) == Map(tx.ins \o tx.imported, LAMBDA in : Owner[in.coin])
                \o Map(tx.evmIns, LAMBDA in : in.account)
Each(s) == [i \in DOMAIN s |-> <<s[i]>>]
CoinOwners(ins) == [i \in DOMAIN ins |-> Owner[ins[i].coin]]
Accounts(ins) == [i \in DOMAIN ins |-> ins[i].account]

(* What the node asks of credentials, in terms of the owners of the inputs *)
LEMMA SignedWhen ==
  ASSUME NEW rtx, Sorted(rtx.tx.ins), Sorted(rtx.tx.imported), rtx.creds = Each(OwnersOf(rtx.tx))
  PROVE  Signed(rtx)
  BY DEF Signed, OwnersOf, Each, Map

LEMMA OwnersParts ==
  ASSUME NEW tx
  PROVE  OwnersOf(tx) = CoinOwners(tx.ins \o tx.imported) \o Accounts(tx.evmIns)
  BY DEF OwnersOf, CoinOwners, Accounts, Map

LEMMA NoAccounts == Accounts(<<>>) = <<>> /\ CoinOwners(<<>>) = <<>>
  BY DEF Accounts, CoinOwners

(* Inputs with growing coins are sorted. *)
LEMMA StrictSorted ==
  ASSUME NEW ins, NEW m, Inputs(ins, m), Strict(ins), Len(ins) = m
  PROVE  Sorted(ins)
  <1>1. m \in Nat /\ DOMAIN ins = 1 .. m
    BY DEF Inputs
  <1>2. ASSUME NEW i \in 1 .. Len(ins) - 1 PROVE ins[i].coin < ins[i + 1].coin
    <2>1. i \in 1 .. m /\ i + 1 \in 1 .. m /\ i < i + 1
      BY <1>1
    <2> DEFINE j == i + 1
    <2> HIDE DEF j
    <2>2. ins[i].coin < ins[j].coin
      BY <1>1, <2>1 DEF Strict, j
    <2>3. QED
      BY <2>2 DEF j
  <1>3. QED
    BY <1>2 DEF Sorted

LEMMA EmptySorted == Sorted(<<>>)
  BY DEF Sorted

(* Each credential is that of the owner of its input. *)
LEMMA SignedByOwners ==
  ASSUME NEW q \in Intents, InPlace(q), q.type # "EXPORT", NEW md,
         NEW rtx, rtx.tx = BuildTx(q.type, q.ops, md),
         rtx.creds = Credentials(rtx.tx, PayloadsOf(q.ops))
  PROVE  Signed(rtx)
  <1> DEFINE tx == rtx.tx
             ins == getTxInputs(tx)
             pl == PayloadsOf(q.ops)
  <1>1. AllTaken(q, ins) /\ InputParts(q, tx, ins)
    BY InputsTaken
  <1>2. tx.type = q.type
    BY BuiltTypes DEF BuiltType
  <1>3. rtx.creds = BuildCredentialList(ins, pl)
    BY <1>2 DEF Credentials
  <1> HIDE DEF tx, ins
  <1>4. PICK m \in Nat :
            /\ Inputs(ins, m) /\ Len(ins) = m /\ \A i \in 1 .. m : ins[i].sigs = 1
            /\ Len(pl) = m /\ DOMAIN pl = 1 .. m
            /\ DOMAIN Ins(q.ops) = 1 .. m
    BY <1>1, InputsCounted
  <1>5. pl \in Seq(Account)
    <2>1. ~NoMatch(q.type, q.ops)
      BY DEF InPlace
    <2>2. QED
      BY <2>1, InsNotEmpty
  <1> HIDE DEF pl
  <1>6. rtx.creds = [i \in 1 .. m |-> <<pl[i]>>]
    BY <1>3, <1>4, <1>5, CredentialEach
  <1>7. (\A i \in 1 .. m : pl[i] = Owner[ins[i].coin]) /\ Strict(ins)
    <2>1. DOMAIN Ins(q.ops) = 1 .. m /\ Inputs(ins, m)
      BY <1>4
    <2>2. QED
      BY <1>1, <2>1, PayloadsInOrder DEF pl
  <1>8. tx.ins \o tx.imported = ins
    <2>1. Lists(ins, Spending(q), InsOf(q.ops))
      BY <1>1 DEF AllTaken
    <2> DEFINE R == Spending(q)
               P == InsOf(q.ops)
               T == {R[p] : p \in P}
    <2> HIDE DEF R, P
    <2>2. \A p \in P : R[p] \in T
      OBVIOUS
    <2> HIDE DEF T
    <2>3. ins \in Seq(T)
      BY <2>1, <2>2, ListIsSequence DEF R, P
    <2>4. ins \o <<>> = ins /\ <<>> \o ins = ins
      BY <2>3, ConcatEmptySeq
    <2>5. QED
      BY <1>1, <2>4 DEF InputParts
  <1>9. CoinOwners(ins) = [i \in 1 .. m |-> pl[i]]
    BY <1>4, <1>7 DEF CoinOwners, Inputs
  <1>10. CoinOwners(ins) = pl
    BY <1>4, <1>5, <1>9
  <1>11. OwnersOf(tx) = pl
    <2>1. tx.evmIns = <<>>
      BY <1>1 DEF InputParts
    <2>2. OwnersOf(tx) = CoinOwners(tx.ins \o tx.imported) \o Accounts(tx.evmIns)
      BY OwnersParts
    <2>3. pl \o <<>> = pl
      BY <1>5, ConcatEmptySeq
    <2>4. QED
      BY <1>8, <1>10, <2>1, <2>2, <2>3, NoAccounts
  <1>12. rtx.creds = Each(OwnersOf(tx))
    BY <1>4, <1>6, <1>11 DEF Each
  <1>13. Sorted(tx.ins) /\ Sorted(tx.imported)
    <2>1. Sorted(ins)
      BY <1>4, <1>7, StrictSorted
    <2>2. QED
      BY <1>1, <2>1, EmptySorted DEF InputParts
  <1>14. QED
    BY <1>12, <1>13, SignedWhen DEF tx

(* The one input of an export from the C-chain *)
LEMMA OneInput ==
  ASSUME NEW q \in Intents, InPlace(q), q.type = "EXPORT"
  PROVE  /\ DOMAIN buildIns(q.ops) = 1 .. 1
         /\ PayloadsOf(q.ops)[1] = buildIns(q.ops)[1].account
         /\ Ins(q.ops)[1].account = buildIns(q.ops)[1].account
         /\ Len(PayloadsOf(q.ops)) = 1
         /\ buildIns(q.ops)[1].account \in Account
  <1> DEFINE a == Ins(q.ops)
             P == InsOf(q.ops)
             R == [p \in P |-> EVMInput(q.ops[p])]
             c == buildIns(q.ops)
  <1>1. PICK n \in Nat : IntentOps(q.ops, n)
    BY IntentFacts
  <1>2. Lists(a, q.ops, P)
    BY <1>1, InsLists DEF IntentOps
  <1>3. Lists(c, R, P)
    <2>1. LET P1 == InsOf(q.ops)
              R1 == [p \in P1 |-> EVMInput(q.ops[p])]
          IN  /\ Lists(buildIns(q.ops), R1, P1)
              /\ Lists(EVMInOps(buildIns(q.ops)), Meant(q), P1)
      BY <1>1, EVMInputsParsed
    <2>2. QED
      BY <2>1
  <1>4. Len(a) = 1
    BY DEF InPlace
  <1>5. PayloadsOf(q.ops) = [i \in DOMAIN a |-> a[i].account]
    BY DEF PayloadsOf, Map
  <1>6. \A p \in P : R[p].account = q.ops[p].account
    BY DEF EVMInput
  <1> HIDE DEF a, P, R, c
  <1>7. DOMAIN a = 1 .. 1
    <2>1. PICK m \in Nat : DOMAIN a = 1 .. m /\ Len(a) = m
      BY <1>2, ListDomain
    <2>2. QED
      BY <1>4, <2>1
  <1>8. DOMAIN c = 1 .. 1
    <2>1. PICK m \in Nat : DOMAIN c = 1 .. m /\ Len(c) = m
      BY <1>3, ListDomain
    <2>2. Cardinality(DOMAIN a) = Cardinality(P) /\ Cardinality(DOMAIN c) = Cardinality(P)
      <3>1. Cardinality(DOMAIN a) = Cardinality(P)
        BY <1>2, CountListed
      <3>2. Cardinality(DOMAIN c) = Cardinality(P)
        BY <1>3, CountListed
      <3>3. QED
        BY <3>1, <3>2
    <2>3. Cardinality(1 .. m) = m /\ Cardinality(1 .. 1) = 1
      <3>1. \A k \in Nat : Cardinality(1 .. k) = k
        BY FS_Interval
      <3>2. QED
        BY <3>1
    <2>4. QED
      BY <1>7, <2>1, <2>2, <2>3
  <1>9. PICK p \in P : c[1] = R[p]
    <2>1. \A i \in DOMAIN c : \E p \in P : c[i] = R[p]
      BY <1>3, ListElements
    <2>2. 1 \in DOMAIN c
      BY <1>8
    <2>3. QED
      BY <2>1, <2>2
  <1>10. a[1] = q.ops[p]
    <2>1. \A r \in P : \E i \in DOMAIN a : a[i] = q.ops[r]
      BY <1>2, ListElements
    <2>2. PICK i \in DOMAIN a : a[i] = q.ops[p]
      BY <2>1
    <2>3. i = 1
      BY <1>7
    <2>4. QED
      BY <2>2, <2>3
  <1>11. PayloadsOf(q.ops)[1] = c[1].account /\ Len(PayloadsOf(q.ops)) = 1 /\ a[1].account = c[1].account
    BY <1>5, <1>6, <1>7, <1>9, <1>10
  <1>12. c[1].account \in Account
    <2> DEFINE ops == q.ops
    <2> HIDE DEF ops
    <2>1. IntentOps(ops, n) /\ p \in InsOf(ops)
      BY <1>1 DEF ops, P
    <2>2. ops[p].account \in Account
      BY <2>1, InFacts
    <2>3. QED
      BY <1>6, <1>9, <2>2 DEF ops
  <1>13. QED
    BY <1>8, <1>11, <1>12 DEF a, c

(* The credential of an export from the C-chain is that of its one         *)
(* account.                                                                *)
LEMMA SignedExport ==
  ASSUME NEW q \in Intents, InPlace(q), q.type = "EXPORT", NEW md,
         NEW rtx, rtx.tx = BuildTx(q.type, q.ops, md),
         rtx.creds = Credentials(rtx.tx, PayloadsOf(q.ops))
  PROVE  Signed(rtx)
  <1> DEFINE tx == rtx.tx
             c == buildIns(q.ops)
             pl == PayloadsOf(q.ops)
             x == c[1].account
  <1>1. tx.type = "EXPORT" /\ tx.ins = <<>> /\ tx.imported = <<>> /\ tx.evmIns = c
    BY DEF BuildTx, buildAtomicExportTx, EmptyTx
  <1>2. DOMAIN c = 1 .. 1 /\ pl[1] = x /\ Len(pl) = 1 /\ x \in Account
    BY OneInput
  <1>3. rtx.creds = <<SubSeq(pl, 1, 1)>>
    BY <1>1 DEF Credentials
  <1>4. pl \in Seq(Account)
    <2>1. ~NoMatch(q.type, q.ops)
      BY DEF InPlace
    <2>2. QED
      BY <2>1, InsNotEmpty
  <1>5. SubSeq(pl, 1, 1) = <<pl[1]>>
    <2> HIDE DEF pl
    <2>1. 1 \in 1 .. Len(pl)
      BY <1>2
    <2>2. QED
      BY <1>4, <2>1, SubSeqOne
  <1>6. Accounts(c) = <<x>>
    <2> HIDE DEF c
    <2>1. Accounts(c) = [i \in 1 .. 1 |-> c[i].account]
      BY <1>2 DEF Accounts
    <2>2. QED
      BY <2>1
  <1>7. OwnersOf(tx) = <<x>>
    <2>1. OwnersOf(tx) = CoinOwners(tx.ins \o tx.imported) \o Accounts(tx.evmIns)
      BY OwnersParts
    <2> HIDE DEF tx, c, x
    <2>2. <<>> \in Seq(Account) /\ <<x>> \in Seq(Account)
      BY <1>2
    <2>3. <<>> \o <<>> = <<>> /\ <<>> \o <<x>> = <<x>>
      BY <2>2, ConcatEmptySeq
    <2>4. QED
      BY <1>1, <1>6, <2>1, <2>3, NoAccounts
  <1>8. rtx.creds = <<<<x>>>>
    BY <1>2, <1>3, <1>5
  <1>9. Each(<<x>>) = <<<<x>>>>
    <2> HIDE DEF x
    <2>1. QED
      BY DEF Each
  <1>10. Sorted(tx.ins) /\ Sorted(tx.imported)
    BY <1>1, EmptySorted
  <1> HIDE DEF x
  <1>11. rtx.creds = Each(OwnersOf(rtx.tx))
    BY <1>7, <1>8, <1>9
  <1>12. QED
    BY <1>10, <1>11, SignedWhen
-----------------------------------------------------------------------------
(* What turns down an intent in place: it was accepted before, others have *)
(* spent its coins or used its nonce, or the client named another nonce.   *)
Raced == accepted # {} \/ CoinTaken \/ NonceTaken \/ MisnamedNonce

(* The coin of an input is that of an operation the client named. *)
LEMMA InputsNamed ==
  ASSUME NEW q \in Intents, NEW p \in InsOf(q.ops)
  PROVE  \E i \in DOMAIN Ins(q.ops) : Ins(q.ops)[i].coin = q.ops[p].coin
  <1> DEFINE a == Ins(q.ops)
  <1>1. PICK n \in Nat : IntentOps(q.ops, n)
    BY IntentFacts
  <1>2. Lists(a, q.ops, InsOf(q.ops))
    BY <1>1, InsLists DEF IntentOps
  <1> HIDE DEF a
  <1>3. PICK i \in DOMAIN a : a[i] = q.ops[p]
    BY <1>2, ListElements
  <1>4. QED
    BY <1>3 DEF a

(* A transaction is current when nobody has used its coins or its nonce. *)
LEMMA CurrentUnlessRaced ==
  ASSUME IInv, InPlace(intent), phase = "submit", ~Raced
  PROVE  Current(rosettaTx)
  <1> DEFINE q == intent
             tx == rosettaTx.tx
  <1>1. phase \notin Before \cup {"failed"}
    BY DEF Before
  <1>2. q \in Intents /\ tx = BuildTx(q.type, q.ops, metadata)
    BY <1>1, WhenBuilt
  <1>3. /\ \A i \in DOMAIN Ins(q.ops) : Ins(q.ops)[i].coin \notin spent
        /\ q.type = "EXPORT" => metadata.nonce = nonce[Ins(q.ops)[1].account]
    <2>1. ~CoinTaken /\ ~NonceTaken /\ ~MisnamedNonce
      BY DEF Raced
    <2>2. ASSUME q.type = "EXPORT" PROVE metadata.nonce = nonce[Exporter]
      BY <1>1, <2>1, <2>2 DEF IInv, NonceInv, NonceTaken, MisnamedNonce, Before
    <2>3. QED
      BY <2>1, <2>2 DEF CoinTaken, Exporter
  <1> HIDE DEF q, tx
  <1>4. InPlace(q)
    BY DEF q
  <1>6. CASE q.type = "EXPORT"
    <2>1. tx.ins = <<>> /\ tx.imported = <<>> /\ tx.evmIns = buildIns(q.ops) /\ tx.nonce = metadata.nonce
      BY <1>2, <1>6 DEF BuildTx, buildAtomicExportTx, EmptyTx
    <2>2. metadata.nonce = nonce[Ins(q.ops)[1].account]
      BY <1>3, <1>6
    <2> DEFINE c == buildIns(q.ops)
    <2>3. DOMAIN c = 1 .. 1 /\ Ins(q.ops)[1].account = c[1].account
      BY <1>2, <1>4, <1>6, OneInput
    <2> HIDE DEF c
    <2>4. \A i \in DOMAIN c : nonce[c[i].account] = metadata.nonce
      BY <2>2, <2>3
    <2>5. DOMAIN tx.ins = {} /\ DOMAIN tx.imported = {}
      BY <2>1
    <2>6. \A i \in DOMAIN tx.evmIns : nonce[tx.evmIns[i].account] = tx.nonce
      BY <2>1, <2>4 DEF c
    <2>7. TxCoins(tx) = {}
      BY <2>5 DEF TxCoins
    <2>8. QED
      BY <2>5, <2>6, <2>7 DEF Current, tx
  <1>7. CASE q.type # "EXPORT"
    <2> DEFINE ins == getTxInputs(tx)
    <2>1. AllTaken(q, ins) /\ InputParts(q, tx, ins)
      BY <1>2, <1>4, <1>7, InputsTaken
    <2> HIDE DEF ins
    <2>2. ASSUME NEW i \in DOMAIN ins
          PROVE  (InKind(q) = "IMPORT" <=> ins[i].coin \in Imported) /\ ins[i].coin \notin spent
      <3>1. Lists(ins, Spending(q), InsOf(q.ops))
        BY <2>1 DEF AllTaken
      <3>2. \A j \in DOMAIN ins : \E p \in InsOf(q.ops) : ins[j] = Spending(q)[p]
        BY <3>1, ListElements
      <3>3. PICK p \in InsOf(q.ops) : ins[i] = Spending(q)[p]
        BY <3>2
      <3>4. /\ q.ops[p].kind = InKind(q)
            /\ q.ops[p].kind = "IMPORT" <=> q.ops[p].coin \in Imported
        BY <1>2, <1>4, InPlaceInputs
      <3>5. ins[i].coin = q.ops[p].coin
        BY <3>3 DEF Spending, Input
      <3>6. q.ops[p].coin \notin spent
        BY <1>2, <1>3, InputsNamed
      <3>7. QED
        BY <3>4, <3>5, <3>6
    <2>3. DOMAIN <<>> = {}
      OBVIOUS
    <2>4. /\ \A i \in DOMAIN tx.ins : tx.ins[i].coin \notin Imported /\ tx.ins[i].coin \notin spent
          /\ \A i \in DOMAIN tx.imported : tx.imported[i].coin \in Imported /\ tx.imported[i].coin \notin spent
          /\ \A i \in DOMAIN tx.evmIns : nonce[tx.evmIns[i].account] = tx.nonce
      <3>1. CASE InKind(q) = "IMPORT"
        <4>1. tx.ins = <<>> /\ tx.imported = ins /\ tx.evmIns = <<>>
          BY <2>1, <3>1 DEF InputParts
        <4>2. QED
          BY <2>2, <2>3, <3>1, <4>1
      <3>2. CASE InKind(q) # "IMPORT"
        <4>1. tx.ins = ins /\ tx.imported = <<>> /\ tx.evmIns = <<>>
          BY <2>1, <3>2 DEF InputParts
        <4>2. QED
          BY <2>2, <2>3, <3>2, <4>1
      <3>3. QED
        BY <3>1, <3>2
    <2>5. TxCoins(tx) \cap spent = {}
      BY <2>4 DEF TxCoins
    <2>6. QED
      BY <2>4, <2>5 DEF Current, tx
  <1>8. QED
    BY <1>6, <1>7

(* The node accepts it. *)
LEMMA SubmitAccepts ==
  ASSUME IInv, InPlace(intent), phase = "submit", ~Raced
  PROVE  Signed(rosettaTx) /\ Current(rosettaTx)
  <1>1. phase \notin Before \cup {"failed"}
    BY DEF Before
  <1>2. /\ intent \in Intents /\ rosettaTx.tx = BuildTx(intent.type, intent.ops, metadata)
        /\ payloads = PayloadsOf(intent.ops)
    BY <1>1, WhenBuilt
  <1>3. rosettaTx.creds = Credentials(rosettaTx.tx, PayloadsOf(intent.ops))
    BY <1>2 DEF IInv, SignedInv, IsSigned
  <1>4. Signed(rosettaTx)
    <2>1. CASE intent.type = "EXPORT"
      BY <1>2, <1>3, <2>1, SignedExport
    <2>2. CASE intent.type # "EXPORT"
      BY <1>2, <1>3, <2>2, SignedByOwners
    <2>3. QED
      BY <2>1, <2>2
  <1>5. Current(rosettaTx)
    BY CurrentUnlessRaced
  <1>6. QED
    BY <1>4, <1>5

(* The coin of an input is known. *)
LEMMA InputKnown ==
  ASSUME NEW n, NEW ops, IntentOps(ops, n), NEW p \in InsOf(ops)
  PROVE  ops[p].coin \in KnownCoins(SignersOf(ops))
  <1> DEFINE sg == SignersOf(ops)
  <1>1. OwnersListed(ops)
    BY SignersList
  <1>2. PICK i \in DOMAIN sg : sg[i] = [coin |-> ops[p].coin, account |-> ops[p].account]
    BY <1>1 DEF OwnersListed
  <1> HIDE DEF sg
  <1>3. sg[i].coin = ops[p].coin
    BY <1>2
  <1>4. QED
    BY <1>3 DEF KnownCoins, sg

(* Both calls to parse succeed. *)
LEMMA ParseSucceeds ==
  ASSUME IInv, InPlace(intent), phase \in {"parse", "parse signed"}
  PROVE  /\ ~ParseFails(rosettaTx)
         /\ ~SignersMissing(rosettaTx, ParseTx(rosettaTx.tx, rosettaTx.signers))
  <1>1. phase \notin Before \cup {"failed"}
    BY DEF Before
  <1>2. /\ intent \in Intents
        /\ rosettaTx.signers = SignersOf(intent.ops)
        /\ rosettaTx.destination = HasDestination
        /\ ParsesAs(intent, rosettaTx.tx)
        /\ rosettaTx.tx.type = intent.type
    BY <1>1, WhenBuilt
  <1>3. ~ParseFails(rosettaTx)
    <2>1. TxCoins(rosettaTx.tx) \subseteq KnownCoins(rosettaTx.signers)
      BY DEF IInv, TypeOK
    <2>2. QED
      BY <1>2, <2>1 DEF ParseFails, HasDestination
  <1>4. ~SignersMissing(rosettaTx, ParseTx(rosettaTx.tx, rosettaTx.signers))
    <2> DEFINE q == intent
               s == ParseTx(rosettaTx.tx, SignersOf(q.ops))
               a == Ins(s)
    <2>1. WellTyped(q)
      BY DEF InPlace
    <2>2. \A i \in DOMAIN a : \E p \in InsOf(q.ops) : a[i] = q.ops[p]
      <3> HIDE DEF q
      <3>0. q \in Intents /\ ParsesAs(q, rosettaTx.tx)
        BY <1>2 DEF q
      <3>1. LET s1 == ParseTx(rosettaTx.tx, SignersOf(q.ops))
            IN  /\ \A i \in DOMAIN Ins(s1) : \E p \in InsOf(q.ops) : Ins(s1)[i] = q.ops[p]
                /\ \A p \in InsOf(q.ops) : \E i \in DOMAIN Ins(s1) : Ins(s1)[i] = q.ops[p]
                /\ DOMAIN Ins(s1) # {} <=> InsOf(q.ops) # {}
        BY <2>1, <3>0, ParsedInputs
      <3>2. QED
        BY <3>1
    <2>3. PICK n \in Nat : IntentOps(q.ops, n)
      BY <1>2, IntentFacts
    <2>4. ASSUME NEW p \in InsOf(q.ops) PROVE q.ops[p].coin \in KnownCoins(SignersOf(q.ops))
      <3> DEFINE ops == q.ops
      <3> HIDE DEF ops
      <3>1. IntentOps(ops, n) /\ p \in InsOf(ops)
        BY <2>3 DEF ops
      <3>2. ops[p].coin \in KnownCoins(SignersOf(ops))
        BY <3>1, InputKnown
      <3>3. QED
        BY <3>2 DEF ops
    <2>5. \A i \in DOMAIN a : a[i].coin \in KnownCoins(rosettaTx.signers)
      <3> HIDE DEF a, q
      <3>1. rosettaTx.signers = SignersOf(q.ops)
        BY <1>2 DEF q
      <3>2. QED
        BY <2>2, <2>4, <3>1
    <2>6. a = Ins(ParseTx(rosettaTx.tx, rosettaTx.signers))
      BY <1>2
    <2> HIDE DEF a
    <2>7. QED
      BY <2>5, <2>6 DEF SignersMissing
  <1>5. QED
    BY <1>3, <1>4

(* Up to a failure, a race stays one: coins stay spent, and nonces grow. *)
LEMMA RacedStays ==
  ASSUME IInv, [Next]_vars, phase' = "failed", InPlace(intent), Raced
  PROVE  Raced'
  <1>1. intent' = intent /\ nonceThen' = nonceThen /\ accepted \subseteq accepted' /\ spent \subseteq spent'
    BY DEF Next, vars, nodeVars, Failed, ConstructionPreprocess, ConstructionMetadata, ConstructionPayloads,
           ParseUnsigned, ParseSigned, Parse, ConstructionCombine, ConstructionHash, ConstructionSubmit,
           SpendElsewhere
  <1>2. nonce \in [Account -> Nat] /\ nonceThen \in [Account -> Nat] /\ intent \in Intents
    BY DEF IInv, TypeOK
  <1>3. \A a \in Account : nonce'[a] = nonce[a] \/ nonce'[a] = nonce[a] + 1
    BY <1>2 DEF Next, vars, nodeVars, Failed, ConstructionPreprocess, ConstructionMetadata, ConstructionPayloads,
           ParseUnsigned, ParseSigned, Parse, ConstructionCombine, ConstructionHash, ConstructionSubmit,
           SpendElsewhere
  <1>4. Exporter \in Account /\ Exporter' = Exporter
    BY <1>1, <1>2, InsNotEmpty DEF Exporter, InPlace
  <1>5. CoinTaken => CoinTaken'
    BY <1>1 DEF CoinTaken
  <1>6. NonceTaken => NonceTaken'
    <2> SUFFICES ASSUME NonceTaken PROVE nonce'[Exporter] # nonceThen[Exporter]
      BY <1>1, <1>4 DEF NonceTaken
    <2>1. nonceThen[Exporter] < nonce[Exporter]
      BY <1>2, <1>4 DEF NonceTaken, IInv, NonceInv
    <2>2. QED
      BY <1>2, <1>3, <1>4, <2>1
  <1>7. MisnamedNonce => MisnamedNonce'
    BY <1>1, <1>4 DEF MisnamedNonce
  <1>8. QED
    BY <1>1, <1>5, <1>6, <1>7 DEF Raced

(* No call fails without a race. *)
LEMMA StepAccepts == IInv /\ AcceptedUnlessRaced /\ [Next]_vars => AcceptedUnlessRaced'
  <1> SUFFICES ASSUME IInv, AcceptedUnlessRaced, [Next]_vars PROVE AcceptedUnlessRaced'
    OBVIOUS
  <1>i. intent' = intent
    BY DEF Next, vars, nodeVars, Failed, ConstructionPreprocess, ConstructionMetadata, ConstructionPayloads,
           ParseUnsigned, ParseSigned, Parse, ConstructionCombine, ConstructionHash, ConstructionSubmit,
           SpendElsewhere
  <1> SUFFICES ASSUME ~Raced, phase' = "failed", InPlace(intent) PROVE FALSE
    <2>1. phase' = "failed" /\ InPlace(intent) /\ Raced => Raced'
      BY RacedStays
    <2>2. InPlace(intent)' <=> InPlace(intent)
      BY <1>i
    <2>3. QED
      BY <2>1, <2>2 DEF AcceptedUnlessRaced, Raced
  <1>0. /\ phase # "failed"
        /\ ~NoMatch(intent.type, intent.ops) /\ ~BuildFails(intent.type, intent.ops)
    BY DEF AcceptedUnlessRaced, Raced, InPlace
  <1>1. ~ConstructionPreprocess
    BY <1>0 DEF ConstructionPreprocess
  <1>2. ~ConstructionMetadata
    <2> SUFFICES ASSUME ConstructionMetadata PROVE FALSE
      OBVIOUS
    <2>1. phase = "metadata" /\ BuildFails(options.type, options.ops)
      BY DEF ConstructionMetadata, Calling
    <2>2. options = intent
      BY <2>1 DEF IInv, PhaseInv
    <2>3. QED
      BY <1>0, <2>1, <2>2
  <1>3. ~ConstructionPayloads
    BY <1>0 DEF ConstructionPayloads
  <1>4. ~ParseUnsigned
    <2> SUFFICES ASSUME ParseUnsigned PROVE FALSE
      OBVIOUS
    <2>1. phase = "parse" /\ ParseFails(rosettaTx)
      BY DEF ParseUnsigned, Calling, Parse
    <2>2. QED
      BY <2>1, ParseSucceeds
  <1>5. ~ParseSigned
    <2> SUFFICES ASSUME ParseSigned PROVE FALSE
      OBVIOUS
    <2>1. phase = "parse signed" /\ (ParseFails(rosettaTx)
              \/ SignersMissing(rosettaTx, ParseTx(rosettaTx.tx, rosettaTx.signers)))
      BY DEF ParseSigned, Calling, Parse
    <2>2. QED
      BY <2>1, ParseSucceeds
  <1>6. ~ConstructionCombine
    <2> SUFFICES ASSUME ConstructionCombine PROVE FALSE
      OBVIOUS
    <2>1. phase = "combine" /\ CombineFails(rosettaTx.tx, payloads)
      BY DEF ConstructionCombine, Calling
    <2>2. phase \notin Before \cup {"failed"}
      BY <2>1 DEF Before
    <2>3. /\ intent \in Intents /\ rosettaTx.tx = BuildTx(intent.type, intent.ops, metadata)
          /\ payloads = PayloadsOf(intent.ops)
      BY <2>2, WhenBuilt
    <2>4. QED
      BY <2>1, <2>3, CombineSucceeds
  <1>7. ~ConstructionHash
    BY DEF ConstructionHash
  <1>8. ~ConstructionSubmit
    <2> SUFFICES ASSUME ConstructionSubmit PROVE FALSE
      OBVIOUS
    <2>1. phase = "submit" /\ ~(Signed(rosettaTx) /\ Current(rosettaTx))
      BY DEF ConstructionSubmit, Calling
    <2>2. QED
      BY <2>1, SubmitAccepts
  <1>9. ~SpendElsewhere
    BY <1>0 DEF SpendElsewhere
  <1>10. ~UNCHANGED vars
    BY <1>0 DEF vars
  <1>11. QED
    BY <1>1, <1>2, <1>3, <1>4, <1>5, <1>6, <1>7, <1>8, <1>9, <1>10 DEF Next

(* No call of the construction fails for an intent whose signatures end up *)
(* at the inputs they are for, and the node accepts the transaction,       *)
(* unless others spend one of its coins, or use a nonce of the exporting   *)
(* account after metadata was answered.  Nonces and coins may have moved   *)
(* before, and those of others at any time.                                *)
THEOREM PlacedAccepted == Spec => []AcceptedUnlessRaced
  <1>1. Init => IInv /\ AcceptedUnlessRaced
    BY InitInv DEF Init, AcceptedUnlessRaced
  <1>2. IInv /\ AcceptedUnlessRaced /\ [Next]_vars => (IInv /\ AcceptedUnlessRaced)'
    BY StepInv, StepAccepts
  <1>3. QED
    BY <1>1, <1>2, PTL DEF Spec

=============================================================================
