--------------------------- MODULE CChainTraceProofs ---------------------------
(***************************************************************************)
(* CChainTrace: operations are numbered, replaying them gives the balances *)
(* of the EVM, and the process goes on, for any accounts, code, values and *)
(* number of calls.                                                        *)
(***************************************************************************)
EXTENDS CChainTrace, InductionLemmas

TraceType == {"CALL", "CALLCODE", "DELEGATECALL", "CREATE", "SELFDESTRUCT"}
TraceCall == [type : TraceType, from : Account, to : Account, value : Nat,
              parent : Nat, error : BOOLEAN]
Calls == [type : TraceType, from : Account, to : Account, value : Nat, revert : BOOLEAN]
OpType == TraceType \cup {"FEE", "DESTRUCT"}
Ops == [index : Int, type : OpType, acct : Account, val : Int, cur : {FlareCurrency},
        ok : BOOLEAN, related : Int]
Holdings == UNION {[S -> Int] : S \in SUBSET Account}

-----------------------------------------------------------------------------
(* What a client adds up *)

LEMMA AddsType ==
  ASSUME NEW os \in Seq(Ops), NEW acct, NEW cur
  PROVE  /\ Adding(os, acct, cur) \in Seq(Int) /\ Len(Adding(os, acct, cur)) = Len(os)
         /\ \A n \in 1 .. Len(os) : Adding(os, acct, cur)[n] = Adds(os[n], acct, cur)
  <1>1. Len(os) \in Nat /\ DOMAIN os = 1 .. Len(os) /\ \A n \in 1 .. Len(os) : os[n] \in Ops
    OBVIOUS
  <1>2. \A n \in 1 .. Len(os) : Adds(os[n], acct, cur) \in Int
    BY <1>1 DEF Adds, Ops
  <1>3. Adding(os, acct, cur) = [n \in 1 .. Len(os) |-> Adds(os[n], acct, cur)]
    BY <1>1 DEF Adding
  <1>4. QED
    BY <1>1, <1>2, <1>3

LEMMA AppliedEmpty ==
  ASSUME NEW acct, NEW cur PROVE Applied(<<>>, acct, cur) = 0
  <1>1. Adding(<<>>, acct, cur) = <<>>
    BY DEF Adding
  <1>2. QED
    BY <1>1, TotalEmpty DEF Applied

LEMMA AppliedType ==
  ASSUME NEW os \in Seq(Ops), NEW acct, NEW cur PROVE Applied(os, acct, cur) \in Int
  BY AddsType, TotalType DEF Applied

LEMMA AppliedConcat ==
  ASSUME NEW os \in Seq(Ops), NEW ps \in Seq(Ops), NEW acct, NEW cur
  PROVE  Applied(os \o ps, acct, cur) = Applied(os, acct, cur) + Applied(ps, acct, cur)
  <1>1. PICK a, b, c : /\ a = Adding(os, acct, cur) /\ b = Adding(ps, acct, cur)
                       /\ c = Adding(os \o ps, acct, cur)
    OBVIOUS
  <1>2. PICK both : both = os \o ps
    OBVIOUS
  <1>3. /\ both \in Seq(Ops) /\ Len(both) = Len(os) + Len(ps)
        /\ \A n \in 1 .. Len(os) + Len(ps) : both[n] = IF n <= Len(os) THEN os[n] ELSE ps[n - Len(os)]
    BY <1>2, ConcatProperties
  <1>4. a \in Seq(Int) /\ Len(a) = Len(os) /\ \A n \in 1 .. Len(os) : a[n] = Adds(os[n], acct, cur)
    BY <1>1, AddsType
  <1>5. b \in Seq(Int) /\ Len(b) = Len(ps) /\ \A n \in 1 .. Len(ps) : b[n] = Adds(ps[n], acct, cur)
    BY <1>1, AddsType
  <1>6. /\ c \in Seq(Int) /\ Len(c) = Len(both)
        /\ \A n \in 1 .. Len(both) : c[n] = Adds(both[n], acct, cur)
    <2>1. c = Adding(both, acct, cur)
      BY <1>1, <1>2
    <2>2. both \in Seq(Ops)
      BY <1>3
    <2>3. QED
      BY <2>1, <2>2, AddsType
  <1>7. Len(os) \in Nat /\ Len(ps) \in Nat
    OBVIOUS
  <1>8. ASSUME NEW n \in 1 .. Len(a) PROVE c[n] = a[n]
    <2>1. n \in 1 .. Len(both) /\ n \in 1 .. Len(os) /\ both[n] = os[n]
      BY <1>3, <1>4, <1>7
    <2>2. QED
      BY <1>4, <1>6, <2>1
  <1>9. ASSUME NEW n \in 1 .. Len(b) PROVE c[Len(a) + n] = b[n]
    <2>1. PICK i : i = Len(os) + n
      OBVIOUS
    <2>2. i \in 1 .. Len(both) /\ n \in 1 .. Len(ps) /\ i - Len(os) = n /\ ~(i <= Len(os))
      BY <1>3, <1>5, <1>7, <2>1
    <2>3. both[i] = ps[n]
      BY <1>3, <2>2
    <2>4. QED
      BY <1>4, <1>5, <1>6, <2>1, <2>2, <2>3
  <1>10. c = a \o b
    <2>1. Len(c) = Len(a) + Len(b)
      BY <1>3, <1>4, <1>5, <1>6
    <2>2. QED
      BY <1>4, <1>5, <1>6, <1>8, <1>9, <2>1, ConcatIs
  <1>11. TotalOf(c) = TotalOf(a) + TotalOf(b)
    BY <1>4, <1>5, <1>10, TotalConcat
  <1>12. QED
    BY <1>1, <1>11 DEF Applied

LEMMA AppliedOne ==
  ASSUME NEW op \in Ops, NEW acct, NEW cur PROVE Applied(<<op>>, acct, cur) = Adds(op, acct, cur)
  <1>1. Adding(<<op>>, acct, cur) = <<Adds(op, acct, cur)>>
    BY DEF Adding
  <1>2. Adds(op, acct, cur) \in Int
    BY DEF Adds, Ops
  <1>3. QED
    BY <1>1, <1>2, TotalOne DEF Applied

LEMMA AppliedTwo ==
  ASSUME NEW o \in Ops, NEW p \in Ops, NEW acct, NEW cur
  PROVE  Applied(<<o, p>>, acct, cur) = Adds(o, acct, cur) + Adds(p, acct, cur)
  <1>1. Adding(<<o, p>>, acct, cur) = <<Adds(o, acct, cur), Adds(p, acct, cur)>>
    BY DEF Adding
  <1>2. Adds(o, acct, cur) \in Int /\ Adds(p, acct, cur) \in Int
    BY DEF Adds, Ops
  <1>3. QED
    BY <1>1, <1>2, TotalTwo DEF Applied

-----------------------------------------------------------------------------
(* The operations of calls *)

LEMMA CallOpsType ==
  ASSUME NEW call \in Calls, NEW index \in Nat
  PROVE  /\ callOps(call, index) \in Seq(Ops)
         /\ \A i \in 1 .. Len(callOps(call, index)) : callOps(call, index)[i].index = index + i - 1
  <1> DEFINE value == IF fromInflation(call) THEN 0 ELSE -call.value
             from == Op(index, call.type, call.from, value, ~call.revert, -1)
             to == Op(index + 1, call.type, call.to, call.value, ~call.revert, index)
  <1>1. /\ call.type \in OpType /\ call.from \in Account /\ call.to \in Account
        /\ call.value \in Int /\ -call.value \in Int /\ (~call.revert) \in BOOLEAN
    BY DEF Calls, OpType
  <1>2. from \in Ops /\ to \in Ops /\ from.index = index /\ to.index = index + 1
    BY <1>1 DEF Op, Ops
  <1> HIDE DEF from, to
  <1>3. callOps(call, index) = <<>> \/ callOps(call, index) = <<from>>
        \/ callOps(call, index) = <<from, to>>
    BY DEF callOps, from, to
  <1>4. CASE callOps(call, index) = <<>>
    BY <1>4, EmptySequence
  <1>5. CASE callOps(call, index) = <<from>>
    BY <1>2, <1>5
  <1>6. CASE callOps(call, index) = <<from, to>>
    BY <1>2, <1>6
  <1>7. QED
    BY <1>3, <1>4, <1>5, <1>6

OpsAfter(g, cs, start) ==
    /\ g \in [0 .. Len(cs) -> Seq(Ops)]
    /\ g[0] = <<>>
    /\ \A n \in 1 .. Len(cs) : g[n] = g[n - 1] \o callOps(cs[n], Len(g[n - 1]) + start)

LEMMA OpsAfterSteps ==
  ASSUME NEW cs \in Seq(Calls), NEW start \in Nat
  PROVE  OpsAfter(opsAfter(cs, start), cs, start)
  <1> DEFINE N == Len(cs)
             A == Seq(Ops)
             F == [x \in (1 .. N) \X A |-> x[2] \o callOps(cs[x[1]], Len(x[2]) + start)]
             body(g) == [n \in 0 .. N |->
                            IF n = 0 THEN <<>>
                            ELSE g[n - 1] \o callOps(cs[n], Len(g[n - 1]) + start)]
             after == CHOOSE g : g = body(g)
  <1>1. N \in Nat /\ \A n \in 1 .. N : cs[n] \in Calls
    OBVIOUS
  <1>2. ASSUME NEW n \in 1 .. N, NEW y \in A
        PROVE  y \o callOps(cs[n], Len(y) + start) \in A
    <2>1. Len(y) + start \in Nat
      OBVIOUS
    <2>2. callOps(cs[n], Len(y) + start) \in Seq(Ops)
      BY <1>1, <2>1, CallOpsType
    <2>3. QED
      BY <2>2
  <1>3. F \in [(1 .. N) \X A -> A]
    <2> HIDE DEF A
    <2>1. QED
      BY <1>2
  <1>4. \A n \in 1 .. N, y \in A : F[<<n, y>>] = y \o callOps(cs[n], Len(y) + start)
    <2> HIDE DEF A
    <2>1. QED
      OBVIOUS
  <1>0. <<>> \in A
    BY EmptySequence
  <1> HIDE DEF F, N, A
  <1>5. PICK g \in [0 .. N -> A] : g[0] = <<>> /\ \A n \in 1 .. N : g[n] = F[<<n, g[n - 1]>>]
    <2>1. Iterates(A, <<>>, N, F)
      BY <1>0, <1>1, <1>3, IteratesExist, Zenon
    <2>2. QED
      BY <2>1 DEF Iterates
  <1>6. \A n \in 1 .. N : n - 1 \in 0 .. N /\ g[n - 1] \in A
    BY <1>1, <1>5
  <1>7. \A n \in 1 .. N : g[n] = g[n - 1] \o callOps(cs[n], Len(g[n - 1]) + start)
    BY <1>4, <1>5, <1>6
  <1>8. g = body(g)
    <2>1. \A n \in 0 .. N : n # 0 => n \in 1 .. N
      BY <1>1
    <2>2. \A n \in 0 .. N : g[n] = body(g)[n]
      BY <1>5, <1>7, <2>1
    <2>3. QED
      BY <1>5, <2>2
  <1>9. after = body(after)
    <2> HIDE DEF body
    <2>1. QED
      BY <1>8
  <1>10. opsAfter(cs, start) = after
    BY DEF opsAfter, N
  <1> HIDE DEF after
  <1>11. DOMAIN after = 0 .. N /\ after[0] = <<>>
    BY <1>1, <1>9
  <1>12. \A n \in 1 .. N : after[n] = after[n - 1] \o callOps(cs[n], Len(after[n - 1]) + start)
    <2>1. \A n \in 1 .. N : n \in 0 .. N /\ n # 0
      BY <1>1
    <2>2. QED
      BY <1>9, <2>1
  <1>13. \A n \in 0 .. N : after[n] \in A
    <2> DEFINE S == {n \in 0 .. N : after[n] \in A}
    <2>1. 0 \in S
      BY <1>0, <1>1, <1>11
    <2>2. ASSUME NEW n \in 1 .. N, n - 1 \in S PROVE n \in S
      <3>1. after[n - 1] \in A /\ n \in 0 .. N
        BY <1>1, <2>2
      <3>2. after[n - 1] \o callOps(cs[n], Len(after[n - 1]) + start) \in A
        BY <1>2, <3>1
      <3>3. QED
        BY <1>12, <3>1, <3>2
    <2>3. \A n \in 0 .. N : n \in S
      <3> HIDE DEF S
      <3>1. QED
        BY <1>1, <2>1, <2>2, InductionUpTo
    <2>4. QED
      BY <2>3
  <1>14. after \in [0 .. N -> A]
    <2>1. after = [n \in 0 .. N |-> after[n]]
      BY <1>9, <1>11
    <2>2. QED
      BY <1>13, <2>1
  <1>15. QED
    BY <1>10, <1>11, <1>12, <1>14 DEF OpsAfter, N, A

(* What a call moves to or from an account *)
Moved(call, acct) ==
    (IF call.from = acct /\ ~fromInflation(call) THEN -call.value ELSE 0)
    + (IF call.to = acct /\ ~ToItself(call) THEN call.value ELSE 0)
Counted(call, acct) == IF call.revert THEN 0 ELSE Moved(call, acct)

LEMMA CallOpsApplied ==
  ASSUME NEW call \in Calls, NEW index \in Nat, NEW acct
  PROVE  Applied(callOps(call, index), acct, FlareCurrency) = Counted(call, acct)
  <1> DEFINE value == IF fromInflation(call) THEN 0 ELSE -call.value
             from == Op(index, call.type, call.from, value, ~call.revert, -1)
             to == Op(index + 1, call.type, call.to, call.value, ~call.revert, index)
             a == IF call.from = acct /\ ~fromInflation(call) THEN -call.value ELSE 0
             b == IF call.to = acct THEN call.value ELSE 0
  <1>1. /\ call.type \in OpType /\ call.from \in Account /\ call.to \in Account
        /\ call.value \in Int /\ -call.value \in Int /\ (~call.revert) \in BOOLEAN
        /\ call.revert \in BOOLEAN
    BY DEF Calls, OpType
  <1>2. from \in Ops /\ to \in Ops
    BY <1>1 DEF Op, Ops
  <1>3. /\ Adds(from, acct, FlareCurrency) = IF call.revert THEN 0 ELSE a
        /\ Adds(to, acct, FlareCurrency) = IF call.revert THEN 0 ELSE b
    BY <1>1 DEF Adds, Op
  <1>4. callOps(call, index) = IF ~shouldAdd(call) THEN <<>>
                               ELSE IF ToItself(call) THEN <<from>> ELSE <<from, to>>
    BY DEF callOps
  <1>5. Counted(call, acct) = IF call.revert THEN 0 ELSE a + (IF ToItself(call) THEN 0 ELSE b)
    BY DEF Counted, Moved
  <1>6. a \in Int /\ b \in Int
    BY <1>1
  <1>7. CASE ~shouldAdd(call)
    <2>1. call.value = 0
      BY <1>7 DEF shouldAdd
    <2>2. a = 0 /\ b = 0
      <3>1. -call.value = 0
        <4>1. \A x \in Int : x >= 0 /\ x <= 0 => -x = 0
          OBVIOUS
        <4>2. call.value \in Int /\ call.value >= 0 /\ call.value <= 0
          BY <1>1, <2>1
        <4>3. QED
          BY <4>1, <4>2, Zenon
      <3>2. QED
        BY <2>1, <3>1
    <2>3. Counted(call, acct) = 0
      BY <1>5, <2>2
    <2>4. QED
      BY <1>4, <1>7, <2>3, AppliedEmpty
  <1> HIDE DEF from, to, a, b
  <1>8. CASE shouldAdd(call) /\ ToItself(call)
    BY <1>2, <1>3, <1>4, <1>5, <1>6, <1>8, AppliedOne
  <1>9. CASE shouldAdd(call) /\ ~ToItself(call)
    <2>1. Applied(<<from, to>>, acct, FlareCurrency)
            = Adds(from, acct, FlareCurrency) + Adds(to, acct, FlareCurrency)
      BY <1>2, AppliedTwo
    <2>2. QED
      BY <1>3, <1>4, <1>5, <1>6, <1>9, <2>1
  <1>10. QED
    BY <1>7, <1>8, <1>9

(* What the operations of the first n calls do to an account *)
Effect(cs, n, acct) == Applied(opsAfter(cs, 2)[n], acct, FlareCurrency)

LEMMA CountedType ==
  ASSUME NEW call \in Calls, NEW acct PROVE Counted(call, acct) \in Int /\ Moved(call, acct) \in Int
  BY DEF Counted, Moved, Calls

LEMMA EffectSteps ==
  ASSUME NEW cs \in Seq(Calls), NEW acct
  PROVE  /\ Effect(cs, 0, acct) = 0
         /\ \A n \in 0 .. Len(cs) : Effect(cs, n, acct) \in Int
         /\ \A n \in 1 .. Len(cs) : Effect(cs, n, acct) = Effect(cs, n - 1, acct) + Counted(cs[n], acct)
  <1> DEFINE g == opsAfter(cs, 2)
  <1>1. OpsAfter(g, cs, 2)
    BY OpsAfterSteps
  <1> HIDE DEF g
  <1>2. Effect(cs, 0, acct) = 0
    BY <1>1, AppliedEmpty DEF OpsAfter, Effect, g
  <1>3. ASSUME NEW n \in 0 .. Len(cs) PROVE Effect(cs, n, acct) \in Int
    <2>1. g[n] \in Seq(Ops)
      BY <1>1 DEF OpsAfter
    <2>2. QED
      BY <2>1, AppliedType DEF Effect, g
  <1>4. ASSUME NEW n \in 1 .. Len(cs)
        PROVE  Effect(cs, n, acct) = Effect(cs, n - 1, acct) + Counted(cs[n], acct)
    <2>1. n - 1 \in 0 .. Len(cs) /\ cs[n] \in Calls
      OBVIOUS
    <2>2. g[n - 1] \in Seq(Ops) /\ Len(g[n - 1]) + 2 \in Nat
      BY <1>1, <2>1 DEF OpsAfter
    <2> DEFINE os == callOps(cs[n], Len(g[n - 1]) + 2)
    <2>3. os \in Seq(Ops) /\ Applied(os, acct, FlareCurrency) = Counted(cs[n], acct)
      BY <2>1, <2>2, CallOpsType, CallOpsApplied
    <2>4. g[n] = g[n - 1] \o os
      BY <1>1 DEF OpsAfter
    <2> HIDE DEF os
    <2>5. Applied(g[n], acct, FlareCurrency)
            = Applied(g[n - 1], acct, FlareCurrency) + Applied(os, acct, FlareCurrency)
      BY <2>2, <2>3, <2>4, AppliedConcat
    <2>6. QED
      BY <2>3, <2>5 DEF Effect, g
  <1>5. QED
    BY <1>2, <1>3, <1>4

-----------------------------------------------------------------------------
(* What destroyed accounts hold *)

LEMMA HoldingsAre ==
  ASSUME NEW d
  PROVE  d \in Holdings <=> /\ d = [acct \in DOMAIN d |-> d[acct]] /\ DOMAIN d \subseteq Account
                            /\ \A acct \in DOMAIN d : d[acct] \in Int
  <1>1. ASSUME d \in Holdings
        PROVE  /\ d = [acct \in DOMAIN d |-> d[acct]] /\ DOMAIN d \subseteq Account
               /\ \A acct \in DOMAIN d : d[acct] \in Int
    <2>1. PICK S \in SUBSET Account : d \in [S -> Int]
      BY <1>1 DEF Holdings
    <2>2. QED
      BY <2>1
  <1>2. ASSUME d = [acct \in DOMAIN d |-> d[acct]], DOMAIN d \subseteq Account,
               \A acct \in DOMAIN d : d[acct] \in Int
        PROVE  d \in Holdings
    <2>1. d \in [DOMAIN d -> Int]
      BY <1>2
    <2>2. QED
      BY <1>2, <2>1 DEF Holdings
  <1>3. QED
    BY <1>1, <1>2

LEMMA NotesIs ==
  ASSUME NEW d \in Holdings, NEW acct, NEW amount \in Int, NEW call
  PROVE  /\ Notes(d, acct, amount, call) \in Holdings
         /\ DOMAIN Notes(d, acct, amount, call) = DOMAIN d
         /\ \A a \in DOMAIN d : Notes(d, acct, amount, call)[a]
                = IF a = acct /\ ~call.revert THEN d[a] + amount ELSE d[a]
  <1> DEFINE e == Notes(d, acct, amount, call)
  <1>1. /\ d = [a \in DOMAIN d |-> d[a]] /\ DOMAIN d \subseteq Account
        /\ \A a \in DOMAIN d : d[a] \in Int
    BY HoldingsAre
  <1>2. /\ e = [a \in DOMAIN e |-> e[a]] /\ DOMAIN e = DOMAIN d
        /\ \A a \in DOMAIN d : e[a] = IF a = acct /\ ~call.revert THEN d[a] + amount ELSE d[a]
    BY <1>1 DEF Notes
  <1>3. \A a \in DOMAIN d : e[a] \in Int
    BY <1>1, <1>2
  <1> HIDE DEF e
  <1>4. e \in Holdings
    BY <1>1, <1>2, <1>3, HoldingsAre
  <1>5. QED
    BY <1>2, <1>4 DEF e

LEMMA UpdateType ==
  ASSUME NEW d \in Holdings, NEW call \in Calls
  PROVE  Update(d, call) \in Holdings
  <1>1. call.value \in Int /\ -call.value \in Int /\ call.from \in Account
    BY DEF Calls
  <1> DEFINE p == Paid(d, call)
             m == Marked(p, call)
             kept == IF call.type \in CreateType THEN DOMAIN m \ {call.to} ELSE DOMAIN m
             k == [acct \in kept |-> m[acct]]
  <1>2. p \in Holdings
    BY <1>1, NotesIs DEF Paid
  <1> HIDE DEF p
  <1>3. m \in Holdings
    <2>1. /\ p = [a \in DOMAIN p |-> p[a]] /\ DOMAIN p \subseteq Account
          /\ \A a \in DOMAIN p : p[a] \in Int
      BY <1>2, HoldingsAre
    <2>2. /\ m = [a \in DOMAIN m |-> m[a]] /\ DOMAIN m \subseteq Account
          /\ \A a \in DOMAIN m : m[a] \in Int
      BY <1>1, <2>1 DEF Marked
    <2> HIDE DEF m
    <2>3. QED
      BY <2>2, HoldingsAre
  <1> HIDE DEF m
  <1>4. k \in Holdings
    <2>1. DOMAIN m \subseteq Account /\ \A a \in DOMAIN m : m[a] \in Int
      BY <1>3, HoldingsAre
    <2>2. /\ k = [a \in DOMAIN k |-> k[a]] /\ DOMAIN k \subseteq Account
          /\ \A a \in DOMAIN k : k[a] \in Int
      BY <2>1
    <2> HIDE DEF k
    <2>3. QED
      BY <2>2, HoldingsAre
  <1>5. Update(d, call) = IF ToItself(call) THEN m ELSE Notes(k, call.to, call.value, call)
    BY DEF Update, Received, m, p
  <1> HIDE DEF k
  <1>6. Notes(k, call.to, call.value, call) \in Holdings
    BY <1>1, <1>4, NotesIs
  <1>7. QED
    BY <1>3, <1>5, <1>6

(* What a call that took effect does to them *)
LEMMA UpdateMoves ==
  ASSUME NEW d \in Holdings, NEW call \in Calls, ~call.revert,
         call.type = "CREATE" => call.to \notin DOMAIN d,
         call.type = "SELFDESTRUCT" => ~fromInflation(call)
  PROVE  /\ DOMAIN Update(d, call) = DOMAIN d \cup (IF call.type = "SELFDESTRUCT" THEN {call.from} ELSE {})
         /\ \A a \in DOMAIN Update(d, call) : Update(d, call)[a]
                = IF call.type = "SELFDESTRUCT" /\ a = call.from THEN 0 ELSE d[a] + Moved(call, a)
  <1>1. call.value \in Int /\ -call.value \in Int /\ call.from \in Account /\ call.type \in TraceType
    BY DEF Calls
  <1>2. \A a \in DOMAIN d : d[a] \in Int
    BY HoldingsAre
  <1> DEFINE p == Paid(d, call)
             m == Marked(p, call)
             e == Update(d, call)
  <1>3. /\ p \in Holdings /\ DOMAIN p = DOMAIN d
        /\ \A a \in DOMAIN d : p[a] = IF a = call.from /\ ~fromInflation(call) THEN d[a] - call.value ELSE d[a]
    BY <1>1, <1>2, NotesIs DEF Paid
  <1>4. e = Received(m, call)
    BY DEF Update
  <1> HIDE DEF p, e
  <1>5. CASE call.type # "SELFDESTRUCT"
    <2>1. m = p /\ ~ToItself(call)
      BY <1>5 DEF Marked, ToItself
    <2>2. (IF call.type \in CreateType THEN DOMAIN p \ {call.to} ELSE DOMAIN p) = DOMAIN p
      BY <1>1, <1>3 DEF CreateType, TraceType
    <2>3. [acct \in DOMAIN p |-> p[acct]] = p
      BY <1>3, HoldingsAre
    <2>4. e = Notes(p, call.to, call.value, call)
      BY <1>4, <2>1, <2>2, <2>3 DEF Received
    <2>5. /\ DOMAIN e = DOMAIN d
          /\ \A a \in DOMAIN d : e[a] = IF a = call.to THEN p[a] + call.value ELSE p[a]
      BY <1>1, <1>3, <2>4, NotesIs
    <2>6. ASSUME NEW a \in DOMAIN d PROVE e[a] = d[a] + Moved(call, a)
      BY <1>1, <1>2, <1>3, <2>1, <2>5 DEF Moved
    <2>7. QED
      BY <1>5, <2>5, <2>6 DEF e
  <1>6. CASE call.type = "SELFDESTRUCT"
    <2>1. m = [acct \in DOMAIN d \cup {call.from} |-> IF acct = call.from THEN 0 ELSE p[acct]]
      BY <1>3, <1>6 DEF Marked
    <2>2. DOMAIN m = DOMAIN d \cup {call.from}
      BY <2>1
    <2>3. \A a \in DOMAIN m : m[a] = IF a = call.from THEN 0 ELSE d[a]
      BY <1>3, <2>1
    <2>4. m \in Holdings /\ m = [acct \in DOMAIN m |-> m[acct]]
      <3>1. m = [acct \in DOMAIN m |-> m[acct]]
        BY <2>1
      <3>2. DOMAIN m \subseteq Account /\ \A a \in DOMAIN m : m[a] \in Int
        BY <1>1, <1>2, <2>2, <2>3, HoldingsAre
      <3> HIDE DEF m
      <3>3. QED
        BY <3>1, <3>2, HoldingsAre
    <2>5. call.type \notin CreateType
      BY <1>6 DEF CreateType
    <2> HIDE DEF m
    <2>6. CASE ToItself(call)
      <3>1. e = m
        BY <1>4, <2>6 DEF Received
      <3>2. call.from = call.to
        BY <2>6 DEF ToItself
      <3>3. ASSUME NEW a \in DOMAIN d, a # call.from PROVE e[a] = d[a] + Moved(call, a)
        BY <1>2, <2>2, <2>3, <3>1, <3>2, <3>3 DEF Moved
      <3>4. QED
        BY <1>6, <2>2, <2>3, <3>1, <3>3 DEF e
    <2>7. CASE ~ToItself(call)
      <3>1. e = Notes(m, call.to, call.value, call)
        BY <1>4, <2>4, <2>5, <2>7 DEF Received
      <3>2. /\ DOMAIN e = DOMAIN m
            /\ \A a \in DOMAIN m : e[a] = IF a = call.to THEN m[a] + call.value ELSE m[a]
        BY <1>1, <2>4, <3>1, NotesIs
      <3>3. call.from # call.to
        BY <1>6, <2>7 DEF ToItself
      <3>4. e[call.from] = 0
        BY <2>2, <2>3, <3>2, <3>3
      <3>5. ASSUME NEW a \in DOMAIN d, a # call.from PROVE e[a] = d[a] + Moved(call, a)
        BY <1>1, <1>2, <2>2, <2>3, <2>7, <3>2, <3>5 DEF Moved
      <3>6. QED
        BY <1>6, <2>2, <3>2, <3>4, <3>5 DEF e
    <2>8. QED
      BY <2>6, <2>7
  <1>7. QED
    BY <1>5, <1>6

(* A call that was reverted leaves them alone, unless it would create one. *)
LEMMA UpdateReverted ==
  ASSUME NEW d \in Holdings, NEW call \in Calls, call.revert,
         call.type = "CREATE" => call.to \notin DOMAIN d, call.type # "SELFDESTRUCT"
  PROVE  Update(d, call) = d
  <1>1. call.type \in TraceType
    BY DEF Calls
  <1>2. Paid(d, call) = d
    BY DEF Paid, Notes
  <1>3. Marked(d, call) = d /\ ~ToItself(call)
    BY DEF Marked, ToItself
  <1>4. (IF call.type \in CreateType THEN DOMAIN d \ {call.to} ELSE DOMAIN d) = DOMAIN d
    BY <1>1 DEF CreateType, TraceType
  <1>5. [acct \in DOMAIN d |-> d[acct]] = d
    BY HoldingsAre
  <1>6. Received(d, call) = d
    BY <1>3, <1>4, <1>5 DEF Received, Notes
  <1>7. QED
    BY <1>2, <1>3, <1>6 DEF Update

Nobody == [acct \in {} |-> 0]

Destroying(g, cs) ==
    /\ g \in [0 .. Len(cs) -> Holdings]
    /\ g[0] = Nobody
    /\ \A n \in 1 .. Len(cs) : g[n] = Update(g[n - 1], cs[n])

LEMMA NobodyIs == Nobody \in Holdings /\ DOMAIN Nobody = {}
  <1>1. DOMAIN Nobody = {} /\ Nobody = [acct \in DOMAIN Nobody |-> Nobody[acct]]
    BY DEF Nobody
  <1>2. QED
    BY <1>1, HoldingsAre

LEMMA DestroyedAfterSteps ==
  ASSUME NEW cs \in Seq(Calls)
  PROVE  Destroying(destroyedAfter(cs), cs)
  <1> DEFINE N == Len(cs)
             F == [x \in (1 .. N) \X Holdings |-> Update(x[2], cs[x[1]])]
             body(g) == [n \in 0 .. N |-> IF n = 0 THEN [acct \in {} |-> 0] ELSE Update(g[n - 1], cs[n])]
             after == CHOOSE g : g = body(g)
  <1>1. N \in Nat /\ \A n \in 1 .. N : cs[n] \in Calls
    OBVIOUS
  <1>2. \A n \in 1 .. N, y \in Holdings : Update(y, cs[n]) \in Holdings
    BY <1>1, UpdateType
  <1>3. F \in [(1 .. N) \X Holdings -> Holdings]
    BY <1>2
  <1>4. \A n \in 1 .. N, y \in Holdings : F[<<n, y>>] = Update(y, cs[n])
    OBVIOUS
  <1>0. Nobody \in Holdings
    BY NobodyIs
  <1> HIDE DEF F, N
  <1>5. PICK g \in [0 .. N -> Holdings] : g[0] = Nobody /\ \A n \in 1 .. N : g[n] = F[<<n, g[n - 1]>>]
    <2>1. Iterates(Holdings, Nobody, N, F)
      BY <1>0, <1>1, <1>3, IteratesExist, Zenon
    <2>2. QED
      BY <2>1 DEF Iterates
  <1>6. \A n \in 1 .. N : n - 1 \in 0 .. N /\ g[n - 1] \in Holdings
    BY <1>1, <1>5
  <1>7. \A n \in 1 .. N : g[n] = Update(g[n - 1], cs[n])
    BY <1>4, <1>5, <1>6
  <1>8. g = body(g)
    <2>1. \A n \in 0 .. N : n # 0 => n \in 1 .. N
      BY <1>1
    <2>2. \A n \in 0 .. N : g[n] = body(g)[n]
      BY <1>5, <1>7, <2>1 DEF Nobody
    <2>3. QED
      BY <1>5, <2>2
  <1>9. after = body(after)
    <2> HIDE DEF body
    <2>1. QED
      BY <1>8
  <1>10. destroyedAfter(cs) = after
    BY DEF destroyedAfter, N
  <1> HIDE DEF after
  <1>11. DOMAIN after = 0 .. N /\ after[0] = Nobody
    BY <1>1, <1>9 DEF Nobody
  <1>12. \A n \in 1 .. N : after[n] = Update(after[n - 1], cs[n])
    <2>1. \A n \in 1 .. N : n \in 0 .. N /\ n # 0
      BY <1>1
    <2>2. QED
      BY <1>9, <2>1
  <1>13. \A n \in 0 .. N : after[n] \in Holdings
    <2> DEFINE S == {n \in 0 .. N : after[n] \in Holdings}
    <2>1. 0 \in S
      BY <1>0, <1>1, <1>11
    <2>2. ASSUME NEW n \in 1 .. N, n - 1 \in S PROVE n \in S
      <3>1. after[n - 1] \in Holdings /\ n \in 0 .. N
        BY <1>1, <2>2
      <3>2. Update(after[n - 1], cs[n]) \in Holdings
        BY <1>2, <3>1
      <3>3. QED
        BY <1>12, <3>1, <3>2
    <2>3. \A n \in 0 .. N : n \in S
      <3> HIDE DEF S
      <3>1. QED
        BY <1>1, <2>1, <2>2, InductionUpTo
    <2>4. QED
      BY <2>3
  <1>14. after \in [0 .. N -> Holdings]
    <2>1. after = [n \in 0 .. N |-> after[n]]
      BY <1>9, <1>11
    <2>2. QED
      BY <1>13, <2>1
  <1>15. QED
    BY <1>10, <1>11, <1>12, <1>14 DEF Destroying, N

-----------------------------------------------------------------------------
(* Two traces that begin alike *)

Alike(s, t, m) == m <= Len(s) /\ m <= Len(t) /\ \A i \in 1 .. m : s[i] = t[i]

LEMMA EffectAlike ==
  ASSUME NEW cs \in Seq(Calls), NEW ds \in Seq(Calls), NEW m \in Nat, Alike(cs, ds, m), NEW acct
  PROVE  Effect(cs, m, acct) = Effect(ds, m, acct)
  <1> DEFINE S == {n \in 0 .. m : Effect(cs, n, acct) = Effect(ds, n, acct)}
  <1>1. Effect(cs, 0, acct) = 0 /\ Effect(ds, 0, acct) = 0
    BY EffectSteps
  <1>2. 0 \in S
    BY <1>1
  <1>3. ASSUME NEW n \in 1 .. m, n - 1 \in S PROVE n \in S
    <2>1. n \in 1 .. Len(cs) /\ n \in 1 .. Len(ds) /\ cs[n] = ds[n]
      BY DEF Alike
    <2>2. /\ Effect(cs, n, acct) = Effect(cs, n - 1, acct) + Counted(cs[n], acct)
          /\ Effect(ds, n, acct) = Effect(ds, n - 1, acct) + Counted(ds[n], acct)
      BY <2>1, EffectSteps
    <2>3. Effect(cs, n, acct) = Effect(ds, n, acct)
      BY <1>3, <2>1, <2>2
    <2>4. QED
      BY <2>3
  <1>4. \A n \in 0 .. m : n \in S
    <2> HIDE DEF S
    <2>1. QED
      BY <1>2, <1>3, InductionUpTo
  <1>5. QED
    BY <1>4

LEMMA DestroyedAlike ==
  ASSUME NEW cs \in Seq(Calls), NEW ds \in Seq(Calls), NEW m \in Nat, Alike(cs, ds, m)
  PROVE  destroyedAfter(cs)[m] = destroyedAfter(ds)[m]
  <1> DEFINE f == destroyedAfter(cs)
             g == destroyedAfter(ds)
             S == {n \in 0 .. m : f[n] = g[n]}
  <1>1. Destroying(f, cs) /\ Destroying(g, ds)
    BY DestroyedAfterSteps
  <1> HIDE DEF f, g
  <1>2. 0 \in S
    BY <1>1 DEF Destroying
  <1>3. ASSUME NEW n \in 1 .. m, n - 1 \in S PROVE n \in S
    <2>1. n \in 1 .. Len(cs) /\ n \in 1 .. Len(ds) /\ cs[n] = ds[n]
      BY DEF Alike
    <2>2. f[n] = Update(f[n - 1], cs[n]) /\ g[n] = Update(g[n - 1], ds[n])
      BY <1>1, <2>1 DEF Destroying
    <2>3. f[n] = g[n]
      BY <1>3, <2>1, <2>2
    <2>4. QED
      BY <2>3
  <1>4. \A n \in 0 .. m : n \in S
    <2> HIDE DEF S
    <2>1. QED
      BY <1>2, <1>3, InductionUpTo
  <1>5. QED
    BY <1>4 DEF f, g

-----------------------------------------------------------------------------
(* Call.init *)

Rooted(t) == t \in Seq(TraceCall) /\ \A i \in 1 .. Len(t) : t[i].parent \in 0 .. i - 1

Reverting(g, t, n) ==
    /\ g \in [1 .. n -> BOOLEAN]
    /\ \A i \in 1 .. n : g[i] <=> (t[i].error \/ (t[i].parent # 0 /\ g[t[i].parent]))

LEMMA RevertsExist ==
  ASSUME NEW t, Rooted(t), NEW n \in 0 .. Len(t)
  PROVE  \E g : Reverting(g, t, n)
  <1> DEFINE S == {k \in 0 .. Len(t) : \E g : Reverting(g, t, k)}
  <1>0. t \in Seq(TraceCall) /\ \A i \in 1 .. Len(t) : t[i].parent \in 0 .. i - 1
    BY DEF Rooted
  <1>1. Len(t) \in Nat /\ \A i \in 1 .. Len(t) : t[i].error \in BOOLEAN /\ t[i].parent \in 0 .. i - 1
    <2>1. \A i \in 1 .. Len(t) : t[i] \in TraceCall
      BY <1>0
    <2>2. QED
      BY <1>0, <2>1 DEF TraceCall
  <1>2. 0 \in S
    <2>1. Reverting([i \in 1 .. 0 |-> TRUE], t, 0)
      BY DEF Reverting
    <2>2. QED
      BY <1>1, <2>1
  <1>3. ASSUME NEW k \in 1 .. Len(t), k - 1 \in S PROVE k \in S
    <2>1. PICK g : Reverting(g, t, k - 1)
      BY <1>3
    <2> DEFINE last == t[k].error \/ (t[k].parent # 0 /\ g[t[k].parent])
               h == [i \in 1 .. k |-> IF i = k THEN last ELSE g[i]]
    <2>2. last \in BOOLEAN
      BY <1>1
    <2>3. \A i \in 1 .. k : i # k => i \in 1 .. k - 1
      BY <1>1
    <2>4. h \in [1 .. k -> BOOLEAN]
      BY <2>1, <2>2, <2>3 DEF Reverting
    <2>5. \A i \in 1 .. k : t[i].parent # 0 => t[i].parent \in 1 .. k - 1 /\ h[t[i].parent] = g[t[i].parent]
      BY <1>1
    <2>6. \A i \in 1 .. k : h[i] = IF i = k THEN last ELSE g[i]
      OBVIOUS
    <2> HIDE DEF h
    <2>7. ASSUME NEW i \in 1 .. k
          PROVE  h[i] <=> (t[i].error \/ (t[i].parent # 0 /\ h[t[i].parent]))
      <3>1. CASE i = k
        BY <2>5, <2>6, <3>1
      <3>2. CASE i # k
        <4>1. g[i] <=> (t[i].error \/ (t[i].parent # 0 /\ g[t[i].parent]))
          BY <2>1, <2>3, <3>2 DEF Reverting
        <4>2. QED
          BY <2>5, <2>6, <3>2, <4>1
      <3>3. QED
        BY <3>1, <3>2
    <2>8. Reverting(h, t, k)
      BY <2>4, <2>7 DEF Reverting
    <2>9. QED
      BY <2>8
  <1>4. \A k \in 0 .. Len(t) : k \in S
    <2> HIDE DEF S
    <2>1. QED
      BY <1>1, <1>2, <1>3, InductionUpTo
  <1>5. QED
    BY <1>4

LEMMA RevertsSteps ==
  ASSUME NEW t, Rooted(t)
  PROVE  Reverting(Reverts(t), t, Len(t))
  <1> DEFINE body(g) == [i \in DOMAIN t |-> t[i].error \/ (t[i].parent # 0 /\ g[t[i].parent])]
             revert == CHOOSE g : g = body(g)
  <1>1. Len(t) \in Nat /\ DOMAIN t = 1 .. Len(t)
    BY DEF Rooted
  <1>2. PICK g : Reverting(g, t, Len(t))
    <2>1. Len(t) \in 0 .. Len(t)
      BY <1>1
    <2>2. QED
      BY <2>1, RevertsExist
  <1>3. \A i \in 1 .. Len(t) : g[i] = (t[i].error \/ (t[i].parent # 0 /\ g[t[i].parent]))
    BY <1>2 DEF Reverting
  <1>4. g = body(g)
    BY <1>1, <1>2, <1>3 DEF Reverting
  <1>5. revert = body(revert)
    <2> HIDE DEF body
    <2>1. QED
      BY <1>4
  <1>6. Reverts(t) = revert
    BY DEF Reverts
  <1> HIDE DEF revert
  <1>7. \A i \in 1 .. Len(t) : revert[i] = (t[i].error \/ (t[i].parent # 0 /\ revert[t[i].parent]))
    BY <1>1, <1>5
  <1>8. revert \in [1 .. Len(t) -> BOOLEAN]
    BY <1>1, <1>5
  <1>9. QED
    BY <1>6, <1>7, <1>8 DEF Reverting

LEMMA RevertsAlike ==
  ASSUME NEW s, NEW t, Rooted(s), Rooted(t), NEW m \in Nat, Alike(s, t, m)
  PROVE  \A i \in 1 .. m : Reverts(s)[i] = Reverts(t)[i]
  <1> DEFINE f == Reverts(s)
             g == Reverts(t)
             S == {n \in 0 .. m : \A i \in 1 .. n : f[i] = g[i]}
  <1>1. Reverting(f, s, Len(s)) /\ Reverting(g, t, Len(t))
    BY RevertsSteps
  <1>2. m <= Len(s) /\ m <= Len(t) /\ \A i \in 1 .. m : s[i] = t[i]
    BY DEF Alike
  <1>3. Len(s) \in Nat /\ Len(t) \in Nat /\ \A i \in 1 .. Len(s) : s[i].parent \in 0 .. i - 1
    BY DEF Rooted
  <1> HIDE DEF f, g
  <1>4. 0 \in S
    OBVIOUS
  <1>5. ASSUME NEW n \in 1 .. m, n - 1 \in S PROVE n \in S
    <2>1. n \in 1 .. Len(s) /\ n \in 1 .. Len(t) /\ s[n] = t[n]
      BY <1>2, <1>3
    <2>2. /\ f[n] <=> (s[n].error \/ (s[n].parent # 0 /\ f[s[n].parent]))
          /\ g[n] <=> (s[n].error \/ (s[n].parent # 0 /\ g[s[n].parent]))
          /\ f[n] \in BOOLEAN /\ g[n] \in BOOLEAN
      BY <1>1, <2>1 DEF Reverting
    <2>3. s[n].parent # 0 => s[n].parent \in 1 .. n - 1
      BY <1>3, <2>1
    <2>4. \A i \in 1 .. n - 1 : f[i] = g[i]
      BY <1>5
    <2>5. f[n] = g[n]
      BY <2>2, <2>3, <2>4
    <2>6. \A i \in 1 .. n : i = n \/ i \in 1 .. n - 1
      OBVIOUS
    <2>7. QED
      BY <2>4, <2>5, <2>6
  <1>6. \A n \in 0 .. m : n \in S
    <2> HIDE DEF S
    <2>1. QED
      BY <1>4, <1>5, InductionUpTo
  <1>7. QED
    BY <1>6 DEF f, g

(* All that was called from a call on is reverted with it. *)
LEMMA RevertsBelow ==
  ASSUME NEW t, Rooted(t), NEW c \in 1 .. Len(t), Reverts(t)[c],
         \A i \in c + 1 .. Len(t) : t[i].parent >= c
  PROVE  \A i \in c .. Len(t) : Reverts(t)[i]
  <1> DEFINE f == Reverts(t)
             S == {n \in 0 .. Len(t) : \A i \in c .. n : f[i]}
  <1>1. Reverting(f, t, Len(t))
    BY RevertsSteps
  <1>2. Len(t) \in Nat /\ \A i \in 1 .. Len(t) : t[i].parent \in 0 .. i - 1
    BY DEF Rooted
  <1>3. f[c]
    OBVIOUS
  <1> HIDE DEF f
  <1>4. 0 \in S
    BY <1>2
  <1>5. ASSUME NEW n \in 1 .. Len(t), n - 1 \in S PROVE n \in S
    <2>1. \A i \in c .. n - 1 : f[i]
      BY <1>5
    <2>2. n >= c => f[n]
      <3>1. CASE n = c
        BY <1>3, <3>1
      <3>2. CASE n > c
        <4>1. t[n].parent >= c /\ t[n].parent \in 0 .. n - 1
          BY <1>2, <3>2
        <4>2. t[n].parent \in c .. n - 1 /\ t[n].parent # 0
          BY <4>1
        <4>3. f[t[n].parent]
          BY <2>1, <4>2
        <4>4. QED
          BY <1>1, <4>2, <4>3 DEF Reverting
      <3>3. QED
        BY <3>1, <3>2
    <2>3. \A i \in c .. n : i = n \/ i \in c .. n - 1
      OBVIOUS
    <2>4. QED
      BY <2>1, <2>2, <2>3
  <1>6. \A n \in 0 .. Len(t) : n \in S
    <2> HIDE DEF S
    <2>1. QED
      BY <1>2, <1>4, <1>5, InductionUpTo
  <1>7. Len(t) \in S
    BY <1>2, <1>6
  <1>8. QED
    BY <1>7 DEF f

InitOf(cs, t) ==
    /\ cs \in Seq(Calls) /\ Len(cs) = Len(t)
    /\ \A i \in 1 .. Len(t) :
          /\ cs[i].type = t[i].type /\ cs[i].from = t[i].from /\ cs[i].to = t[i].to
          /\ cs[i].value = t[i].value /\ cs[i].revert = Reverts(t)[i]

LEMMA InitIs ==
  ASSUME NEW t, Rooted(t)
  PROVE  InitOf(init(t), t)
  <1> DEFINE cs == init(t)
             N == Len(t)
  <1>1. t \in Seq(TraceCall) /\ N \in Nat /\ DOMAIN t = 1 .. N
    BY DEF Rooted
  <1>2. \A i \in 1 .. N : t[i] \in TraceCall
    BY <1>1
  <1>3. \A i \in 1 .. N : Reverts(t)[i] \in BOOLEAN
    BY RevertsSteps DEF Reverting
  <1>4. cs = [i \in 1 .. N |-> [type |-> t[i].type, from |-> t[i].from, to |-> t[i].to,
                                value |-> t[i].value, revert |-> Reverts(t)[i]]]
    BY <1>1 DEF init, Initialised
  <1> HIDE DEF cs, N
  <1>5. \A i \in 1 .. N : /\ cs[i].type = t[i].type /\ cs[i].from = t[i].from /\ cs[i].to = t[i].to
                          /\ cs[i].value = t[i].value /\ cs[i].revert = Reverts(t)[i]
    BY <1>4
  <1>6. cs \in [1 .. N -> Calls]
    BY <1>2, <1>3, <1>4 DEF TraceCall, Calls
  <1>7. cs \in Seq(Calls) /\ Len(cs) = N
    BY <1>1, <1>6
  <1>8. QED
    BY <1>5, <1>7 DEF InitOf, cs, N

LEMMA InitAlike ==
  ASSUME NEW s, NEW t, Rooted(s), Rooted(t), NEW m \in Nat, Alike(s, t, m)
  PROVE  Alike(init(s), init(t), m)
  <1>1. \A i \in 1 .. m : Reverts(s)[i] = Reverts(t)[i]
    BY RevertsAlike
  <1>2. Len(init(s)) = Len(s) /\ Len(init(t)) = Len(t)
    BY InitIs DEF InitOf
  <1>3. m <= Len(s) /\ m <= Len(t) /\ \A i \in 1 .. m : s[i] = t[i]
    BY DEF Alike
  <1>4. ASSUME NEW i \in 1 .. m PROVE init(s)[i] = init(t)[i]
    <2>1. i \in DOMAIN s /\ i \in DOMAIN t
      BY <1>3 DEF Rooted
    <2>2. QED
      BY <1>1, <1>3, <2>1 DEF init, Initialised
  <1>5. QED
    BY <1>2, <1>3, <1>4 DEF Alike

-----------------------------------------------------------------------------
(* What is taken away from the destroyed accounts at the end *)

ListsOnce(order, S) ==
    /\ order \in Seq(S)
    /\ \A i, j \in 1 .. Len(order) : order[i] = order[j] => i = j
    /\ \A x \in S : \E i \in 1 .. Len(order) : order[i] = x

(* The order of a map has each of its accounts once. *)
LEMMA SetToSeqLists ==
  ASSUME NEW S, IsFiniteSet(S) PROVE ListsOnce(SetToSeq(S), S)
  <1> DEFINE n == Cardinality(S)
             order == SetToSeq(S)
  <1>1. n \in Nat /\ ExistsBijection(1 .. n, S)
    BY FS_CardinalityType
  <1>2. PICK f : f \in Bijection(1 .. n, S)
    BY <1>1 DEF ExistsBijection
  <1>3. f \in [1 .. n -> S] /\ IsInjective(f)
    BY <1>2 DEF Bijection, Injection
  <1>4. order \in [1 .. n -> S] /\ IsInjective(order)
    <2>1. order = CHOOSE g \in [1 .. n -> S] : IsInjective(g)
      BY DEF SetToSeq
    <2> HIDE DEF order, n
    <2>2. QED
      BY <1>3, <2>1
  <1>5. order \in Injection(1 .. n, S)
    BY <1>4 DEF Injection
  <1>6. order \in Surjection(1 .. n, S)
    <2>1. IsFiniteSet(1 .. n) /\ Cardinality(1 .. n) = n
      BY <1>1, FS_Interval
    <2> HIDE DEF order
    <2>2. QED
      BY <1>5, <2>1, FS_Injection
  <1> HIDE DEF order, n
  <1>7. order \in Seq(S) /\ Len(order) = n
    BY <1>1, <1>4
  <1>8. \A i, j \in 1 .. n : order[i] = order[j] => i = j
    BY <1>4 DEF IsInjective
  <1>9. \A x \in S : \E i \in 1 .. n : order[i] = x
    BY <1>6 DEF Surjection
  <1>10. QED
    BY <1>7, <1>8, <1>9 DEF ListsOnce, order

Destructing(os, d, last) ==
    /\ os \in Seq(Ops)
    /\ \A i \in 1 .. Len(os) : /\ os[i].index = last + i /\ os[i].related = -1
                               /\ os[i].type = "DESTRUCT" /\ os[i].acct \in DOMAIN d

LEMMA DestructOpsType ==
  ASSUME NEW d \in Holdings, IsFiniteSet(Account), NEW last \in Int
  PROVE  Destructing(destructOps(d, last), d, last)
  <1> DEFINE S == {acct \in DOMAIN d : d[acct] # 0}
             order == SetToSeq(S)
             os == destructOps(d, last)
  <1>1. DOMAIN d \subseteq Account /\ \A acct \in DOMAIN d : d[acct] \in Int
    BY HoldingsAre
  <1>2. IsFiniteSet(S)
    BY <1>1, FS_Subset
  <1>3. ListsOnce(order, S)
    BY <1>2, SetToSeqLists
  <1>4. os = [n \in DOMAIN order |-> Op(last + n, "DESTRUCT", order[n], -d[order[n]], TRUE, -1)]
    BY DEF destructOps
  <1>5. order \in Seq(S)
    BY <1>3 DEF ListsOnce
  <1>6. Len(order) \in Nat /\ DOMAIN order = 1 .. Len(order) /\ \A n \in 1 .. Len(order) : order[n] \in S
    <2> HIDE DEF S, order
    <2>1. QED
      BY <1>5
  <1> HIDE DEF os, order
  <1>7. ASSUME NEW n \in 1 .. Len(order)
        PROVE  /\ os[n] \in Ops /\ os[n].index = last + n /\ os[n].related = -1
               /\ os[n].type = "DESTRUCT" /\ os[n].acct \in DOMAIN d
    <2>1. os[n] = Op(last + n, "DESTRUCT", order[n], -d[order[n]], TRUE, -1)
      BY <1>4, <1>6
    <2>2. order[n] \in DOMAIN d /\ order[n] \in Account /\ -d[order[n]] \in Int /\ last + n \in Int
      BY <1>1, <1>6
    <2>3. QED
      BY <2>1, <2>2 DEF Op, Ops, OpType
  <1>8. os \in [1 .. Len(order) -> Ops]
    <2>1. os = [n \in 1 .. Len(order) |-> os[n]]
      BY <1>4, <1>6
    <2>2. QED
      BY <1>7, <2>1
  <1>9. os \in Seq(Ops) /\ Len(os) = Len(order)
    BY <1>6, <1>8
  <1>10. QED
    BY <1>7, <1>9 DEF Destructing, os

(* Each of them is left with nothing. *)
LEMMA DestructOpsApplied ==
  ASSUME NEW d \in Holdings, IsFiniteSet(Account), NEW last \in Int, NEW acct
  PROVE  Applied(destructOps(d, last), acct, FlareCurrency)
            = IF acct \in DOMAIN d THEN -d[acct] ELSE 0
  <1> DEFINE S == {a \in DOMAIN d : d[a] # 0}
             order == SetToSeq(S)
             os == destructOps(d, last)
             f == RunningTotal(Adding(os, acct, FlareCurrency))
             N == Len(order)
  <1>1. DOMAIN d \subseteq Account /\ \A a \in DOMAIN d : d[a] \in Int
    BY HoldingsAre
  <1>2. IsFiniteSet(S)
    BY <1>1, FS_Subset
  <1>3. ListsOnce(order, S)
    BY <1>2, SetToSeqLists
  <1>4. /\ order \in Seq(S) /\ \A i, j \in 1 .. N : order[i] = order[j] => i = j
        /\ \A x \in S : \E i \in 1 .. N : order[i] = x
    BY <1>3 DEF ListsOnce
  <1>5. N \in Nat /\ DOMAIN order = 1 .. N /\ \A n \in 1 .. N : order[n] \in S
    <2> HIDE DEF S, order
    <2>1. QED
      BY <1>4
  <1>6. os = [n \in DOMAIN order |-> Op(last + n, "DESTRUCT", order[n], -d[order[n]], TRUE, -1)]
    BY DEF destructOps
  <1>7. os \in Seq(Ops)
    BY DestructOpsType DEF Destructing
  <1> HIDE DEF os, order
  <1>8. Len(os) = N
    BY <1>5, <1>6, <1>7
  <1>9. /\ f \in [0 .. N -> Int] /\ f[0] = 0 /\ Applied(os, acct, FlareCurrency) = f[N]
        /\ \A n \in 1 .. N : f[n] = f[n - 1] + Adds(os[n], acct, FlareCurrency)
    <2>1. RunsTo(Adding(os, acct, FlareCurrency), f)
      BY <1>7, AddsType, TotalRuns
    <2>2. QED
      BY <1>7, <1>8, <2>1, AddsType DEF RunsTo, Applied, TotalOf
  <1> HIDE DEF f
  <1>10. ASSUME NEW n \in 1 .. N
         PROVE  f[n] = f[n - 1] + (IF order[n] = acct THEN -d[acct] ELSE 0)
    <2>1. os[n] = Op(last + n, "DESTRUCT", order[n], -d[order[n]], TRUE, -1)
      BY <1>5, <1>6
    <2>2. Adds(os[n], acct, FlareCurrency) = IF order[n] = acct THEN -d[acct] ELSE 0
      BY <2>1 DEF Adds, Op
    <2>3. QED
      BY <1>9, <2>2
  <1> DEFINE Upto == {n \in 0 .. N : f[n] = IF \E i \in 1 .. n : order[i] = acct THEN -d[acct] ELSE 0}
  <1>11. 0 \in Upto
    BY <1>5, <1>9
  <1>12. ASSUME NEW n \in 1 .. N, n - 1 \in Upto PROVE n \in Upto
    <2>1. f[n - 1] = IF \E i \in 1 .. n - 1 : order[i] = acct THEN -d[acct] ELSE 0
      BY <1>12
    <2>2. n \in 0 .. N
      BY <1>5
    <2>3. CASE order[n] = acct
      <3>1. ~ \E i \in 1 .. n - 1 : order[i] = acct
        <4>1. ASSUME NEW i \in 1 .. n - 1, order[i] = acct PROVE FALSE
          <5>1. i \in 1 .. N /\ i # n
            BY <1>5
          <5>2. QED
            BY <1>4, <2>3, <4>1, <5>1
        <4>2. QED
          BY <4>1
      <3>2. \E i \in 1 .. n : order[i] = acct
        <4>1. n \in 1 .. n
          BY <1>5
        <4>2. QED
          BY <2>3, <4>1
      <3>3. acct \in DOMAIN d
        BY <1>5, <2>3
      <3>4. -d[acct] \in Int
        BY <1>1, <3>3
      <3>5. f[n] = -d[acct]
        BY <1>10, <2>1, <2>3, <3>1, <3>4
      <3>6. QED
        BY <2>2, <3>2, <3>5
    <2>4. CASE order[n] # acct
      <3>1. (\E i \in 1 .. n : order[i] = acct) <=> (\E i \in 1 .. n - 1 : order[i] = acct)
        <4>1. ASSUME NEW i \in 1 .. n, order[i] = acct PROVE i \in 1 .. n - 1
          BY <1>5, <2>4, <4>1
        <4>2. \A i \in 1 .. n - 1 : i \in 1 .. n
          BY <1>5
        <4>3. QED
          BY <4>1, <4>2
      <3>2. f[n - 1] \in Int
        BY <1>5, <1>9
      <3>3. f[n] = f[n - 1]
        BY <1>10, <2>4, <3>2
      <3>4. QED
        BY <2>1, <2>2, <3>1, <3>3
    <2>5. QED
      BY <2>3, <2>4
  <1>13. \A n \in 0 .. N : n \in Upto
    <2> HIDE DEF Upto
    <2>1. QED
      BY <1>5, <1>11, <1>12, InductionUpTo
  <1>14. f[N] = IF \E i \in 1 .. N : order[i] = acct THEN -d[acct] ELSE 0
    BY <1>5, <1>13
  <1>15. (\E i \in 1 .. N : order[i] = acct) <=> acct \in S
    BY <1>4, <1>5
  <1>16. acct \in DOMAIN d /\ acct \notin S => 0 = -d[acct]
    <2> SUFFICES ASSUME acct \in DOMAIN d, acct \notin S PROVE 0 = -d[acct]
      OBVIOUS
    <2>1. d[acct] = 0
      OBVIOUS
    <2>2. \A x \in Int : x >= 0 /\ x <= 0 => 0 = -x
      OBVIOUS
    <2>3. d[acct] \in Int /\ d[acct] >= 0 /\ d[acct] <= 0
      BY <2>1
    <2>4. QED
      BY <2>2, <2>3, Zenon
  <1>17. f[N] = IF acct \in DOMAIN d THEN -d[acct] ELSE 0
    BY <1>14, <1>15, <1>16
  <1>18. QED
    BY <1>9, <1>17 DEF os

-----------------------------------------------------------------------------
(* Identifiers of operations *)

Numbered(os, start) ==
    \A i \in 1 .. Len(os) :
        /\ os[i].index = start + i - 1
        /\ os[i].related # -1 =>
              /\ os[i].related \in start .. os[i].index - 1
              /\ os[os[i].related - start + 1].val \in {-os[i].val, 0}

LEMMA NumberedConcat ==
  ASSUME NEW os \in Seq(Ops), NEW ps \in Seq(Ops), NEW start \in Nat,
         Numbered(os, start), Numbered(ps, start + Len(os))
  PROVE  Numbered(os \o ps, start)
  <1> DEFINE qs == os \o ps
             N == Len(os)
             K == Len(ps)
  <1>1. /\ Len(qs) = N + K /\ N \in Nat /\ K \in Nat
        /\ \A i \in 1 .. N : qs[i] = os[i]
        /\ \A i \in 1 .. K : qs[N + i] = ps[i]
    OBVIOUS
  <1>2. /\ \A i \in 1 .. N : os[i].index \in Int /\ os[i].related \in Int
        /\ \A i \in 1 .. K : ps[i].index \in Int /\ ps[i].related \in Int
    <2>1. (\A i \in 1 .. N : os[i] \in Ops) /\ (\A i \in 1 .. K : ps[i] \in Ops)
      OBVIOUS
    <2>2. QED
      BY <2>1 DEF Ops
  <1> HIDE DEF qs, N, K
  <1>3. SUFFICES ASSUME NEW i \in 1 .. N + K
        PROVE  /\ qs[i].index = start + i - 1
               /\ qs[i].related # -1 =>
                     /\ qs[i].related \in start .. qs[i].index - 1
                     /\ qs[qs[i].related - start + 1].val \in {-qs[i].val, 0}
    BY <1>1 DEF Numbered, qs
  <1>4. CASE i \in 1 .. N
    <2>1. qs[i] = os[i]
      BY <1>1, <1>4
    <2>2. /\ os[i].index = start + i - 1
          /\ os[i].related # -1 =>
                /\ os[i].related \in start .. os[i].index - 1
                /\ os[os[i].related - start + 1].val \in {-os[i].val, 0}
      BY <1>4 DEF Numbered, N
    <2>3. os[i].related # -1 => os[i].related - start + 1 \in 1 .. N
      <3>1. os[i].related # -1 => os[i].related \in start .. (start + i - 1) - 1
        BY <2>2
      <3>2. \A r \in start .. (start + i - 1) - 1 : r - start + 1 \in 1 .. N
        BY <1>1, <1>4
      <3>3. QED
        BY <3>1, <3>2
    <2>4. os[i].related # -1 => qs[os[i].related - start + 1] = os[os[i].related - start + 1]
      BY <1>1, <2>3
    <2>5. QED
      BY <2>1, <2>2, <2>4
  <1>5. CASE i \notin 1 .. N
    <2> DEFINE j == i - N
    <2>1. j \in 1 .. K /\ i = N + j
      BY <1>1, <1>5
    <2> HIDE DEF j
    <2>2. qs[i] = ps[j]
      BY <1>1, <2>1
    <2>3. /\ ps[j].index = start + N + j - 1
          /\ ps[j].related # -1 =>
                /\ ps[j].related \in start + N .. ps[j].index - 1
                /\ ps[ps[j].related - (start + N) + 1].val \in {-ps[j].val, 0}
      BY <2>1 DEF Numbered, N, K
    <2> DEFINE l == ps[j].related - (start + N) + 1
    <2>4. ps[j].related # -1 => l \in 1 .. K /\ ps[j].related - start + 1 = N + l
      <3>1. ps[j].related # -1 => ps[j].related \in start + N .. (start + N + j - 1) - 1
        BY <2>3
      <3>2. \A r \in start + N .. (start + N + j - 1) - 1 :
              r - (start + N) + 1 \in 1 .. K /\ r - start + 1 = N + (r - (start + N) + 1)
        BY <1>1, <2>1
      <3>3. QED
        BY <3>1, <3>2
    <2>5. ps[j].related # -1 => ps[l].val \in {-ps[j].val, 0}
      BY <2>3
    <2> HIDE DEF l
    <2>6. ps[j].related # -1 => qs[ps[j].related - start + 1] = ps[l]
      BY <1>1, <2>4
    <2>7. ps[j].related # -1 => ps[j].related \in start .. ps[j].index - 1
      BY <1>1, <1>2, <2>1, <2>3
    <2>8. qs[i].index = start + i - 1
      <3>1. start \in Int /\ N \in Int /\ j \in Int
        BY <1>1, <2>1
      <3>2. start + N + j - 1 = start + i - 1
        BY <2>1, <3>1
      <3>3. ps[j].index = start + N + j - 1
        BY <2>3
      <3>4. QED
        BY <2>2, <3>2, <3>3
    <2>9. CASE ps[j].related = -1
      BY <2>2, <2>8, <2>9
    <2>10. CASE ps[j].related # -1
      <3>1. qs[i].related = ps[j].related /\ qs[i].val = ps[j].val
        BY <2>2
      <3>2. qs[qs[i].related - start + 1].val \in {-qs[i].val, 0}
        BY <2>5, <2>6, <2>10, <3>1
      <3>3. qs[i].related \in start .. qs[i].index - 1
        BY <2>2, <2>7, <2>10
      <3>4. QED
        BY <2>8, <3>2, <3>3
    <2>11. QED
      BY <2>9, <2>10
  <1>6. QED
    BY <1>4, <1>5

LEMMA CallOpsNumbered ==
  ASSUME NEW call \in Calls, NEW index \in Nat
  PROVE  Numbered(callOps(call, index), index)
  <1> DEFINE value == IF fromInflation(call) THEN 0 ELSE -call.value
             from == Op(index, call.type, call.from, value, ~call.revert, -1)
             to == Op(index + 1, call.type, call.to, call.value, ~call.revert, index)
  <1>1. /\ from.index = index /\ from.related = -1 /\ from.val \in {-call.value, 0}
        /\ to.index = index + 1 /\ to.related = index /\ to.val = call.value
    BY DEF Op
  <1> HIDE DEF from, to
  <1>2. callOps(call, index) = <<>> \/ callOps(call, index) = <<from>>
        \/ callOps(call, index) = <<from, to>>
    BY DEF callOps, from, to
  <1>3. CASE callOps(call, index) = <<>>
    BY <1>3 DEF Numbered
  <1>4. CASE callOps(call, index) = <<from>>
    BY <1>1, <1>4 DEF Numbered
  <1>5. CASE callOps(call, index) = <<from, to>>
    <2> DEFINE os == <<from, to>>
    <2>1. Len(os) = 2 /\ os[1] = from /\ os[2] = to /\ (1 .. 2) = {1, 2}
      OBVIOUS
    <2> HIDE DEF os
    <2>2. os[1].index = index + 1 - 1 /\ os[1].related = -1
      BY <1>1, <2>1
    <2>3. os[2].index = index + 2 - 1 /\ os[2].related = index /\ index - index + 1 = 1
          /\ os[2].related \in index .. os[2].index - 1
      BY <1>1, <2>1
    <2>4. os[1].val \in {-os[2].val, 0}
      BY <1>1, <2>1
    <2>5. Numbered(os, index)
      BY <2>1, <2>2, <2>3, <2>4 DEF Numbered
    <2>6. QED
      BY <1>5, <2>5 DEF os
  <1>6. QED
    BY <1>2, <1>3, <1>4, <1>5

LEMMA OpsAfterNumbered ==
  ASSUME NEW cs \in Seq(Calls), NEW start \in Nat
  PROVE  \A n \in 0 .. Len(cs) : Numbered(opsAfter(cs, start)[n], start)
  <1> DEFINE g == opsAfter(cs, start)
             S == {n \in 0 .. Len(cs) : Numbered(g[n], start)}
  <1>1. OpsAfter(g, cs, start)
    BY OpsAfterSteps
  <1>2. Len(cs) \in Nat
    OBVIOUS
  <1> HIDE DEF g
  <1>3. 0 \in S
    BY <1>1, <1>2 DEF OpsAfter, Numbered
  <1>4. ASSUME NEW n \in 1 .. Len(cs), n - 1 \in S PROVE n \in S
    <2>1. n - 1 \in 0 .. Len(cs) /\ n \in 0 .. Len(cs) /\ cs[n] \in Calls /\ Numbered(g[n - 1], start)
      BY <1>4
    <2>2. g[n - 1] \in Seq(Ops)
      BY <1>1, <2>1 DEF OpsAfter
    <2>3. Len(g[n - 1]) + start \in Nat /\ Len(g[n - 1]) + start = start + Len(g[n - 1])
      BY <2>2
    <2> DEFINE ps == callOps(cs[n], Len(g[n - 1]) + start)
    <2>4. ps \in Seq(Ops) /\ Numbered(ps, start + Len(g[n - 1]))
      BY <2>1, <2>3, CallOpsType, CallOpsNumbered
    <2>5. g[n] = g[n - 1] \o ps
      BY <1>1 DEF OpsAfter
    <2> HIDE DEF ps
    <2>6. Numbered(g[n], start)
      BY <2>1, <2>2, <2>4, <2>5, NumberedConcat
    <2>7. QED
      BY <2>1, <2>6
  <1>5. \A n \in 0 .. Len(cs) : n \in S
    <2> HIDE DEF S
    <2>1. QED
      BY <1>2, <1>3, <1>4, InductionUpTo
  <1>6. QED
    BY <1>5 DEF g

LEMMA UpdateDomain ==
  ASSUME NEW d \in Holdings, NEW call \in Calls, call.type # "SELFDESTRUCT"
  PROVE  DOMAIN Update(d, call) \subseteq DOMAIN d
  <1>1. call.value \in Int /\ -call.value \in Int
    BY DEF Calls
  <1> DEFINE p == Paid(d, call)
             kept == IF call.type \in CreateType THEN DOMAIN p \ {call.to} ELSE DOMAIN p
             k == [acct \in kept |-> p[acct]]
  <1>2. p \in Holdings /\ DOMAIN p = DOMAIN d
    BY <1>1, NotesIs DEF Paid
  <1>3. Marked(p, call) = p /\ ~ToItself(call)
    BY DEF Marked, ToItself
  <1> HIDE DEF p
  <1>4. k \in Holdings
    <2>1. /\ k = [a \in DOMAIN k |-> k[a]] /\ DOMAIN k \subseteq Account
          /\ \A a \in DOMAIN k : k[a] \in Int
      BY <1>2, HoldingsAre
    <2> HIDE DEF k
    <2>2. QED
      BY <2>1, HoldingsAre
  <1>5. DOMAIN k \subseteq DOMAIN d
    BY <1>2
  <1>6. Update(d, call) = Notes(k, call.to, call.value, call)
    BY <1>3 DEF Update, Received, p
  <1> HIDE DEF k
  <1>7. DOMAIN Update(d, call) = DOMAIN k
    BY <1>1, <1>4, <1>6, NotesIs
  <1>8. QED
    BY <1>5, <1>7

(* Where there are no operations, nothing was destroyed. *)
LEMMA NoOpsNoneDestroyed ==
  ASSUME NEW cs \in Seq(Calls)
  PROVE  \A n \in 0 .. Len(cs) : opsAfter(cs, 2)[n] = <<>> => DOMAIN destroyedAfter(cs)[n] = {}
  <1> DEFINE g == opsAfter(cs, 2)
             d == destroyedAfter(cs)
             S == {n \in 0 .. Len(cs) : g[n] = <<>> => DOMAIN d[n] = {}}
  <1>1. OpsAfter(g, cs, 2) /\ Destroying(d, cs)
    BY OpsAfterSteps, DestroyedAfterSteps
  <1>2. Len(cs) \in Nat
    OBVIOUS
  <1> HIDE DEF g, d
  <1>3. 0 \in S
    BY <1>1, <1>2, NobodyIs DEF Destroying
  <1>4. ASSUME NEW n \in 1 .. Len(cs), n - 1 \in S PROVE n \in S
    <2> SUFFICES ASSUME g[n] = <<>> PROVE DOMAIN d[n] = {}
      BY <1>2
    <2>1. n - 1 \in 0 .. Len(cs) /\ cs[n] \in Calls
      OBVIOUS
    <2>2. g[n - 1] \in Seq(Ops) /\ d[n - 1] \in Holdings
      BY <1>1, <2>1 DEF OpsAfter, Destroying
    <2> DEFINE ps == callOps(cs[n], Len(g[n - 1]) + 2)
    <2>3. g[n] = g[n - 1] \o ps
      BY <1>1 DEF OpsAfter
    <2>4. ps \in Seq(Ops)
      <3>1. Len(g[n - 1]) + 2 \in Nat
        BY <2>2
      <3>2. QED
        BY <2>1, <3>1, CallOpsType
    <2>5. Len(g[n - 1]) = 0 /\ Len(ps) = 0
      <3> HIDE DEF ps
      <3>1. Len(g[n - 1] \o ps) = Len(g[n - 1]) + Len(ps)
        BY <2>2, <2>4
      <3>2. Len(g[n - 1]) \in Nat /\ Len(ps) \in Nat
        BY <2>2, <2>4
      <3>3. Len(g[n - 1] \o ps) = 0
        BY <2>3
      <3>4. QED
        BY <3>1, <3>2, <3>3
    <2>6. g[n - 1] = <<>>
      BY <2>2, <2>5
    <2>7. DOMAIN d[n - 1] = {}
      BY <1>4, <2>6
    <2>8. cs[n].type # "SELFDESTRUCT"
      <3> SUFFICES ASSUME cs[n].type = "SELFDESTRUCT" PROVE FALSE
        OBVIOUS
      <3>1. shouldAdd(cs[n])
        BY DEF shouldAdd, CallType
      <3> DEFINE index == Len(g[n - 1]) + 2
                 value == IF fromInflation(cs[n]) THEN 0 ELSE -cs[n].value
                 from == Op(index, cs[n].type, cs[n].from, value, ~cs[n].revert, -1)
                 to == Op(index + 1, cs[n].type, cs[n].to, cs[n].value, ~cs[n].revert, index)
      <3>2. ps = <<from>> \/ ps = <<from, to>>
        BY <3>1 DEF callOps
      <3> HIDE DEF ps, from, to
      <3>3. QED
        BY <2>5, <3>2
    <2>9. d[n] = Update(d[n - 1], cs[n])
      BY <1>1 DEF Destroying
    <2>10. DOMAIN d[n] \subseteq DOMAIN d[n - 1]
      BY <2>1, <2>2, <2>8, <2>9, UpdateDomain
    <2>11. QED
      BY <2>7, <2>10
  <1>5. \A n \in 0 .. Len(cs) : n \in S
    <2> HIDE DEF S
    <2>1. QED
      BY <1>2, <1>3, <1>4, InductionUpTo
  <1>6. QED
    BY <1>5 DEF g, d

TakenAway(d, acct) == IF acct \in DOMAIN d THEN -d[acct] ELSE 0

LEMMA TakenAwayType ==
  ASSUME NEW d \in Holdings, NEW acct PROVE TakenAway(d, acct) \in Int
  BY HoldingsAre DEF TakenAway

Traces(os, cs) ==
    /\ os \in Seq(Ops) /\ Numbered(os, 2)
    /\ \A acct : Applied(os, acct, FlareCurrency)
                    = Effect(cs, Len(cs), acct) + TakenAway(destroyedAccounts(cs), acct)

LEMMA TraceOps ==
  ASSUME NEW cs \in Seq(Calls), IsFiniteSet(Account)
  PROVE  Traces(traceOps(cs, 2), cs) /\ destroyedAccounts(cs) \in Holdings
  <1> DEFINE os == opsAfter(cs, 2)[Len(cs)]
             d == destroyedAccounts(cs)
             last == LastIndex(os)
             ps == destructOps(d, last)
  <1>1. Len(cs) \in 0 .. Len(cs)
    OBVIOUS
  <1>2. os \in Seq(Ops) /\ Numbered(os, 2)
    BY <1>1, OpsAfterSteps, OpsAfterNumbered DEF OpsAfter
  <1>3. d \in Holdings
    BY <1>1, DestroyedAfterSteps DEF destroyedAccounts, Destroying
  <1>4. \A acct : Applied(os, acct, FlareCurrency) = Effect(cs, Len(cs), acct)
    BY DEF Effect
  <1>5. \A acct : Effect(cs, Len(cs), acct) \in Int
    BY <1>1, EffectSteps
  <1>6. os = <<>> => DOMAIN d = {}
    BY <1>1, NoOpsNoneDestroyed DEF destroyedAccounts
  <1>7. traceOps(cs, 2) = IF os = <<>> THEN <<>> ELSE os \o ps
    BY DEF traceOps
  <1> HIDE DEF os, d
  <1>8. CASE os = <<>>
    <2>1. \A acct : TakenAway(d, acct) = 0
      BY <1>6, <1>8 DEF TakenAway
    <2>2. \A acct : Applied(os, acct, FlareCurrency)
                        = Effect(cs, Len(cs), acct) + TakenAway(d, acct)
      BY <1>4, <1>5, <2>1
    <2>3. traceOps(cs, 2) = os
      BY <1>7, <1>8
    <2>4. QED
      BY <1>2, <1>3, <2>2, <2>3 DEF Traces, d
  <1>9. CASE os # <<>>
    <2>1. Len(os) \in 1 .. Len(os) /\ Len(os) \in Nat
      BY <1>2, <1>9
    <2>2. last = Len(os) + 1
      BY <1>2, <2>1 DEF Numbered, LastIndex
    <2> HIDE DEF last
    <2>3. Destructing(ps, d, last)
      BY <1>3, <2>1, <2>2, DestructOpsType
    <2>4. \A acct : Applied(ps, acct, FlareCurrency) = TakenAway(d, acct)
      BY <1>3, <2>1, <2>2, DestructOpsApplied DEF TakenAway
    <2> HIDE DEF ps
    <2>5. ps \in Seq(Ops)
      BY <2>3 DEF Destructing
    <2>6. Numbered(ps, 2 + Len(os))
      <3>1. ASSUME NEW i \in 1 .. Len(ps)
            PROVE  ps[i].index = (2 + Len(os)) + i - 1 /\ ps[i].related = -1
        <4>1. i \in Int
          OBVIOUS
        <4>2. QED
          BY <2>1, <2>2, <2>3, <4>1 DEF Destructing
      <3>2. QED
        BY <3>1 DEF Numbered
    <2>7. os \o ps \in Seq(Ops) /\ Numbered(os \o ps, 2)
      BY <1>2, <2>5, <2>6, NumberedConcat
    <2>8. \A acct : Applied(os \o ps, acct, FlareCurrency)
                        = Effect(cs, Len(cs), acct) + TakenAway(d, acct)
      BY <1>2, <1>4, <2>4, <2>5, AppliedConcat
    <2>9. traceOps(cs, 2) = os \o ps
      BY <1>7, <1>9
    <2>10. QED
      BY <1>3, <2>7, <2>8, <2>9 DEF Traces, d
  <1>10. QED
    BY <1>8, <1>9

Charges(acct, from, fee) ==
    (IF acct = from THEN -fee ELSE 0) + (IF acct = burnAddress THEN fee ELSE 0)

Natives(os, t, fee, cs) ==
    /\ os \in Seq(Ops) /\ Numbered(os, 0)
    /\ \A acct : Applied(os, acct, FlareCurrency)
                    = Charges(acct, t.from, fee)
                      + (Effect(cs, Len(cs), acct) + TakenAway(destroyedAccounts(cs), acct))

(* The operations of a transaction: the fee, and then those of its trace. *)
LEMMA NativeOpsAre ==
  ASSUME NEW cs \in Seq(Calls), IsFiniteSet(Account), NEW t, t.from \in Account, NEW fee \in Nat
  PROVE  Natives(NativeOps(t, fee, cs), t, fee, cs)
  <1> DEFINE o == Op(0, "FEE", t.from, -fee, TRUE, -1)
             p == Op(1, "FEE", burnAddress, fee, TRUE, 0)
             os == feeOps(t.from, fee)
             ps == traceOps(cs, 2)
  <1>1. Traces(ps, cs) /\ destroyedAccounts(cs) \in Holdings
    BY TraceOps
  <1>2. burnAddress \in Account
    BY DEF Account
  <1>3. o \in Ops /\ p \in Ops
    BY <1>2 DEF Op, Ops, OpType
  <1>4. \A acct : /\ Adds(o, acct, FlareCurrency) = IF acct = t.from THEN -fee ELSE 0
                  /\ Adds(p, acct, FlareCurrency) = IF acct = burnAddress THEN fee ELSE 0
    BY DEF Adds, Op
  <1>5. /\ o.index = 0 /\ o.related = -1 /\ o.val = -fee
        /\ p.index = 1 /\ p.related = 0 /\ p.val = fee
    BY DEF Op
  <1>6. os = <<o, p>>
    BY DEF feeOps
  <1> HIDE DEF o, p, ps
  <1>7. \A acct : Applied(os, acct, FlareCurrency) = Charges(acct, t.from, fee)
    BY <1>3, <1>4, <1>6, AppliedTwo DEF Charges
  <1>8. os \in Seq(Ops) /\ Len(os) = 2 /\ os[1] = o /\ os[2] = p
    BY <1>3, <1>6
  <1> HIDE DEF os
  <1>9. Numbered(os, 0)
    <2>1. ASSUME NEW i \in 1 .. Len(os)
          PROVE  /\ os[i].index = 0 + i - 1
                 /\ os[i].related # -1 =>
                       /\ os[i].related \in 0 .. os[i].index - 1
                       /\ os[os[i].related - 0 + 1].val \in {-os[i].val, 0}
      <3>1. i = 1 \/ i = 2
        BY <1>8
      <3>2. CASE i = 1
        BY <1>5, <1>8, <3>2
      <3>3. CASE i = 2
        <4>1. os[i].related - 0 + 1 = 1 /\ os[i].val = fee
          BY <1>5, <1>8, <3>3
        <4>2. QED
          BY <1>5, <1>8, <3>3, <4>1
      <3>4. QED
        BY <3>1, <3>2, <3>3
    <2>2. QED
      BY <2>1 DEF Numbered
  <1>10. ps \in Seq(Ops) /\ Numbered(ps, 0 + Len(os))
    BY <1>1, <1>8 DEF Traces
  <1>11. os \o ps \in Seq(Ops) /\ Numbered(os \o ps, 0)
    <2>1. 0 \in Nat
      OBVIOUS
    <2>2. Numbered(os \o ps, 0)
      BY <1>8, <1>9, <1>10, <2>1, NumberedConcat
    <2>3. QED
      BY <1>8, <1>10, <2>2
  <1>12. \A acct : Applied(os \o ps, acct, FlareCurrency)
                    = Charges(acct, t.from, fee)
                      + (Effect(cs, Len(cs), acct) + TakenAway(destroyedAccounts(cs), acct))
    BY <1>1, <1>7, <1>8, <1>10, AppliedConcat DEF Traces
  <1>13. NativeOps(t, fee, cs) = os \o ps
    BY DEF NativeOps, os, ps
  <1>14. QED
    BY <1>11, <1>12, <1>13 DEF Natives

-----------------------------------------------------------------------------
(* What holds while a transaction runs: of the EVM's current state after   *)
(* all calls of the trace, and of the state that the failure of a running  *)
(* call would bring back after the calls before it.  cs is what Call.init  *)
(* makes of the trace, k how many of its calls S is the state after, and b *)
(* what the accounts had when the fee was taken.                           *)

Has(S) == S.code \cup S.created
Current == [bal |-> bal, code |-> code, created |-> created, destroyed |-> destroyed]
StartOf(b, t) == [b EXCEPT ![t.from] = @ - Fee]
start == StartOf(before, tx)

Placed(S) ==
    /\ S \in Saved
    /\ S.code \subseteq Contracts \cup Fresh /\ S.created \subseteq Fresh
    /\ S.destroyed \subseteq Has(S)
    /\ Cancun => S.destroyed \subseteq S.created

(* What destroyed itself is removed, or stays as it did not begin in this  *)
(* transaction.                                                            *)
Lasting(cs, k, S) ==
    \A i \in 1 .. k : cs[i].type = "SELFDESTRUCT" /\ ~cs[i].revert =>
        cs[i].from \in S.destroyed \/ (Cancun /\ cs[i].from \in S.code \ S.created)

TookEffect(cs, k, S) ==
    \A i \in 1 .. k :
        /\ cs[i].type = "SELFDESTRUCT" => ~cs[i].revert /\ cs[i].from \in S.destroyed
        /\ cs[i].type \in {"CALLCODE", "DELEGATECALL"} => cs[i].value = 0

Accounted(cs, k, S, b) == \A acct \in Account : S.bal[acct] = b[acct] + Effect(cs, k, acct)

Held(cs, k, S) ==
    /\ DOMAIN destroyedAfter(cs)[k] = S.destroyed
    /\ \A acct \in S.destroyed : destroyedAfter(cs)[k][acct] = S.bal[acct]

Follows(cs, k, S, b) ==
    /\ Placed(S)
    /\ Lasting(cs, k, S)
    /\ TookEffect(cs, k, S) => Accounted(cs, k, S, b) /\ Held(cs, k, S)

FrameType == [self : Contracts \cup Fresh, runs : Target, call : Nat, saved : Saved]

Framed(f, t, b) ==
    /\ f.call \in 1 .. Len(t) /\ ~Reverts(t)[f.call]
    /\ \A i \in f.call + 1 .. Len(t) : t[i].parent >= f.call
    /\ \A i \in f.call .. Len(t) : t[i].type = "CREATE" => t[i].to \notin f.saved.destroyed
    /\ Follows(init(t), f.call - 1, f.saved, b)

(* What runs has code, or is being created; outer calls began earlier.     *)
Nested(st, S) ==
    \A i \in 1 .. Len(st) :
        /\ st[i].self \in Has(S) /\ Has(st[i].saved) \subseteq Has(S)
        /\ \A j \in i + 1 .. Len(st) :
              /\ st[j].self \in Has(st[i].saved)
              /\ Has(st[j].saved) \subseteq Has(st[i].saved)
              /\ st[j].call < st[i].call

Stacked(st, t, S, b) ==
    /\ st \in Seq(FrameType)
    /\ \A i \in 1 .. Len(st) : Framed(st[i], t, b)
    /\ Nested(st, S)

Running ==
    /\ tx.from \in Users
    /\ Follows(init(trace), Len(trace), Current, start)
    /\ Stacked(stack, trace, Current, start)

Typed ==
    /\ bal \in [Account -> Nat] /\ before \in [Account -> Nat]
    /\ code \subseteq Contracts \cup Fresh /\ created \subseteq Fresh /\ destroyed \subseteq Account
    /\ phase \in {"idle", "running", "mined"}
    /\ tx \in [from : Account, to : Account, lowGas : BOOLEAN, success : BOOLEAN]
    /\ Rooted(trace)
    /\ txs \in 0 .. MaxTxs

InAccounts == phase = "mined" => \A done \in {ops} : \A i \in DOMAIN done : done[i].acct \in Account

IInv ==
    /\ Typed
    /\ phase = "idle" => created = {} /\ destroyed = {} /\ stack = <<>> /\ trace = <<>>
    /\ phase = "running" => Running
    /\ phase = "mined" => stack = <<>>
    /\ ReplayMatchesEVM /\ NeverFatal /\ OperationsNumbered /\ InAccounts

-----------------------------------------------------------------------------
(* What a call leads to *)

Removed(call, S) == ~Cancun \/ call.from \in S.created

Leads(call, S, T) ==
    /\ ~call.revert
    /\ T.code = S.code /\ S.created \subseteq T.created
    /\ T.created \cap S.code \subseteq S.created
    /\ call.type = "CREATE" => call.to \notin S.destroyed
    /\ call.type # "SELFDESTRUCT" => T.destroyed = S.destroyed
    /\ call.type = "SELFDESTRUCT" =>
          /\ ~fromInflation(call) /\ call.from \in Has(S) /\ T.created = S.created
          /\ T.destroyed = S.destroyed \cup (IF Removed(call, S) THEN {call.from} ELSE {})
          /\ Removed(call, S) => T.bal[call.from] = 0
    /\ \/ call.type \in {"CALLCODE", "DELEGATECALL"} /\ call.value # 0
       \/ call.type = "SELFDESTRUCT" /\ ~Removed(call, S)
       \/ \A acct \in Account : T.bal[acct] = S.bal[acct] + Moved(call, acct)

LEMMA DestroysKept ==
  ASSUME NEW cs, NEW n \in Nat \ {0}, NEW S, NEW T, Lasting(cs, n - 1, S), Leads(cs[n], S, T)
  PROVE  Lasting(cs, n, T)
  <1>1. SUFFICES ASSUME NEW i \in 1 .. n, cs[i].type = "SELFDESTRUCT", ~cs[i].revert
                 PROVE  cs[i].from \in T.destroyed \/ (Cancun /\ cs[i].from \in T.code \ T.created)
    BY DEF Lasting
  <1>2. CASE i = n
    <2>1. CASE Removed(cs[n], S)
      BY <1>1, <1>2, <2>1 DEF Leads
    <2>2. CASE ~Removed(cs[n], S)
      BY <1>1, <1>2, <2>2 DEF Leads, Removed, Has
    <2>3. QED
      BY <2>1, <2>2
  <1>3. CASE i \in 1 .. n - 1
    <2>1. cs[i].from \in S.destroyed \/ (Cancun /\ cs[i].from \in S.code \ S.created)
      BY <1>1, <1>3 DEF Lasting
    <2>2. S.destroyed \subseteq T.destroyed
      BY DEF Leads
    <2>3. cs[i].from \in S.code \ S.created => cs[i].from \in T.code \ T.created
      BY DEF Leads
    <2>4. QED
      BY <2>1, <2>2, <2>3
  <1>4. QED
    BY <1>2, <1>3

LEMMA TookEffectBefore ==
  ASSUME NEW cs, NEW n \in Nat \ {0}, NEW S, NEW T, Lasting(cs, n - 1, S), Leads(cs[n], S, T),
         TookEffect(cs, n, T)
  PROVE  TookEffect(cs, n - 1, S)
  <1>1. SUFFICES ASSUME NEW i \in 1 .. n - 1
                 PROVE  /\ cs[i].type = "SELFDESTRUCT" => ~cs[i].revert /\ cs[i].from \in S.destroyed
                        /\ cs[i].type \in {"CALLCODE", "DELEGATECALL"} => cs[i].value = 0
    BY DEF TookEffect
  <1>2. i \in 1 .. n
    OBVIOUS
  <1>3. cs[i].type \in {"CALLCODE", "DELEGATECALL"} => cs[i].value = 0
    BY <1>2 DEF TookEffect
  <1>4. ASSUME cs[i].type = "SELFDESTRUCT" PROVE ~cs[i].revert /\ cs[i].from \in S.destroyed
    <2>1. ~cs[i].revert /\ cs[i].from \in T.destroyed
      BY <1>2, <1>4 DEF TookEffect
    <2>2. cs[i].from \in S.destroyed \/ (Cancun /\ cs[i].from \in S.code \ S.created)
      BY <1>4, <2>1 DEF Lasting
    <2>3. cs[i].from \in S.destroyed \/ (cs[i].from = cs[n].from /\ Removed(cs[n], S))
      BY <2>1 DEF Leads
    <2>4. QED
      BY <2>1, <2>2, <2>3 DEF Removed
  <1>5. QED
    BY <1>3, <1>4

LEMMA FollowsCall ==
  ASSUME NEW cs \in Seq(Calls), NEW n \in 1 .. Len(cs), NEW b \in [Account -> Int], NEW S, NEW T,
         Follows(cs, n - 1, S, b), Leads(cs[n], S, T), Placed(T)
  PROVE  Follows(cs, n, T, b)
  <1> DEFINE call == cs[n]
             d == destroyedAfter(cs)
  <1>1. n \in Nat \ {0} /\ n - 1 \in 0 .. Len(cs) /\ call \in Calls
    OBVIOUS
  <1>2. Placed(S) /\ Lasting(cs, n - 1, S)
    BY DEF Follows
  <1>3. Lasting(cs, n, T)
    BY <1>1, <1>2, DestroysKept
  <1>4. SUFFICES ASSUME TookEffect(cs, n, T) PROVE Accounted(cs, n, T, b) /\ Held(cs, n, T)
    BY <1>3 DEF Follows
  <1>5. TookEffect(cs, n - 1, S)
    BY <1>1, <1>2, <1>4, TookEffectBefore
  <1>6. Accounted(cs, n - 1, S, b) /\ Held(cs, n - 1, S)
    BY <1>5 DEF Follows
  <1>7. call.type = "SELFDESTRUCT" => Removed(call, S)
    <2> SUFFICES ASSUME call.type = "SELFDESTRUCT", ~Removed(call, S) PROVE FALSE
      OBVIOUS
    <2>1. call.from \in T.destroyed
      BY <1>4 DEF TookEffect
    <2>2. call.from \in S.destroyed
      BY <2>1 DEF Leads
    <2>3. QED
      BY <1>2, <2>2 DEF Placed, Removed
  <1>8. call.type \in {"CALLCODE", "DELEGATECALL"} => call.value = 0
    BY <1>4 DEF TookEffect
  <1>9. \A acct \in Account : T.bal[acct] = S.bal[acct] + Moved(call, acct)
    BY <1>7, <1>8 DEF Leads
  <1>10. ~call.revert
    BY DEF Leads
  <1>11. \A acct \in Account : S.bal[acct] \in Int
    BY <1>2 DEF Placed, Saved
  <1>12. Accounted(cs, n, T, b)
    <2>1. ASSUME NEW acct \in Account PROVE T.bal[acct] = b[acct] + Effect(cs, n, acct)
      <3>1. Effect(cs, n, acct) = Effect(cs, n - 1, acct) + Counted(call, acct)
        BY EffectSteps
      <3>2. Counted(call, acct) = Moved(call, acct) /\ Moved(call, acct) \in Int
        BY <1>1, <1>10, CountedType DEF Counted
      <3>3. Effect(cs, n - 1, acct) \in Int
        BY <1>1, EffectSteps
      <3>4. S.bal[acct] = b[acct] + Effect(cs, n - 1, acct) /\ b[acct] \in Int
        BY <1>6 DEF Accounted
      <3> HIDE DEF call
      <3>5. T.bal[acct] = S.bal[acct] + Moved(call, acct)
        BY <1>9
      <3>6. QED
        BY <3>1, <3>2, <3>3, <3>4, <3>5
    <2>2. QED
      BY <2>1 DEF Accounted
  <1>13. Held(cs, n, T)
    <2>1. Destroying(d, cs)
      BY DestroyedAfterSteps
    <2>2. DOMAIN d[n - 1] = S.destroyed /\ \A acct \in S.destroyed : d[n - 1][acct] = S.bal[acct]
      BY <1>6 DEF Held
    <2> HIDE DEF d, call
    <2>3. d[n - 1] \in Holdings
      BY <1>1, <2>1 DEF Destroying
    <2>4. d[n] = Update(d[n - 1], call)
      BY <2>1 DEF Destroying, call
    <2>5. call.type = "CREATE" => call.to \notin DOMAIN d[n - 1]
      BY <2>2 DEF Leads, call
    <2>6. call.type = "SELFDESTRUCT" => ~fromInflation(call)
      BY DEF Leads, call
    <2>7. /\ DOMAIN d[n] = DOMAIN d[n - 1] \cup (IF call.type = "SELFDESTRUCT" THEN {call.from} ELSE {})
          /\ \A a \in DOMAIN d[n] : d[n][a]
                = IF call.type = "SELFDESTRUCT" /\ a = call.from THEN 0 ELSE d[n - 1][a] + Moved(call, a)
      <3> DEFINE e == d[n - 1]
      <3>1. e \in Holdings /\ call \in Calls /\ ~call.revert
        BY <1>1, <1>10, <2>3 DEF call
      <3>2. call.type = "CREATE" => call.to \notin DOMAIN e
        BY <2>5
      <3> HIDE DEF e
      <3>3. /\ DOMAIN Update(e, call)
                 = DOMAIN e \cup (IF call.type = "SELFDESTRUCT" THEN {call.from} ELSE {})
            /\ \A a \in DOMAIN Update(e, call) : Update(e, call)[a]
                = IF call.type = "SELFDESTRUCT" /\ a = call.from THEN 0 ELSE e[a] + Moved(call, a)
        BY <2>6, <3>1, <3>2, UpdateMoves
      <3>4. QED
        BY <2>4, <3>3 DEF e
    <2>8. T.destroyed = S.destroyed \cup (IF call.type = "SELFDESTRUCT" THEN {call.from} ELSE {})
      BY <1>7 DEF Leads, call
    <2>9. DOMAIN d[n] = T.destroyed
      BY <2>2, <2>7, <2>8
    <2>10. ASSUME NEW a \in T.destroyed PROVE d[n][a] = T.bal[a]
      <3>1. CASE call.type = "SELFDESTRUCT" /\ a = call.from
        <4>1. d[n][a] = 0
          BY <2>7, <2>9, <3>1
        <4>2. T.bal[a] = 0
          BY <1>7, <3>1 DEF Leads, call
        <4>3. QED
          BY <4>1, <4>2
      <3>2. CASE ~(call.type = "SELFDESTRUCT" /\ a = call.from)
        <4>1. d[n][a] = d[n - 1][a] + Moved(call, a)
          BY <2>7, <2>9, <3>2
        <4>2. a \in S.destroyed
          BY <2>8, <3>2
        <4>3. a \in Account
          BY <2>3, <2>2, <4>2, HoldingsAre
        <4>4. QED
          BY <1>9, <2>2, <4>1, <4>2, <4>3
      <3>3. QED
        BY <3>1, <3>2
    <2>11. QED
      BY <2>9, <2>10 DEF Held, d
  <1>14. QED
    BY <1>12, <1>13

LEMMA FollowsAlike ==
  ASSUME NEW cs \in Seq(Calls), NEW ds \in Seq(Calls), NEW k \in Nat, Alike(cs, ds, k),
         NEW S, NEW b, Follows(cs, k, S, b)
  PROVE  Follows(ds, k, S, b)
  <1>1. \A i \in 1 .. k : cs[i] = ds[i]
    BY DEF Alike
  <1>2. Placed(S) /\ Lasting(cs, k, S)
    BY DEF Follows
  <1>3. Lasting(ds, k, S)
    BY <1>1, <1>2 DEF Lasting
  <1>4. ASSUME TookEffect(ds, k, S) PROVE Accounted(ds, k, S, b) /\ Held(ds, k, S)
    <2>1. TookEffect(cs, k, S)
      BY <1>1, <1>4 DEF TookEffect
    <2>2. Accounted(cs, k, S, b) /\ Held(cs, k, S)
      BY <2>1 DEF Follows
    <2>3. \A acct \in Account : Effect(cs, k, acct) = Effect(ds, k, acct)
      BY EffectAlike
    <2>4. destroyedAfter(cs)[k] = destroyedAfter(ds)[k]
      BY DestroyedAlike
    <2>5. QED
      BY <2>2, <2>3, <2>4 DEF Accounted, Held
  <1>5. QED
    BY <1>2, <1>3, <1>4 DEF Follows

(* Calls that were reverted lead nowhere. *)
LEMMA FollowsReverted ==
  ASSUME NEW cs \in Seq(Calls), NEW c \in 1 .. Len(cs), NEW S, NEW b \in [Account -> Int],
         Follows(cs, c - 1, S, b),
         \A i \in c .. Len(cs) : cs[i].revert /\ (cs[i].type = "CREATE" => cs[i].to \notin S.destroyed)
  PROVE  Follows(cs, Len(cs), S, b)
  <1> DEFINE N == Len(cs)
             d == destroyedAfter(cs)
             Q == {n \in 0 .. N : n >= c - 1 => Follows(cs, n, S, b)}
  <1>1. N \in Nat /\ \A n \in 1 .. N : cs[n] \in Calls
    OBVIOUS
  <1>2. Destroying(d, cs)
    BY DestroyedAfterSteps
  <1> HIDE DEF N, d
  <1>3. 0 \in Q
    <2>1. 0 >= c - 1 => c - 1 = 0
      BY DEF N
    <2>2. QED
      BY <1>1, <2>1
  <1>4. ASSUME NEW n \in 1 .. N, n - 1 \in Q PROVE n \in Q
    <2>1. n \in 0 .. N /\ n - 1 \in 0 .. N /\ cs[n] \in Calls
      BY <1>1
    <2>2. SUFFICES ASSUME n >= c - 1 PROVE Follows(cs, n, S, b)
      BY <2>1
    <2>3. CASE n = c - 1
      BY <2>3
    <2>4. CASE n # c - 1
      <3>1. n - 1 >= c - 1 /\ n \in c .. N
        BY <1>1, <2>2, <2>4 DEF N
      <3>2. Follows(cs, n - 1, S, b)
        BY <1>4, <3>1
      <3>3. cs[n].revert /\ (cs[n].type = "CREATE" => cs[n].to \notin S.destroyed)
        BY <3>1 DEF N
      <3>4. Placed(S) /\ Lasting(cs, n - 1, S)
        BY <3>2 DEF Follows
      <3>5. \A i \in 1 .. n : i = n \/ i \in 1 .. n - 1
        OBVIOUS
      <3>6. Lasting(cs, n, S)
        BY <3>3, <3>4, <3>5 DEF Lasting
      <3>7. ASSUME TookEffect(cs, n, S) PROVE Accounted(cs, n, S, b) /\ Held(cs, n, S)
        <4>1. TookEffect(cs, n - 1, S)
          <5>1. \A i \in 1 .. n - 1 : i \in 1 .. n
            OBVIOUS
          <5>2. QED
            BY <3>7, <5>1 DEF TookEffect
        <4>2. Accounted(cs, n - 1, S, b) /\ Held(cs, n - 1, S)
          BY <3>2, <4>1 DEF Follows
        <4>3. cs[n].type # "SELFDESTRUCT"
          <5>1. n \in 1 .. n
            BY <1>1
          <5>2. QED
            BY <3>3, <3>7, <5>1 DEF TookEffect
        <4>4. Accounted(cs, n, S, b)
          <5>1. ASSUME NEW acct \in Account PROVE Effect(cs, n, acct) = Effect(cs, n - 1, acct)
            <6>1. Effect(cs, n, acct) = Effect(cs, n - 1, acct) + Counted(cs[n], acct)
              BY EffectSteps DEF N
            <6>2. Counted(cs[n], acct) = 0
              BY <3>3 DEF Counted
            <6>3. Effect(cs, n - 1, acct) \in Int
              BY <2>1, EffectSteps DEF N
            <6>4. QED
              BY <6>1, <6>2, <6>3
          <5>2. QED
            BY <4>2, <5>1 DEF Accounted
        <4>5. Held(cs, n, S)
          <5>1. DOMAIN d[n - 1] = S.destroyed
            BY <4>2 DEF Held, d
          <5>2. d[n] = Update(d[n - 1], cs[n]) /\ d[n - 1] \in Holdings
            BY <1>2, <2>1 DEF Destroying, N
          <5>3. d[n] = d[n - 1]
            BY <2>1, <3>3, <4>3, <5>1, <5>2, UpdateReverted
          <5>4. QED
            BY <4>2, <5>3 DEF Held, d
        <4>6. QED
          BY <4>4, <4>5
      <3>8. QED
        BY <3>4, <3>6, <3>7 DEF Follows
    <2>5. QED
      BY <2>3, <2>4
  <1>5. \A n \in 0 .. N : n \in Q
    <2> HIDE DEF Q
    <2>1. QED
      BY <1>1, <1>3, <1>4, InductionUpTo
  <1>6. N \in 0 .. N /\ N >= c - 1
    BY <1>1 DEF N
  <1>7. Follows(cs, N, S, b)
    BY <1>5, <1>6
  <1>8. QED
    BY <1>7 DEF N

(* Before the first call nothing has happened. *)
LEMMA FollowsNothing ==
  ASSUME NEW cs \in Seq(Calls), NEW S, NEW b \in [Account -> Int], Placed(S), S.bal = b, S.destroyed = {}
  PROVE  Follows(cs, 0, S, b)
  <1>1. Lasting(cs, 0, S)
    BY DEF Lasting
  <1>2. Accounted(cs, 0, S, b)
    <2>1. ASSUME NEW acct \in Account PROVE S.bal[acct] = b[acct] + Effect(cs, 0, acct)
      <3>1. b[acct] \in Int /\ Effect(cs, 0, acct) = 0
        BY EffectSteps
      <3>2. QED
        BY <3>1
    <2>2. QED
      BY <2>1 DEF Accounted
  <1>3. Held(cs, 0, S)
    <2>1. destroyedAfter(cs)[0] = Nobody
      BY DestroyedAfterSteps DEF Destroying
    <2>2. QED
      BY <2>1, NobodyIs DEF Held
  <1>4. QED
    BY <1>1, <1>2, <1>3 DEF Follows

-----------------------------------------------------------------------------
(* What a step makes of the trace and of the calls that are running *)

Longer(t, u, call) ==
    /\ Rooted(u) /\ Len(u) = Len(t) + 1 /\ Len(t) \in Nat /\ u[Len(u)] = call
    /\ Alike(t, u, Len(t))
    /\ \A i \in 1 .. Len(t) : u[i] = t[i] /\ Reverts(u)[i] = Reverts(t)[i]
    /\ call.parent = 0 \/ ~Reverts(t)[call.parent] => ~Reverts(u)[Len(u)]

LEMMA TracedLonger ==
  ASSUME NEW t, Rooted(t), NEW call \in TraceCall, call.parent \in 0 .. Len(t), ~call.error
  PROVE  Longer(t, Append(t, call), call)
  <1> DEFINE u == Append(t, call)
             N == Len(t)
  <1>1. t \in Seq(TraceCall) /\ N \in Nat /\ \A i \in 1 .. N : t[i].parent \in 0 .. i - 1
    BY DEF Rooted
  <1>2. /\ u \in Seq(TraceCall) /\ Len(u) = N + 1 /\ u[N + 1] = call
        /\ \A i \in 1 .. N : u[i] = t[i]
    BY <1>1
  <1> HIDE DEF u, N
  <1>3. Rooted(u)
    <2>1. ASSUME NEW i \in 1 .. Len(u) PROVE u[i].parent \in 0 .. i - 1
      <3>1. i = N + 1 \/ i \in 1 .. N
        BY <1>1, <1>2
      <3>2. CASE i = N + 1
        BY <1>1, <1>2, <3>2 DEF N
      <3>3. QED
        BY <1>1, <1>2, <3>1, <3>2
    <2>2. QED
      BY <1>2, <2>1 DEF Rooted
  <1>4. Alike(t, u, N)
    BY <1>1, <1>2 DEF Alike, N
  <1>5. \A i \in 1 .. N : Reverts(u)[i] = Reverts(t)[i]
    BY <1>1, <1>3, <1>4, RevertsAlike
  <1>6. ASSUME call.parent = 0 \/ ~Reverts(t)[call.parent] PROVE ~Reverts(u)[N + 1]
    <2>1. Reverting(Reverts(u), u, Len(u))
      BY <1>3, RevertsSteps
    <2>2. N + 1 \in 1 .. Len(u)
      BY <1>1, <1>2
    <2>3. Reverts(u)[N + 1] <=> (call.error \/ (call.parent # 0 /\ Reverts(u)[call.parent]))
      BY <1>2, <2>1, <2>2 DEF Reverting
    <2>4. call.parent # 0 => call.parent \in 1 .. N
      BY <1>1 DEF N
    <2>5. QED
      BY <1>5, <1>6, <2>3, <2>4
  <1>7. QED
    BY <1>1, <1>2, <1>3, <1>4, <1>5, <1>6 DEF Longer, u, N

LEMMA FollowsInit ==
  ASSUME NEW t, Rooted(t), NEW u, Rooted(u), NEW k \in Nat, Alike(t, u, k),
         NEW S, NEW b, Follows(init(t), k, S, b)
  PROVE  Follows(init(u), k, S, b)
  <1>1. init(t) \in Seq(Calls) /\ init(u) \in Seq(Calls)
    BY InitIs DEF InitOf
  <1>2. Alike(init(t), init(u), k)
    BY InitAlike
  <1>3. QED
    BY <1>1, <1>2, FollowsAlike

LEMMA AlikeLess ==
  ASSUME NEW s, NEW t, NEW m \in Nat, Alike(s, t, m), NEW k \in 0 .. m
  PROVE  Alike(s, t, k)
  <1>1. Len(s) >= m /\ Len(t) >= m => Len(s) >= k /\ Len(t) >= k
    BY DEF Alike
  <1>2. QED
    BY DEF Alike

LEMMA FramedLonger ==
  ASSUME NEW t, Rooted(t), NEW u, NEW call, Longer(t, u, call), NEW f, NEW b, Framed(f, t, b),
         call.parent >= f.call, call.type = "CREATE" => call.to \notin f.saved.destroyed
  PROVE  Framed(f, u, b)
  <1>1. /\ f.call \in 1 .. Len(t) /\ ~Reverts(t)[f.call]
        /\ \A i \in f.call + 1 .. Len(t) : t[i].parent >= f.call
        /\ \A i \in f.call .. Len(t) : t[i].type = "CREATE" => t[i].to \notin f.saved.destroyed
        /\ Follows(init(t), f.call - 1, f.saved, b)
    BY DEF Framed
  <1>2. /\ Rooted(u) /\ Len(u) = Len(t) + 1 /\ Len(t) \in Nat /\ u[Len(u)] = call
        /\ Alike(t, u, Len(t))
        /\ \A i \in 1 .. Len(t) : u[i] = t[i] /\ Reverts(u)[i] = Reverts(t)[i]
    BY DEF Longer
  <1>3. f.call \in 1 .. Len(u) /\ ~Reverts(u)[f.call] /\ f.call - 1 \in Nat /\ f.call - 1 \in 0 .. Len(t)
    BY <1>1, <1>2
  <1>4. ASSUME NEW i \in f.call .. Len(u)
        PROVE  /\ i \in f.call + 1 .. Len(u) => u[i].parent >= f.call
               /\ u[i].type = "CREATE" => u[i].to \notin f.saved.destroyed
    <2>1. CASE i = Len(u)
      BY <1>2, <2>1
    <2>2. CASE i # Len(u)
      <3>1. i \in 1 .. Len(t) /\ i \in f.call .. Len(t)
        BY <1>1, <1>2, <2>2
      <3>2. i \in f.call + 1 .. Len(u) => i \in f.call + 1 .. Len(t)
        BY <1>1, <1>2, <2>2
      <3>3. QED
        BY <1>1, <1>2, <3>1, <3>2
    <2>3. QED
      BY <2>1, <2>2
  <1>5. \A i \in f.call + 1 .. Len(u) : u[i].parent >= f.call
    <2>1. \A i \in f.call + 1 .. Len(u) : i \in f.call .. Len(u)
      BY <1>1, <1>2
    <2>2. QED
      BY <1>4, <2>1
  <1>6. Follows(init(u), f.call - 1, f.saved, b)
    <2>1. Alike(t, u, f.call - 1)
      BY <1>2, <1>3, AlikeLess
    <2>2. QED
      BY <1>1, <1>2, <1>3, <2>1, FollowsInit
  <1>7. QED
    BY <1>3, <1>4, <1>5, <1>6 DEF Framed

LEMMA StackedHas ==
  ASSUME NEW st, NEW t, NEW S, NEW T, NEW b, Stacked(st, t, S, b), Has(S) \subseteq Has(T)
  PROVE  Stacked(st, t, T, b)
  <1>1. Nested(st, T)
    BY DEF Stacked, Nested
  <1>2. QED
    BY <1>1 DEF Stacked

LEMMA StackedTail ==
  ASSUME NEW st, NEW t, NEW S, NEW b, Stacked(st, t, S, b), st # <<>>
  PROVE  Stacked(Tail(st), t, S, b)
  <1>1. st \in Seq(FrameType) /\ (\A i \in 1 .. Len(st) : Framed(st[i], t, b)) /\ Nested(st, S)
    BY DEF Stacked
  <1> DEFINE r == Tail(st)
  <1>2. /\ r \in Seq(FrameType) /\ Len(st) \in Nat /\ Len(r) = Len(st) - 1
        /\ \A i \in 1 .. Len(r) : r[i] = st[i + 1] /\ i + 1 \in 1 .. Len(st)
    BY <1>1
  <1> HIDE DEF r
  <1>3. \A i \in 1 .. Len(r) : Framed(r[i], t, b)
    BY <1>1, <1>2
  <1>4. Nested(r, S)
    <2>1. SUFFICES ASSUME NEW i \in 1 .. Len(r)
                   PROVE  /\ r[i].self \in Has(S) /\ Has(r[i].saved) \subseteq Has(S)
                          /\ \A j \in i + 1 .. Len(r) :
                                /\ r[j].self \in Has(r[i].saved)
                                /\ Has(r[j].saved) \subseteq Has(r[i].saved)
                                /\ r[j].call < r[i].call
      BY DEF Nested
    <2>2. \A j \in i + 1 .. Len(r) : j \in 1 .. Len(r) /\ j + 1 \in (i + 1) + 1 .. Len(st)
      BY <1>2
    <2>3. QED
      BY <1>1, <1>2, <2>2 DEF Nested
  <1>5. QED
    BY <1>2, <1>3, <1>4 DEF Stacked, r

LEMMA StackedLonger ==
  ASSUME NEW st, NEW t, Rooted(t), NEW S, NEW b, Stacked(st, t, S, b), st # <<>>,
         NEW u, NEW call, Longer(t, u, call), call.parent = st[1].call,
         call.type = "CREATE" => call.to \notin Has(S)
  PROVE  Stacked(st, u, S, b)
  <1>1. st \in Seq(FrameType) /\ (\A i \in 1 .. Len(st) : Framed(st[i], t, b)) /\ Nested(st, S)
    BY DEF Stacked
  <1>2. Len(st) \in Nat /\ 1 \in 1 .. Len(st)
    BY <1>1
  <1>3. ASSUME NEW i \in 1 .. Len(st) PROVE Framed(st[i], u, b)
    <2>1. Framed(st[i], t, b) /\ Framed(st[1], t, b)
      BY <1>1, <1>2
    <2>2. call.parent >= st[i].call
      <3>1. st[i].call \in Int /\ st[1].call \in Int
        BY <2>1 DEF Framed
      <3>2. i = 1 \/ i \in 1 + 1 .. Len(st)
        OBVIOUS
      <3>3. i \in 1 + 1 .. Len(st) => st[i].call < st[1].call
        BY <1>1, <1>2 DEF Nested
      <3>4. QED
        BY <3>1, <3>2, <3>3
    <2>3. st[i].saved.destroyed \subseteq Has(S)
      <3>1. Placed(st[i].saved)
        BY <2>1 DEF Framed, Follows
      <3>2. Has(st[i].saved) \subseteq Has(S)
        BY <1>1 DEF Nested
      <3>3. QED
        BY <3>1, <3>2 DEF Placed
    <2>4. QED
      BY <2>1, <2>2, <2>3, FramedLonger
  <1>4. QED
    BY <1>1, <1>3 DEF Stacked

LEMMA StackedEnter ==
  ASSUME NEW st, NEW t, NEW S, NEW T, NEW b, Stacked(st, t, S, b), Has(S) \subseteq Has(T),
         NEW f \in FrameType, Framed(f, t, b), f.saved = S, f.self \in Has(T),
         \A i \in 1 .. Len(st) : st[i].call < f.call
  PROVE  Stacked(<<f>> \o st, t, T, b)
  <1>1. st \in Seq(FrameType) /\ (\A i \in 1 .. Len(st) : Framed(st[i], t, b)) /\ Nested(st, S)
    BY DEF Stacked
  <1> DEFINE r == <<f>> \o st
  <1>2. /\ r \in Seq(FrameType) /\ Len(st) \in Nat /\ Len(r) = Len(st) + 1 /\ r[1] = f
        /\ \A i \in 2 .. Len(r) : r[i] = st[i - 1] /\ i - 1 \in 1 .. Len(st)
    BY <1>1
  <1> HIDE DEF r
  <1>3. \A i \in 1 .. Len(r) : i = 1 \/ i \in 2 .. Len(r)
    BY <1>2
  <1>4. \A i \in 1 .. Len(r) : Framed(r[i], t, b)
    BY <1>1, <1>2, <1>3
  <1>5. Nested(r, T)
    <2>1. SUFFICES ASSUME NEW i \in 1 .. Len(r)
                   PROVE  /\ r[i].self \in Has(T) /\ Has(r[i].saved) \subseteq Has(T)
                          /\ \A j \in i + 1 .. Len(r) :
                                /\ r[j].self \in Has(r[i].saved)
                                /\ Has(r[j].saved) \subseteq Has(r[i].saved)
                                /\ r[j].call < r[i].call
      BY DEF Nested
    <2>2. \A k \in 1 .. Len(st) : st[k].self \in Has(S) /\ Has(st[k].saved) \subseteq Has(S)
      BY <1>1 DEF Nested
    <2>3. CASE i = 1
      <3>1. \A j \in i + 1 .. Len(r) : j \in 2 .. Len(r)
        BY <1>2, <2>3
      <3>2. QED
        BY <1>2, <2>2, <2>3, <3>1
    <2>4. CASE i # 1
      <3>1. i \in 2 .. Len(r)
        BY <1>3, <2>4
      <3>2. \A j \in i + 1 .. Len(r) : j \in 2 .. Len(r) /\ j - 1 \in (i - 1) + 1 .. Len(st)
        BY <1>2, <3>1
      <3>3. QED
        BY <1>1, <1>2, <2>2, <3>1, <3>2 DEF Nested
    <2>5. QED
      BY <2>3, <2>4
  <1>6. QED
    BY <1>2, <1>4, <1>5 DEF Stacked, r

Failed(t, u, c) ==
    /\ Rooted(u) /\ Len(u) = Len(t) /\ Len(t) \in Nat /\ c \in 1 .. Len(t)
    /\ \A i \in 1 .. Len(t) : u[i].type = t[i].type /\ u[i].to = t[i].to /\ u[i].parent = t[i].parent
    /\ Alike(t, u, c - 1)
    /\ \A i \in 1 .. c - 1 : Reverts(u)[i] = Reverts(t)[i]
    /\ Reverts(u)[c]

LEMMA RevertFails ==
  ASSUME NEW t, Rooted(t), NEW c \in 1 .. Len(t)
  PROVE  Failed(t, [t EXCEPT ![c].error = TRUE], c)
  <1> DEFINE u == [t EXCEPT ![c].error = TRUE]
  <1>1. t \in Seq(TraceCall) /\ Len(t) \in Nat /\ \A i \in 1 .. Len(t) : t[i].parent \in 0 .. i - 1
    BY DEF Rooted
  <1>2. \A i \in 1 .. Len(t) : t[i] \in TraceCall
    BY <1>1
  <1>3. u = [i \in 1 .. Len(t) |-> IF i = c THEN [t[i] EXCEPT !.error = TRUE] ELSE t[i]]
    <2>1. DOMAIN t = 1 .. Len(t)
      BY <1>1
    <2>2. u = [i \in DOMAIN t |-> IF i = c THEN [t[c] EXCEPT !.error = TRUE] ELSE t[i]]
      BY <2>1, Zenon
    <2>3. QED
      BY <2>1, <2>2
  <1>4. /\ DOMAIN u = 1 .. Len(t)
        /\ \A i \in 1 .. Len(t) : u[i] = IF i = c THEN [t[i] EXCEPT !.error = TRUE] ELSE t[i]
    BY <1>3
  <1>5. \A i \in 1 .. Len(t) : [t[i] EXCEPT !.error = TRUE] \in TraceCall
    BY <1>2 DEF TraceCall
  <1>6. u \in [1 .. Len(t) -> TraceCall]
    BY <1>2, <1>3, <1>5
  <1> HIDE DEF u
  <1>7. u \in Seq(TraceCall) /\ Len(u) = Len(t)
    BY <1>1, <1>6
  <1>8. /\ \A i \in 1 .. Len(t) : u[i].type = t[i].type /\ u[i].to = t[i].to /\ u[i].parent = t[i].parent
        /\ u[c].error
    <2>1. ASSUME NEW i \in 1 .. Len(t)
          PROVE  u[i].type = t[i].type /\ u[i].to = t[i].to /\ u[i].parent = t[i].parent
                 /\ (i = c => u[i].error)
      <3>1. t[i] \in TraceCall
        BY <1>2
      <3>2. CASE i = c
        <4>1. u[i] = [t[i] EXCEPT !.error = TRUE]
          BY <1>4, <3>2
        <4>2. QED
          BY <3>1, <4>1 DEF TraceCall
      <3>3. CASE i # c
        BY <1>4, <3>3
      <3>4. QED
        BY <3>2, <3>3
    <2>2. QED
      BY <2>1
  <1>9. Rooted(u)
    BY <1>1, <1>7, <1>8 DEF Rooted
  <1>10. Alike(t, u, c - 1)
    <2>1. \A i \in 1 .. c - 1 : i \in 1 .. Len(t) /\ i # c
      BY <1>1
    <2>2. QED
      BY <1>1, <1>4, <1>7, <2>1 DEF Alike
  <1>11. c - 1 \in Nat
    OBVIOUS
  <1>12. \A i \in 1 .. c - 1 : Reverts(u)[i] = Reverts(t)[i]
    BY <1>9, <1>10, <1>11, RevertsAlike
  <1>13. Reverts(u)[c]
    BY <1>7, <1>8, <1>9, RevertsSteps DEF Reverting
  <1>14. QED
    BY <1>1, <1>7, <1>8, <1>9, <1>10, <1>12, <1>13 DEF Failed, u

(* A failed call brings back the state it began in. *)
LEMMA RevertFollows ==
  ASSUME NEW t, Rooted(t), NEW f, NEW b \in [Account -> Int], Framed(f, t, b),
         NEW u, Failed(t, u, f.call)
  PROVE  Follows(init(u), Len(u), f.saved, b)
  <1> DEFINE c == f.call
             cs == init(u)
  <1>1. /\ c \in 1 .. Len(t)
        /\ \A i \in c + 1 .. Len(t) : t[i].parent >= c
        /\ \A i \in c .. Len(t) : t[i].type = "CREATE" => t[i].to \notin f.saved.destroyed
        /\ Follows(init(t), c - 1, f.saved, b)
    BY DEF Framed
  <1>2. /\ Rooted(u) /\ Len(u) = Len(t) /\ Len(t) \in Nat
        /\ \A i \in 1 .. Len(t) : u[i].type = t[i].type /\ u[i].to = t[i].to /\ u[i].parent = t[i].parent
        /\ Alike(t, u, c - 1) /\ Reverts(u)[c]
    BY DEF Failed
  <1>3. /\ cs \in Seq(Calls) /\ Len(cs) = Len(u)
        /\ \A i \in 1 .. Len(u) : /\ cs[i].type = u[i].type /\ cs[i].to = u[i].to
                                  /\ cs[i].revert = Reverts(u)[i]
    BY <1>2, InitIs DEF InitOf
  <1> HIDE DEF cs, c
  <1>4. c - 1 \in Nat /\ c \in 1 .. Len(u) /\ \A i \in c .. Len(u) : i \in 1 .. Len(t)
    BY <1>1, <1>2
  <1>5. \A i \in c .. Len(u) : Reverts(u)[i]
    <2>1. \A i \in c + 1 .. Len(u) : u[i].parent >= c
      <3>1. \A i \in c + 1 .. Len(u) : i \in c + 1 .. Len(t) /\ i \in 1 .. Len(t)
        BY <1>1, <1>2
      <3>2. QED
        BY <1>1, <1>2, <3>1
    <2>2. QED
      BY <1>2, <1>4, <2>1, RevertsBelow
  <1>6. Follows(cs, c - 1, f.saved, b)
    BY <1>1, <1>2, <1>4, FollowsInit DEF cs
  <1>7. \A i \in c .. Len(cs) : cs[i].revert /\ (cs[i].type = "CREATE" => cs[i].to \notin f.saved.destroyed)
    <2>1. ASSUME NEW i \in c .. Len(cs)
          PROVE  cs[i].revert /\ (cs[i].type = "CREATE" => cs[i].to \notin f.saved.destroyed)
      <3>1. i \in c .. Len(u) /\ i \in c .. Len(t) /\ i \in 1 .. Len(u) /\ i \in 1 .. Len(t)
        BY <1>2, <1>3, <1>4
      <3>2. QED
        BY <1>1, <1>2, <1>3, <1>5, <3>1
    <2>2. QED
      BY <2>1
  <1>8. c \in 1 .. Len(cs)
    BY <1>3, <1>4
  <1>9. Follows(cs, Len(cs), f.saved, b)
    BY <1>3, <1>6, <1>7, <1>8, FollowsReverted
  <1>10. QED
    BY <1>3, <1>9 DEF cs

LEMMA StackedRevert ==
  ASSUME NEW t, Rooted(t), NEW st, NEW S, NEW b, Stacked(st, t, S, b), st # <<>>,
         NEW u, Failed(t, u, st[1].call)
  PROVE  Stacked(Tail(st), u, st[1].saved, b)
  <1> DEFINE r == Tail(st)
             c == st[1].call
  <1>1. st \in Seq(FrameType) /\ (\A i \in 1 .. Len(st) : Framed(st[i], t, b)) /\ Nested(st, S)
    BY DEF Stacked
  <1>2. /\ r \in Seq(FrameType) /\ Len(st) \in Nat /\ Len(r) = Len(st) - 1 /\ 1 \in 1 .. Len(st)
        /\ \A i \in 1 .. Len(r) : r[i] = st[i + 1] /\ i + 1 \in 1 + 1 .. Len(st) /\ i + 1 \in 1 .. Len(st)
    BY <1>1
  <1> HIDE DEF r
  <1>3. /\ Rooted(u) /\ Len(u) = Len(t) /\ Len(t) \in Nat /\ c \in 1 .. Len(t)
        /\ \A i \in 1 .. Len(t) : u[i].type = t[i].type /\ u[i].to = t[i].to /\ u[i].parent = t[i].parent
        /\ Alike(t, u, c - 1)
        /\ \A i \in 1 .. c - 1 : Reverts(u)[i] = Reverts(t)[i]
    BY DEF Failed
  <1> HIDE DEF c
  <1>4. ASSUME NEW i \in 1 .. Len(r) PROVE Framed(r[i], u, b)
    <2> DEFINE f == r[i]
    <2>1. Framed(f, t, b)
      BY <1>1, <1>2
    <2>2. f.call < c
      BY <1>1, <1>2 DEF Nested, c
    <2> HIDE DEF f
    <2>3. /\ f.call \in 1 .. Len(t) /\ ~Reverts(t)[f.call]
          /\ \A j \in f.call + 1 .. Len(t) : t[j].parent >= f.call
          /\ \A j \in f.call .. Len(t) : t[j].type = "CREATE" => t[j].to \notin f.saved.destroyed
          /\ Follows(init(t), f.call - 1, f.saved, b)
      BY <2>1 DEF Framed
    <2>4. /\ f.call \in 1 .. c - 1 /\ f.call - 1 \in Nat /\ c - 1 \in Nat /\ f.call - 1 \in 0 .. c - 1
          /\ \A j \in f.call .. Len(t) : j \in 1 .. Len(t)
          /\ \A j \in f.call + 1 .. Len(t) : j \in 1 .. Len(t)
      BY <1>3, <2>2, <2>3
    <2>5. ~Reverts(u)[f.call]
      BY <1>3, <2>3, <2>4
    <2>6. Follows(init(u), f.call - 1, f.saved, b)
      <3>1. Alike(t, u, f.call - 1)
        BY <1>3, <2>4, AlikeLess
      <3>2. QED
        BY <1>3, <2>3, <2>4, <3>1, FollowsInit
    <2>7. Framed(f, u, b)
      BY <1>3, <2>3, <2>4, <2>5, <2>6 DEF Framed
    <2>8. QED
      BY <2>7 DEF f
  <1>5. Nested(r, st[1].saved)
    <2>1. SUFFICES ASSUME NEW i \in 1 .. Len(r)
                   PROVE  /\ r[i].self \in Has(st[1].saved) /\ Has(r[i].saved) \subseteq Has(st[1].saved)
                          /\ \A j \in i + 1 .. Len(r) :
                                /\ r[j].self \in Has(r[i].saved)
                                /\ Has(r[j].saved) \subseteq Has(r[i].saved)
                                /\ r[j].call < r[i].call
      BY DEF Nested
    <2>2. \A j \in i + 1 .. Len(r) : j \in 1 .. Len(r) /\ j + 1 \in (i + 1) + 1 .. Len(st)
      BY <1>2
    <2>3. QED
      BY <1>1, <1>2, <2>2 DEF Nested
  <1>6. QED
    BY <1>2, <1>4, <1>5 DEF Stacked, r

Inited(call) == [type |-> call.type, from |-> call.from, to |-> call.to,
                 value |-> call.value, revert |-> FALSE]

LEMMA InitLast ==
  ASSUME NEW t, NEW call \in TraceCall, NEW u, Longer(t, u, call),
         call.parent = 0 \/ ~Reverts(t)[call.parent]
  PROVE  init(u)[Len(u)] = Inited(call) /\ init(u) \in Seq(Calls) /\ Len(init(u)) = Len(u)
  <1>1. /\ Rooted(u) /\ Len(u) = Len(t) + 1 /\ Len(t) \in Nat /\ u[Len(u)] = call
        /\ ~Reverts(u)[Len(u)]
    BY DEF Longer
  <1>2. Len(u) \in 1 .. Len(u)
    BY <1>1
  <1>3. init(u) \in Seq(Calls) /\ Len(init(u)) = Len(u)
    BY <1>1, InitIs DEF InitOf
  <1>4. Reverts(u)[Len(u)] = FALSE
    <2>1. Reverts(u)[Len(u)] \in BOOLEAN
      BY <1>1, <1>2, RevertsSteps DEF Reverting
    <2>2. QED
      BY <1>1, <2>1
  <1>5. DOMAIN u = 1 .. Len(u)
    BY <1>1 DEF Rooted
  <1>6. init(u)[Len(u)] = Inited(call)
    BY <1>1, <1>2, <1>4, <1>5 DEF init, Initialised, Inited
  <1>7. QED
    BY <1>3, <1>6

(* One more call, made by the innermost call that runs: the state after it *)
(* follows, and so would the state before it if what it runs failed.       *)
Advances(st, t, u, S, T, b) ==
    /\ Rooted(u) /\ Len(u) = Len(t) + 1 /\ Len(t) \in Nat
    /\ Follows(init(u), Len(u), T, b)
    /\ Stacked(st, u, S, b)
    /\ \A i \in 1 .. Len(st) : st[i].call < Len(u)
    /\ \A f \in FrameType : f.call = Len(u) /\ f.saved = S => Framed(f, u, b)

LEMMA CallAdvances ==
  ASSUME NEW t, Rooted(t), NEW st, st # <<>>, NEW S, NEW b \in [Account -> Int],
         Follows(init(t), Len(t), S, b), Stacked(st, t, S, b),
         NEW call \in TraceCall, ~call.error, call.parent = st[1].call,
         call.type = "CREATE" => call.to \notin Has(S),
         NEW T, Leads(Inited(call), S, T), Placed(T)
  PROVE  Advances(st, t, Append(t, call), S, T, b)
  <1> DEFINE u == Append(t, call)
  <1>1. st \in Seq(FrameType) /\ \A i \in 1 .. Len(st) : Framed(st[i], t, b)
    BY DEF Stacked
  <1>2. 1 \in 1 .. Len(st)
    BY <1>1
  <1>3. call.parent \in 1 .. Len(t) /\ ~Reverts(t)[call.parent]
    BY <1>1, <1>2 DEF Framed
  <1>4. Longer(t, u, call)
    BY <1>3, TracedLonger
  <1> HIDE DEF u
  <1>5. init(u)[Len(u)] = Inited(call) /\ init(u) \in Seq(Calls) /\ Len(init(u)) = Len(u)
    BY <1>3, <1>4, InitLast
  <1>6. /\ Rooted(u) /\ Len(u) = Len(t) + 1 /\ Len(t) \in Nat /\ u[Len(u)] = call
        /\ Alike(t, u, Len(t)) /\ ~Reverts(u)[Len(u)]
    BY <1>3, <1>4 DEF Longer
  <1>7. Follows(init(u), Len(t), S, b)
    BY <1>6, FollowsInit
  <1>8. Len(u) \in 1 .. Len(init(u)) /\ Len(u) - 1 = Len(t)
    BY <1>5, <1>6
  <1>9. Follows(init(u), Len(u), T, b)
    BY <1>5, <1>7, <1>8, FollowsCall
  <1>10. Stacked(st, u, S, b)
    BY <1>4, StackedLonger
  <1>11. \A i \in 1 .. Len(st) : st[i].call < Len(u)
    BY <1>1, <1>6 DEF Framed
  <1>12. ASSUME NEW f \in FrameType, f.call = Len(u), f.saved = S PROVE Framed(f, u, b)
    <2>1. f.call \in 1 .. Len(u) /\ ~Reverts(u)[f.call] /\ f.call - 1 = Len(t)
      BY <1>6, <1>8, <1>12
    <2>2. ASSUME NEW i \in f.call .. Len(u), u[i].type = "CREATE" PROVE u[i].to \notin S.destroyed
      <3>1. i = Len(u)
        BY <1>6, <1>12
      <3>2. S.destroyed \subseteq Has(S)
        BY DEF Follows, Placed
      <3>3. QED
        BY <1>6, <2>2, <3>1, <3>2
    <2>3. \A i \in f.call + 1 .. Len(u) : u[i].parent >= f.call
      BY <1>6, <1>12
    <2>4. QED
      BY <1>7, <1>12, <2>1, <2>2, <2>3 DEF Framed
  <1>13. QED
    BY <1>6, <1>9, <1>10, <1>11, <1>12 DEF Advances, u

-----------------------------------------------------------------------------
(* What moves when a call is made *)

LEMMA ConstantsAre ==
  /\ Target \subseteq Account /\ burnAddress \in Account /\ Users \subseteq Account
  /\ Contracts \cup Fresh \subseteq Target /\ Contracts \cup Fresh \subseteq Account
  /\ \A acct \in Users \cup {burnAddress} : acct \notin Contracts \cup Fresh
  BY ConstantsAssumption DEF Account, Target

LEMMA TransferMoves ==
  ASSUME NEW B \in [Account -> Int], NEW from \in Account, NEW to \in Account, NEW value \in Int,
         NEW call, call.from = from, call.to = to, call.value = value, ~ToItself(call)
  PROVE  /\ Transfer(B, from, to, value) \in [Account -> Int]
         /\ \A a \in Account : Transfer(B, from, to, value)[a] = B[a] + Moved(call, a)
  <1> DEFINE paid == IF from = inflationContractAddress THEN B ELSE [B EXCEPT ![from] = @ - value]
             C == [paid EXCEPT ![to] = @ + value]
  <1>1. /\ paid \in [Account -> Int]
        /\ \A a \in Account : paid[a] = B[a] + (IF a = from /\ from # inflationContractAddress THEN -value ELSE 0)
    OBVIOUS
  <1> HIDE DEF paid
  <1>2. /\ C \in [Account -> Int]
        /\ \A a \in Account : C[a] = paid[a] + (IF a = to THEN value ELSE 0)
    BY <1>1
  <1>3. Transfer(B, from, to, value) = C
    BY DEF Transfer, paid
  <1> HIDE DEF C
  <1>4. \A a \in Account : Moved(call, a) = (IF a = from /\ from # inflationContractAddress THEN -value ELSE 0)
                                          + (IF a = to THEN value ELSE 0)
    BY DEF Moved, fromInflation
  <1>5. ASSUME NEW a \in Account PROVE C[a] = B[a] + Moved(call, a)
    <2> DEFINE p == IF a = from /\ from # inflationContractAddress THEN -value ELSE 0
               q == IF a = to THEN value ELSE 0
    <2>1. p \in Int /\ q \in Int /\ B[a] \in Int
      OBVIOUS
    <2>2. C[a] = (B[a] + p) + q /\ Moved(call, a) = p + q
      BY <1>1, <1>2, <1>4
    <2> HIDE DEF p, q
    <2>3. QED
      BY <2>1, <2>2
  <1>6. QED
    BY <1>2, <1>3, <1>5

LEMMA TransferType ==
  ASSUME NEW B \in [Account -> Nat], NEW from \in Account, NEW to \in Account, NEW value \in Nat,
         from = inflationContractAddress \/ value <= B[from]
  PROVE  Transfer(B, from, to, value) \in [Account -> Nat]
  <1> DEFINE paid == IF from = inflationContractAddress THEN B ELSE [B EXCEPT ![from] = @ - value]
  <1>1. paid \in [Account -> Nat]
    <2>1. CASE from = inflationContractAddress
      BY <2>1
    <2>2. CASE from # inflationContractAddress
      <3>1. B[from] - value \in Nat
        BY <2>2
      <3>2. QED
        BY <2>2, <3>1
    <2>3. QED
      BY <2>1, <2>2
  <1> HIDE DEF paid
  <1>2. [paid EXCEPT ![to] = @ + value] \in [Account -> Nat]
    BY <1>1
  <1>3. QED
    BY <1>2 DEF Transfer, paid

(* A call that carries no value moves none. *)
LEMMA NothingMoves ==
  ASSUME NEW call, call.value = 0 PROVE \A a : Moved(call, a) = 0
  <1>1. -call.value = 0
    <2>1. \A x \in Int : x >= 0 /\ x <= 0 => -x = 0
      OBVIOUS
    <2>2. call.value \in Int /\ call.value >= 0 /\ call.value <= 0
      OBVIOUS
    <2>3. QED
      BY <2>1, <2>2, Zenon
  <1>2. QED
    BY <1>1 DEF Moved

-----------------------------------------------------------------------------
(* Every step preserves the invariant *)

LEMMA InitInv == Init => IInv
  <1> SUFFICES ASSUME Init PROVE IInv
    OBVIOUS
  <1>1. NoTx \in [from : Account, to : Account, lowGas : BOOLEAN, success : BOOLEAN]
    BY ConstantsAre DEF NoTx
  <1>2. Rooted(<<>>)
    <2>1. <<>> \in Seq(TraceCall)
      BY EmptySequence
    <2>2. QED
      BY <2>1 DEF Rooted
  <1>3. Typed
    <2>1. InitialBalance \in [Account -> Nat] /\ MaxTxs \in Nat
      BY ConstantsAssumption
    <2>2. QED
      BY <1>1, <1>2, <2>1 DEF Init, Typed
  <1>4. phase = "idle"
    BY DEF Init
  <1>5. QED
    BY <1>3, <1>4 DEF Init, IInv, ReplayMatchesEVM, NeverFatal, OperationsNumbered, InAccounts

LEMMA StartType ==
  ASSUME Typed PROVE start \in [Account -> Int]
  BY ConstantsAssumption DEF Typed, start, StartOf

LEMMA Going ==
  ASSUME IInv, stack # <<>>
  PROVE  /\ phase = "running" /\ Running /\ Typed /\ start \in [Account -> Int]
         /\ Placed(Current) /\ stack \in Seq(FrameType) /\ stack[1] \in FrameType
         /\ me \in Has(Current) /\ me \in Account
         /\ stack[1].call \in 1 .. Len(trace) /\ Framed(stack[1], trace, start)
  <1>1. phase = "running" /\ Running /\ Typed
    BY DEF IInv, Typed
  <1>2. start \in [Account -> Int]
    BY <1>1, StartType
  <1>3. Placed(Current)
    BY <1>1 DEF Running, Follows
  <1>4. /\ stack \in Seq(FrameType) /\ (\A i \in 1 .. Len(stack) : Framed(stack[i], trace, start))
        /\ Nested(stack, Current)
    BY <1>1 DEF Running, Stacked
  <1>5. 1 \in 1 .. Len(stack) /\ stack[1] \in FrameType
    BY <1>4
  <1>6. me \in Has(Current)
    BY <1>4, <1>5 DEF Nested, me
  <1>7. me \in Account
    BY <1>5, ConstantsAre DEF FrameType, me
  <1>8. stack[1].call \in 1 .. Len(trace) /\ Framed(stack[1], trace, start)
    BY <1>4, <1>5 DEF Framed
  <1>9. QED
    BY <1>1, <1>2, <1>3, <1>4, <1>5, <1>6, <1>7, <1>8

(* A step that goes on with the transaction *)
LEMMA GoesOn ==
  ASSUME IInv, phase = "running", phase' = "running", before' = before, txs' \in 0 .. MaxTxs,
         tx'.from = tx.from,
         tx' \in [from : Account, to : Account, lowGas : BOOLEAN, success : BOOLEAN],
         Rooted(trace'), Follows(init(trace'), Len(trace'), Current', start),
         Stacked(stack', trace', Current', start)
  PROVE  IInv'
  <1>1. Typed /\ Running
    BY DEF IInv
  <1>2. start' = start
    BY DEF start, StartOf
  <1>3. Running'
    BY <1>1, <1>2 DEF Running
  <1>4. Placed(Current')
    BY DEF Follows
  <1>5. bal' \in [Account -> Nat] /\ code' \subseteq Contracts \cup Fresh /\ created' \subseteq Fresh
        /\ destroyed' \subseteq Account
    BY <1>4 DEF Placed, Saved, Current
  <1>6. Typed'
    BY <1>1, <1>5 DEF Typed
  <1>7. QED
    BY <1>3, <1>6 DEF IInv, ReplayMatchesEVM, NeverFatal, OperationsNumbered, InAccounts

(* Going on with one more call *)
LEMMA GoesOnCalling ==
  ASSUME IInv, stack # <<>>, NEW call \in TraceCall, ~call.error, call.parent = stack[1].call,
         call.type = "CREATE" => call.to \notin Has(Current),
         Leads(Inited(call), Current, Current'), Placed(Current'),
         trace' = Append(trace, call), phase' = phase, before' = before, txs' = txs, tx' = tx,
         \/ stack' = stack
         \/ stack' = Tail(stack)
         \/ \E f \in FrameType : /\ f.call = Len(trace) + 1 /\ f.saved = Current
                                 /\ f.self \in Has(Current') /\ stack' = <<f>> \o stack
  PROVE  IInv'
  <1>1. phase = "running" /\ Running /\ Typed /\ start \in [Account -> Int]
    BY Going
  <1>2. Rooted(trace)
    BY <1>1 DEF Typed
  <1>3. Advances(stack, trace, trace', Current, Current', start)
    BY <1>1, <1>2, CallAdvances DEF Running
  <1>4. /\ Rooted(trace') /\ Len(trace') = Len(trace) + 1
        /\ Follows(init(trace'), Len(trace'), Current', start)
        /\ Stacked(stack, trace', Current, start)
        /\ \A i \in 1 .. Len(stack) : stack[i].call < Len(trace')
        /\ \A f \in FrameType : f.call = Len(trace') /\ f.saved = Current => Framed(f, trace', start)
    BY <1>3 DEF Advances
  <1>5. Has(Current) \subseteq Has(Current')
    BY DEF Leads, Has
  <1>6. Stacked(stack', trace', Current', start)
    <2>1. CASE stack' = stack
      BY <1>4, <1>5, <2>1, StackedHas
    <2>2. CASE stack' = Tail(stack)
      <3>1. Stacked(Tail(stack), trace', Current, start)
        BY <1>4, StackedTail
      <3>2. QED
        BY <1>5, <2>2, <3>1, StackedHas
    <2>3. ASSUME NEW f \in FrameType, f.call = Len(trace) + 1, f.saved = Current,
                 f.self \in Has(Current'), stack' = <<f>> \o stack
          PROVE  Stacked(stack', trace', Current', start)
      <3>1. Framed(f, trace', start) /\ f.call = Len(trace')
        BY <1>4, <2>3
      <3>2. \A i \in 1 .. Len(stack) : stack[i].call < f.call
        BY <1>4, <3>1
      <3>3. Stacked(<<f>> \o stack, trace', Current', start)
        BY <1>4, <1>5, <2>3, <3>1, <3>2, StackedEnter
      <3>4. QED
        BY <2>3, <3>3
    <2>4. QED
      BY <2>1, <2>2, <2>3
  <1>7. txs' \in 0 .. MaxTxs /\ tx' \in [from : Account, to : Account, lowGas : BOOLEAN, success : BOOLEAN]
    BY <1>1 DEF Typed
  <1>8. QED
    BY <1>1, <1>4, <1>6, <1>7, GoesOn

LEMMA FrameIs ==
  ASSUME Placed(Current), NEW self \in Contracts \cup Fresh, NEW runs \in Target, NEW n \in Nat
  PROVE  /\ Frame(self, runs, n, bal) \in FrameType /\ Frame(self, runs, n, bal).call = n
         /\ Frame(self, runs, n, bal).saved = Current /\ Frame(self, runs, n, bal).self = self
  BY DEF Frame, FrameType, Placed, Current

LEMMA CallAccountInv ==
  ASSUME IInv, NEW to \in Target, NEW value \in Values, CallAccount(to, value)
  PROVE  IInv'
  <1> DEFINE call == Call("CALL", me, to, value, stack[1].call)
             cs == Inited(call)
             f == Frame(to, to, Len(trace) + 1, bal)
  <1>1. stack # <<>> /\ CanPay(me, value)
    BY DEF CallAccount, MayCall
  <1>2. /\ Typed /\ Placed(Current) /\ me \in Has(Current) /\ me \in Account
        /\ stack[1].call \in 1 .. Len(trace)
    BY <1>1, Going
  <1>3. to \in Account /\ value \in Nat /\ "CALL" \in TraceType /\ stack[1].call \in Nat
    BY <1>2, ConstantsAre, ConstantsAssumption DEF TraceType
  <1>4. /\ call \in TraceCall /\ ~call.error /\ call.parent = stack[1].call /\ call.type = "CALL"
        /\ cs = [type |-> "CALL", from |-> me, to |-> to, value |-> value, revert |-> FALSE]
    BY <1>2, <1>3 DEF Call, TraceCall, Inited
  <1>5. trace' = Append(trace, call)
    BY DEF CallAccount, Traced
  <1> HIDE DEF call, cs
  <1>6. /\ bal' = Transfer(bal, me, to, value) /\ code' = code /\ created' = created
        /\ destroyed' = destroyed /\ phase' = phase /\ before' = before /\ tx' = tx /\ txs' = txs
        /\ (IF to \in code THEN stack' = <<f>> \o stack ELSE stack' = stack)
    BY DEF CallAccount, Enter
  <1>7. bal \in [Account -> Nat] /\ bal \in [Account -> Int] /\ Len(trace) \in Nat
    BY <1>2 DEF Typed, Rooted
  <1>8. bal' \in [Account -> Nat]
    BY <1>1, <1>2, <1>3, <1>6, <1>7, TransferType DEF CanPay
  <1>9. \A a \in Account : bal'[a] = bal[a] + Moved(cs, a)
    <2>1. cs.from = me /\ cs.to = to /\ cs.value = value /\ ~ToItself(cs) /\ value \in Int
      BY <1>3, <1>4 DEF ToItself
    <2>2. \A a \in Account : Transfer(bal, me, to, value)[a] = bal[a] + Moved(cs, a)
      BY <1>2, <1>3, <1>7, <2>1, TransferMoves
    <2>3. QED
      BY <1>6, <2>2
  <1>10. Placed(Current')
    BY <1>2, <1>6, <1>8 DEF Placed, Current, Saved, Has
  <1>11. Leads(cs, Current, Current')
    BY <1>4, <1>6, <1>9 DEF Leads, Current
  <1>12. CASE to \in code
    <2>1. to \in Contracts \cup Fresh /\ Len(trace) + 1 \in Nat
      BY <1>2, <1>7, <1>12 DEF Typed
    <2>2. f \in FrameType /\ f.call = Len(trace) + 1 /\ f.saved = Current /\ f.self = to
      BY <1>2, <2>1, FrameIs
    <2> HIDE DEF f
    <2>3. f.self \in Has(Current') /\ stack' = <<f>> \o stack
      BY <1>6, <1>12, <2>2 DEF Has, Current
    <2>4. QED
      BY <1>1, <1>4, <1>5, <1>6, <1>10, <1>11, <2>2, <2>3, GoesOnCalling DEF cs
  <1>13. CASE to \notin code
    BY <1>1, <1>4, <1>5, <1>6, <1>10, <1>11, <1>13, GoesOnCalling DEF cs
  <1>14. QED
    BY <1>12, <1>13

LEMMA CallCodeInv ==
  ASSUME IInv, NEW type \in {"CALLCODE", "DELEGATECALL"}, NEW to \in Contracts, NEW value \in Values,
         CallCode(type, to, value)
  PROVE  IInv'
  <1> DEFINE call == Call(type, me, to, value, stack[1].call)
             cs == Inited(call)
             f == Frame(me, to, Len(trace) + 1, bal)
  <1>1. stack # <<>>
    BY DEF CallCode, MayCall
  <1>2. /\ Typed /\ Placed(Current) /\ me \in Has(Current) /\ me \in Account
        /\ stack[1].call \in 1 .. Len(trace) /\ stack[1] \in FrameType
    BY <1>1, Going
  <1>3. /\ to \in Account /\ to \in Target /\ value \in Nat /\ type \in TraceType
        /\ stack[1].call \in Nat
    BY <1>2, ConstantsAre, ConstantsAssumption DEF TraceType
  <1>4. /\ call \in TraceCall /\ ~call.error /\ call.parent = stack[1].call /\ call.type = type
        /\ cs = [type |-> type, from |-> me, to |-> to, value |-> value, revert |-> FALSE]
    BY <1>2, <1>3 DEF Call, TraceCall, Inited
  <1>5. trace' = Append(trace, call)
    BY DEF CallCode, Traced
  <1> HIDE DEF call, cs
  <1>6. /\ bal' = bal /\ code' = code /\ created' = created
        /\ destroyed' = destroyed /\ phase' = phase /\ before' = before /\ tx' = tx /\ txs' = txs
        /\ (IF to \in code THEN stack' = <<f>> \o stack ELSE stack' = stack)
    BY DEF CallCode, Enter, state
  <1>7. bal \in [Account -> Int] /\ Len(trace) \in Nat
    BY <1>2 DEF Typed, Rooted
  <1>8. Current' = Current
    BY <1>6 DEF Current
  <1>9. Placed(Current')
    BY <1>2, <1>8
  <1>10. cs.value # 0 \/ \A a \in Account : bal'[a] = bal[a] + Moved(cs, a)
    <2>1. cs.value = 0 => \A a \in Account : Moved(cs, a) = 0
      BY NothingMoves
    <2>2. QED
      BY <1>6, <1>7, <2>1
  <1>11. Leads(cs, Current, Current')
    BY <1>4, <1>8, <1>10 DEF Leads, Current
  <1>12. CASE to \in code
    <2>1. me \in Contracts \cup Fresh /\ Len(trace) + 1 \in Nat
      BY <1>2, <1>7 DEF FrameType, me
    <2>2. f \in FrameType /\ f.call = Len(trace) + 1 /\ f.saved = Current /\ f.self = me
      BY <1>2, <1>3, <2>1, FrameIs
    <2> HIDE DEF f
    <2>3. f.self \in Has(Current') /\ stack' = <<f>> \o stack
      BY <1>2, <1>6, <1>8, <1>12, <2>2
    <2>4. QED
      BY <1>1, <1>4, <1>5, <1>6, <1>9, <1>11, <2>2, <2>3, GoesOnCalling DEF cs
  <1>13. CASE to \notin code
    BY <1>1, <1>4, <1>5, <1>6, <1>9, <1>11, <1>13, GoesOnCalling DEF cs
  <1>14. QED
    BY <1>12, <1>13

LEMMA CreateInv ==
  ASSUME IInv, NEW to \in Fresh, NEW value \in Values, Create(to, value)
  PROVE  IInv'
  <1> DEFINE call == Call("CREATE", me, to, value, stack[1].call)
             cs == Inited(call)
             f == Frame(to, to, Len(trace) + 1, bal)
  <1>1. stack # <<>> /\ CanPay(me, value) /\ to \notin code \cup created
    BY DEF Create, MayCall
  <1>2. /\ Typed /\ Placed(Current) /\ me \in Has(Current) /\ me \in Account
        /\ stack[1].call \in 1 .. Len(trace)
    BY <1>1, Going
  <1>3. /\ to \in Account /\ to \in Target /\ to \in Contracts \cup Fresh
        /\ value \in Nat /\ "CREATE" \in TraceType /\ stack[1].call \in Nat
    BY <1>2, ConstantsAre, ConstantsAssumption DEF TraceType
  <1>4. /\ call \in TraceCall /\ ~call.error /\ call.parent = stack[1].call /\ call.type = "CREATE"
        /\ call.to = to
        /\ cs = [type |-> "CREATE", from |-> me, to |-> to, value |-> value, revert |-> FALSE]
    BY <1>2, <1>3 DEF Call, TraceCall, Inited
  <1>5. trace' = Append(trace, call)
    BY DEF Create, Traced
  <1> HIDE DEF call, cs
  <1>6. /\ bal' = Transfer(bal, me, to, value) /\ code' = code /\ created' = created \cup {to}
        /\ destroyed' = destroyed /\ phase' = phase /\ before' = before /\ tx' = tx /\ txs' = txs
        /\ stack' = <<f>> \o stack
    BY DEF Create, Enter
  <1>7. bal \in [Account -> Nat] /\ bal \in [Account -> Int] /\ Len(trace) + 1 \in Nat
    BY <1>2 DEF Typed, Rooted
  <1>8. bal' \in [Account -> Nat]
    BY <1>1, <1>2, <1>3, <1>6, <1>7, TransferType DEF CanPay
  <1>9. \A a \in Account : bal'[a] = bal[a] + Moved(cs, a)
    <2>1. cs.from = me /\ cs.to = to /\ cs.value = value /\ ~ToItself(cs) /\ value \in Int
      BY <1>3, <1>4 DEF ToItself
    <2>2. \A a \in Account : Transfer(bal, me, to, value)[a] = bal[a] + Moved(cs, a)
      BY <1>2, <1>3, <1>7, <2>1, TransferMoves
    <2>3. QED
      BY <1>6, <2>2
  <1>10. Placed(Current')
    BY <1>2, <1>3, <1>6, <1>8 DEF Placed, Current, Saved, Has
  <1>11. to \notin Has(Current) /\ to \notin destroyed
    BY <1>1, <1>2 DEF Has, Current, Placed
  <1>12. Leads(cs, Current, Current')
    BY <1>1, <1>4, <1>6, <1>9, <1>11 DEF Leads, Current
  <1>13. f \in FrameType /\ f.call = Len(trace) + 1 /\ f.saved = Current /\ f.self = to
    BY <1>2, <1>3, <1>7, FrameIs
  <1> HIDE DEF f
  <1>14. f.self \in Has(Current')
    BY <1>6, <1>13 DEF Has, Current
  <1>15. QED
    BY <1>1, <1>4, <1>5, <1>6, <1>10, <1>11, <1>12, <1>13, <1>14, GoesOnCalling DEF cs

LEMMA SelfDestructInv ==
  ASSUME IInv, NEW to \in Target, SelfDestruct(to)
  PROVE  IInv'
  <1> DEFINE value == bal[me]
             call == Call("SELFDESTRUCT", me, to, value, stack[1].call)
             cs == Inited(call)
             removed == ~Cancun \/ me \in created
  <1>1. stack # <<>> /\ me # inflationContractAddress
    BY DEF SelfDestruct, MayCall
  <1>2. /\ Typed /\ Placed(Current) /\ me \in Has(Current) /\ me \in Account
        /\ stack[1].call \in 1 .. Len(trace)
    BY <1>1, Going
  <1>3. /\ bal \in [Account -> Nat] /\ bal \in [Account -> Int] /\ value \in Nat /\ value \in Int
        /\ to \in Account /\ "SELFDESTRUCT" \in TraceType /\ stack[1].call \in Nat
    <2>1. bal \in [Account -> Nat]
      BY <1>2 DEF Typed
    <2>2. bal \in [Account -> Int]
      BY <2>1, \A i \in Nat : i \in Int
    <2>3. value \in Nat /\ value \in Int
      BY <1>2, <2>1
    <2>4. to \in Account
      BY ConstantsAre
    <2>5. stack[1].call \in Nat
      BY <1>2
    <2>6. QED
      BY <2>1, <2>2, <2>3, <2>4, <2>5 DEF TraceType
  <1>4. trace' = Append(trace, call)
    BY DEF SelfDestruct, Traced
  <1>5. /\ bal' = IF to = me /\ removed THEN [bal EXCEPT ![me] = 0] ELSE Transfer(bal, me, to, value)
        /\ destroyed' = IF removed THEN destroyed \cup {me} ELSE destroyed
        /\ code' = code /\ created' = created /\ stack' = Tail(stack)
        /\ phase' = phase /\ before' = before /\ tx' = tx /\ txs' = txs
    BY DEF SelfDestruct
  <1> HIDE DEF value
  <1>6. /\ call \in TraceCall /\ ~call.error /\ call.parent = stack[1].call
        /\ call.type = "SELFDESTRUCT"
        /\ cs = [type |-> "SELFDESTRUCT", from |-> me, to |-> to, value |-> value, revert |-> FALSE]
    BY <1>2, <1>3 DEF Call, TraceCall, Inited
  <1> HIDE DEF call, cs
  <1>7. removed <=> Removed(cs, Current)
    BY <1>6 DEF Removed, Current
  <1> HIDE DEF removed
  <1>8. Transfer(bal, me, to, value) \in [Account -> Nat]
    <2>1. value <= bal[me]
      BY <1>3 DEF value
    <2>2. QED
      BY <1>2, <1>3, <2>1, TransferType
  <1>9. bal' \in [Account -> Nat]
    BY <1>3, <1>5, <1>8
  <1>10. ASSUME removed PROVE \A a \in Account : bal'[a] = bal[a] + Moved(cs, a)
    <2>1. CASE to = me
      <3>1. ASSUME NEW a \in Account PROVE bal'[a] = bal[a] + Moved(cs, a)
        <4>1. Moved(cs, a) = IF a = me THEN -value + 0 ELSE 0 + 0
          BY <1>1, <1>6, <2>1 DEF Moved, fromInflation, ToItself
        <4>2. bal'[a] = IF a = me THEN 0 ELSE bal[a]
          BY <1>3, <1>5, <1>10, <2>1
        <4>3. a = me => bal[a] = value
          BY DEF value
        <4>4. QED
          BY <1>3, <4>1, <4>2, <4>3
      <3>2. QED
        BY <3>1
    <2>2. CASE to # me
      <3>1. cs.from = me /\ cs.to = to /\ cs.value = value /\ ~ToItself(cs)
        BY <1>6, <2>2 DEF ToItself
      <3>2. \A a \in Account : Transfer(bal, me, to, value)[a] = bal[a] + Moved(cs, a)
        BY <1>2, <1>3, <3>1, TransferMoves
      <3>3. QED
        BY <1>5, <2>2, <3>2
    <2>3. QED
      BY <2>1, <2>2
  <1>11. ASSUME removed PROVE bal'[me] = 0
    <2>1. CASE to = me
      BY <1>2, <1>3, <1>5, <1>11, <2>1
    <2>2. CASE to # me
      <3>1. bal'[me] = bal[me] + Moved(cs, me)
        BY <1>2, <1>10, <1>11
      <3>2. Moved(cs, me) = -value + 0
        BY <1>1, <1>6, <2>2 DEF Moved, fromInflation
      <3>3. bal[me] = value
        BY DEF value
      <3>4. QED
        BY <1>3, <3>1, <3>2, <3>3
    <2>3. QED
      BY <2>1, <2>2
  <1>12. Placed(Current')
    <2>1. destroyed' \subseteq Account
      BY <1>2, <1>5 DEF Typed
    <2>2. destroyed' \subseteq Has(Current')
      BY <1>2, <1>5 DEF Placed, Current, Has
    <2>3. Cancun => destroyed' \subseteq created'
      BY <1>2, <1>5 DEF Placed, Current, removed
    <2>4. code' \subseteq Contracts \cup Fresh /\ created' \subseteq Fresh
          /\ code' \subseteq Account /\ created' \subseteq Account
      BY <1>2, <1>5, ConstantsAre DEF Placed, Current
    <2>5. QED
      BY <1>9, <2>1, <2>2, <2>3, <2>4 DEF Placed, Current, Saved, Has
  <1>13. Leads(cs, Current, Current')
    <2>1. ~fromInflation(cs) /\ cs.from = me /\ cs.type = "SELFDESTRUCT" /\ ~cs.revert
      BY <1>1, <1>6 DEF fromInflation
    <2>2. destroyed' = destroyed \cup (IF Removed(cs, Current) THEN {me} ELSE {})
      BY <1>5, <1>7
    <2>3. Removed(cs, Current) => bal'[me] = 0 /\ \A a \in Account : bal'[a] = bal[a] + Moved(cs, a)
      BY <1>7, <1>10, <1>11
    <2>4. me \in Has(Current) /\ code' = code /\ created' = created
      BY <1>2, <1>5
    <2>5. /\ Current.bal = bal /\ Current.code = code /\ Current.created = created
          /\ Current.destroyed = destroyed
          /\ Current'.bal = bal' /\ Current'.code = code' /\ Current'.created = created'
          /\ Current'.destroyed = destroyed'
      BY DEF Current
    <2>6. QED
      BY <2>1, <2>2, <2>3, <2>4, <2>5 DEF Leads
  <1>14. QED
    BY <1>1, <1>4, <1>5, <1>6, <1>12, <1>13, GoesOnCalling DEF cs

LEMMA ReturnInv ==
  ASSUME IInv, Return
  PROVE  IInv'
  <1>1. /\ stack # <<>> /\ stack' = Tail(stack)
        /\ code' = IF trace[stack[1].call].type = "CREATE" THEN code \cup {me} ELSE code
        /\ bal' = bal /\ created' = created /\ destroyed' = destroyed /\ phase' = phase
        /\ tx' = tx /\ trace' = trace /\ before' = before /\ txs' = txs
    BY DEF Return
  <1>2. /\ phase = "running" /\ Running /\ Typed /\ Placed(Current) /\ me \in Has(Current)
        /\ stack[1] \in FrameType
    BY <1>1, Going
  <1>3. Has(Current') = Has(Current)
    BY <1>1, <1>2 DEF Has, Current
  <1>4. Placed(Current')
    <2>1. me \in Contracts \cup Fresh
      BY <1>2 DEF FrameType, me
    <2>2. QED
      BY <1>1, <1>2, <1>3, <2>1, ConstantsAre DEF Placed, Current, Saved
  <1>5. Follows(init(trace), Len(trace), Current, start)
        /\ Stacked(stack, trace, Current, start)
    BY <1>2 DEF Running
  <1>6. Follows(init(trace'), Len(trace'), Current', start)
    <2> DEFINE cs == init(trace)
               k == Len(trace)
    <2>0. /\ Current'.bal = Current.bal /\ Current'.destroyed = Current.destroyed
          /\ Current'.created = Current.created /\ Current.code \subseteq Current'.code
      BY <1>1 DEF Current
    <2> HIDE DEF cs, k
    <2>1. Follows(cs, k, Current, start)
      BY <1>5 DEF cs, k
    <2>2. Lasting(cs, k, Current')
      BY <2>0, <2>1 DEF Follows, Lasting
    <2>3. ASSUME TookEffect(cs, k, Current')
          PROVE  Accounted(cs, k, Current', start) /\ Held(cs, k, Current')
      <3>1. TookEffect(cs, k, Current)
        BY <2>0, <2>3 DEF TookEffect
      <3>2. Accounted(cs, k, Current, start) /\ Held(cs, k, Current)
        BY <2>1, <3>1 DEF Follows
      <3>3. QED
        BY <2>0, <3>2 DEF Accounted, Held
    <2>4. Follows(cs, k, Current', start)
      BY <1>4, <2>2, <2>3 DEF Follows
    <2>5. QED
      BY <1>1, <2>4 DEF cs, k
  <1>7. Stacked(stack', trace', Current', start)
    <2>1. Stacked(Tail(stack), trace, Current, start)
      BY <1>1, <1>5, StackedTail
    <2>2. Stacked(Tail(stack), trace, Current', start)
      BY <1>3, <2>1, StackedHas
    <2>3. QED
      BY <1>1, <2>2
  <1>8. QED
    BY <1>1, <1>2, <1>6, <1>7, GoesOn DEF Typed

LEMMA RevertInv ==
  ASSUME IInv, Revert
  PROVE  IInv'
  <1> DEFINE f == stack[1]
  <1>1. /\ stack # <<>> /\ stack' = Tail(stack)
        /\ trace' = [trace EXCEPT ![f.call].error = TRUE]
        /\ bal' = f.saved.bal /\ code' = f.saved.code /\ created' = f.saved.created
        /\ destroyed' = f.saved.destroyed
        /\ tx' = [tx EXCEPT !.success = f.call # 1]
        /\ phase' = phase /\ before' = before /\ txs' = txs
    BY DEF Revert
  <1>2. /\ phase = "running" /\ Running /\ Typed /\ start \in [Account -> Int]
        /\ f \in FrameType /\ f.call \in 1 .. Len(trace) /\ Framed(f, trace, start)
    BY <1>1, Going
  <1>3. Rooted(trace)
    BY <1>2 DEF Typed
  <1>4. Failed(trace, trace', f.call)
    BY <1>1, <1>2, <1>3, RevertFails
  <1>5. Follows(init(trace'), Len(trace'), f.saved, start)
    BY <1>2, <1>3, <1>4, RevertFollows
  <1>6. Stacked(stack, trace, Current, start)
    BY <1>2 DEF Running
  <1>7. Stacked(Tail(stack), trace', f.saved, start)
    BY <1>1, <1>3, <1>4, <1>6, StackedRevert
  <1>8. Current' = f.saved
    <2>1. f.saved \in Saved
      BY <1>2 DEF FrameType
    <2>2. f.saved = [bal |-> f.saved.bal, code |-> f.saved.code, created |-> f.saved.created,
                     destroyed |-> f.saved.destroyed]
      BY <2>1 DEF Saved
    <2>3. QED
      BY <1>1, <2>2 DEF Current
  <1>9. tx' \in [from : Account, to : Account, lowGas : BOOLEAN, success : BOOLEAN] /\ tx'.from = tx.from
    <2>1. (f.call # 1) \in BOOLEAN
      OBVIOUS
    <2>2. QED
      BY <1>1, <1>2, <2>1 DEF Typed
  <1>10. Rooted(trace')
    BY <1>4 DEF Failed
  <1>11. txs' \in 0 .. MaxTxs
    BY <1>1, <1>2 DEF Typed
  <1> HIDE DEF f
  <1>12. QED
    BY <1>1, <1>2, <1>5, <1>7, <1>8, <1>9, <1>10, <1>11, GoesOn

LEMMA SendInv ==
  ASSUME IInv, NEW from \in Users, NEW to \in Target, NEW value \in Values, NEW lowGas \in BOOLEAN,
         SendTransaction(from, to, value, lowGas)
  PROVE  IInv'
  <1> DEFINE type == IF to \in Fresh THEN "CREATE" ELSE "CALL"
             charged == [bal EXCEPT ![from] = @ - Fee]
             call == Call(type, from, to, value, 0)
             cs == Inited(call)
             f == Frame(to, to, 1, charged)
             S == [bal |-> charged, code |-> code, created |-> {}, destroyed |-> {}]
             u == <<call>>
  <1>1. /\ Typed /\ created = {} /\ destroyed = {} /\ trace = <<>>
    BY DEF IInv, SendTransaction
  <1>2. /\ from \in Account /\ to \in Account /\ value \in Nat /\ Fee \in Nat /\ bal \in [Account -> Nat]
        /\ code \subseteq Contracts \cup Fresh /\ Rooted(<<>>) /\ MaxTxs \in Nat /\ txs \in 0 .. MaxTxs
    BY <1>1, ConstantsAre, ConstantsAssumption DEF Typed
  <1>3. /\ phase' = "running" /\ txs' = txs + 1 /\ txs < MaxTxs /\ value + Fee <= bal[from]
        /\ to \in Fresh => to \notin code
        /\ tx' = [from |-> from, to |-> to, lowGas |-> lowGas, success |-> TRUE]
        /\ trace' = u /\ before' = bal /\ bal' = Transfer(charged, from, to, value)
        /\ created' = IF type = "CREATE" THEN {to} ELSE {}
        /\ stack' = IF type = "CREATE" \/ to \in code THEN <<f>> ELSE <<>>
        /\ code' = code /\ destroyed' = {}
    BY <1>1 DEF SendTransaction
  <1>4. charged \in [Account -> Nat] /\ charged \in [Account -> Int] /\ value <= charged[from]
    <2>1. bal[from] - Fee \in Nat /\ value <= bal[from] - Fee
      BY <1>2, <1>3
    <2>2. QED
      BY <1>2, <2>1
  <1>5. start' = charged
    BY <1>3 DEF start, StartOf
  <1> HIDE DEF charged
  <1>6. /\ call \in TraceCall /\ ~call.error /\ call.parent = 0 /\ call.type = type /\ call.to = to
        /\ cs = [type |-> type, from |-> from, to |-> to, value |-> value, revert |-> FALSE]
        /\ type \in {"CALL", "CREATE"}
    BY <1>2 DEF Call, TraceCall, Inited, TraceType
  <1>7. type = "CREATE" => to \in Fresh /\ to \notin code
    BY <1>3
  <1> HIDE DEF call, cs, type
  <1>8. Longer(<<>>, u, call)
    <2>1. u = Append(<<>>, call) /\ call.parent \in 0 .. Len(<<>>)
      BY <1>6
    <2>2. QED
      BY <1>2, <1>6, <2>1, TracedLonger
  <1> HIDE DEF u
  <1>9. Rooted(u) /\ Len(u) = 1 /\ ~Reverts(u)[1]
    BY <1>6, <1>8 DEF Longer
  <1>10. u[1] = call /\ init(u)[1] = cs /\ init(u) \in Seq(Calls) /\ Len(init(u)) = 1
    <2>1. init(u)[Len(u)] = cs /\ init(u) \in Seq(Calls) /\ Len(init(u)) = Len(u)
      BY <1>6, <1>8, InitLast DEF cs
    <2>2. u[Len(u)] = call
      BY <1>8 DEF Longer
    <2>3. QED
      BY <1>9, <2>1, <2>2
  <1>11. Placed(S)
    BY <1>2, <1>4, ConstantsAre DEF Placed, Saved, Has
  <1>12. S.bal = charged /\ S.destroyed = {} /\ S.code = code /\ S.created = {}
    OBVIOUS
  <1> HIDE DEF S
  <1>13. Follows(init(u), 0, S, charged)
    BY <1>4, <1>10, <1>11, <1>12, FollowsNothing
  <1>14. bal' \in [Account -> Nat]
    BY <1>2, <1>3, <1>4, TransferType
  <1>15. \A a \in Account : bal'[a] = charged[a] + Moved(cs, a)
    <2>1. cs.from = from /\ cs.to = to /\ cs.value = value /\ ~ToItself(cs) /\ value \in Int
      BY <1>2, <1>6 DEF ToItself
    <2>2. \A a \in Account : Transfer(charged, from, to, value)[a] = charged[a] + Moved(cs, a)
      BY <1>2, <1>4, <2>1, TransferMoves
    <2>3. QED
      BY <1>3, <2>2
  <1>16. /\ Current'.bal = bal' /\ Current'.code = code' /\ Current'.created = created'
         /\ Current'.destroyed = destroyed'
    BY DEF Current
  <1>17. Placed(Current')
    BY <1>2, <1>3, <1>7, <1>14, ConstantsAre DEF Placed, Saved, Has, Current
  <1>18. Leads(cs, S, Current')
    BY <1>3, <1>6, <1>7, <1>12, <1>15, <1>16 DEF Leads
  <1>19. Follows(init(u), 1, Current', charged)
    <2>1. 1 \in 1 .. Len(init(u)) /\ 1 - 1 = 0
      BY <1>10
    <2>2. Follows(init(u), 1 - 1, S, charged) /\ Leads(init(u)[1], S, Current')
      BY <1>10, <1>13, <1>18, <2>1
    <2>3. QED
      BY <1>4, <1>10, <1>17, <2>1, <2>2, FollowsCall
  <1>20. Stacked(stack', u, Current', charged)
    <2>1. <<>> \in Seq(FrameType) /\ Len(<<>>) = 0
      BY EmptySequence
    <2>2. Stacked(<<>>, u, Current', charged) /\ Stacked(<<>>, u, S, charged)
      BY <2>1 DEF Stacked, Nested
    <2>3. CASE stack' = <<>>
      BY <2>2, <2>3
    <2>4. CASE stack' # <<>>
      <3>1. stack' = <<f>> /\ (type = "CREATE" \/ to \in code)
        BY <1>3, <2>4
      <3>2. to \in Contracts \cup Fresh
        BY <1>2, <1>7, <3>1
      <3>3. f = [self |-> to, runs |-> to, call |-> 1, saved |-> S]
        BY <1>1 DEF Frame, S
      <3>4. f \in FrameType /\ f.call = 1 /\ f.saved = S /\ f.self = to
        BY <1>11, <3>2, <3>3 DEF FrameType, Placed
      <3> HIDE DEF f
      <3>5. Framed(f, u, charged)
        <4>1. /\ f.call \in 1 .. Len(u) /\ ~Reverts(u)[f.call] /\ f.call - 1 = 0
              /\ \A i \in f.call + 1 .. Len(u) : u[i].parent >= f.call
              /\ \A i \in f.call .. Len(u) : u[i].type = "CREATE" => u[i].to \notin f.saved.destroyed
          BY <1>9, <1>12, <3>4
        <4>2. Follows(init(u), f.call - 1, f.saved, charged)
          BY <1>13, <3>4, <4>1
        <4>3. QED
          BY <4>1, <4>2 DEF Framed
      <3>6. to \in Has(Current') /\ Has(S) \subseteq Has(Current')
        BY <1>3, <1>12, <1>16, <3>1 DEF Has
      <3>7. Stacked(<<f>> \o <<>>, u, Current', charged)
        <4> DEFINE st == <<>>
        <4>1. \A i \in 1 .. Len(st) : st[i].call < f.call
          OBVIOUS
        <4>2. Stacked(st, u, S, charged)
          BY <2>2
        <4> HIDE DEF st
        <4>3. Stacked(<<f>> \o st, u, Current', charged)
          BY <3>4, <3>5, <3>6, <4>1, <4>2, StackedEnter
        <4>4. QED
          BY <4>3 DEF st
      <3>8. <<f>> \o <<>> = <<f>>
        OBVIOUS
      <3>9. QED
        BY <3>1, <3>7, <3>8
    <2>5. QED
      BY <2>3, <2>4
  <1>21. Running'
    BY <1>3, <1>5, <1>9, <1>19, <1>20 DEF Running
  <1>22. Typed'
    <2>1. created' \subseteq Fresh
      BY <1>3, <1>7
    <2>2. tx' \in [from : Account, to : Account, lowGas : BOOLEAN, success : BOOLEAN]
      BY <1>2, <1>3
    <2>3. QED
      BY <1>2, <1>3, <1>9, <1>14, <2>1, <2>2 DEF Typed
  <1>23. QED
    BY <1>3, <1>21, <1>22 DEF IInv, ReplayMatchesEVM, NeverFatal, OperationsNumbered, InAccounts

LEMMA AnsweredInv ==
  ASSUME IInv, Answered
  PROVE  IInv'
  <1>1. phase' = "idle" /\ stack' = <<>> /\ trace' = <<>> /\ created' = {} /\ destroyed' = {}
    BY DEF IInv, Answered
  <1>2. NoTx \in [from : Account, to : Account, lowGas : BOOLEAN, success : BOOLEAN]
    BY ConstantsAre DEF NoTx
  <1>3. Rooted(<<>>)
    <2>1. <<>> \in Seq(TraceCall)
      BY EmptySequence
    <2>2. QED
      BY <2>1 DEF Rooted
  <1>4. Typed'
    BY <1>1, <1>2, <1>3 DEF IInv, Typed, Answered
  <1>5. QED
    BY <1>1, <1>4 DEF IInv, ReplayMatchesEVM, NeverFatal, OperationsNumbered, InAccounts

(* At the end of a transaction the properties follow. *)
LEMMA FinaliseInv ==
  ASSUME IInv, Finalise
  PROVE  IInv'
  <1> DEFINE cs == init(trace)
             N == Len(trace)
             fee == Charged
             D == destroyedAccounts(cs)
             os == NativeOps(tx, fee, cs)
             half == [bal EXCEPT ![tx.from] = @ + Fee - fee]
             paid == [half EXCEPT ![burnAddress] = @ + fee]
  <1>1. /\ phase = "running" /\ stack = <<>> /\ phase' = "mined" /\ stack' = <<>>
        /\ bal' = [acct \in Account |-> IF acct \in destroyed THEN 0 ELSE paid[acct]]
        /\ code' = code \ destroyed /\ created' = created /\ destroyed' = destroyed
        /\ tx' = tx /\ trace' = trace /\ before' = before /\ txs' = txs
    BY DEF Finalise
  <1>2. Typed /\ Running
    BY <1>1 DEF IInv
  <1>3. /\ tx.from \in Users /\ tx.from \in Account /\ tx.from \notin Contracts \cup Fresh
        /\ burnAddress \in Account /\ burnAddress \notin Contracts \cup Fresh
    BY <1>2, ConstantsAre DEF Running
  <1>4. Fee \in Nat /\ fee \in 0 .. Fee /\ fee \in Nat
    BY ConstantsAssumption DEF Charged
  <1>5. bal \in [Account -> Nat] /\ before \in [Account -> Nat] /\ Rooted(trace)
    BY <1>2 DEF Typed
  <1>6. txFee(tx, Fee, ftsoTxFee) = fee
    BY DEF txFee, Charged
  <1>7. calls' = cs /\ ops' = os
    BY <1>1, <1>6 DEF calls, ops
  <1>8. cs \in Seq(Calls) /\ Len(cs) = N /\ DOMAIN cs = 1 .. N
    BY <1>5, InitIs DEF InitOf
  <1>9. Follows(cs, N, Current, start)
    BY <1>2 DEF Running
  <1> HIDE DEF cs, N, fee
  <1>10. IsFiniteSet(Account)
    BY ConstantsAssumption
  <1>11. Natives(os, tx, fee, cs)
    BY <1>3, <1>4, <1>8, <1>10, NativeOpsAre
  <1> HIDE DEF os
  <1>12. D = destroyedAfter(cs)[N] /\ D \in Holdings
    BY <1>8, <1>10, TraceOps DEF destroyedAccounts
  <1> HIDE DEF D
  <1>13. \A acct \in Account :
            /\ paid[acct] = bal[acct] + ((IF acct = tx.from THEN Fee - fee ELSE 0)
                                         + (IF acct = burnAddress THEN fee ELSE 0))
            /\ paid[acct] \in Nat
    <2>1. \A acct \in Account : /\ half[acct] = bal[acct] + (IF acct = tx.from THEN Fee - fee ELSE 0)
                                /\ half[acct] \in Nat
      BY <1>3, <1>4, <1>5
    <2>2. DOMAIN half = Account
      BY <1>5
    <2> HIDE DEF half
    <2>4. \A acct \in Account : paid[acct] = half[acct] + (IF acct = burnAddress THEN fee ELSE 0)
      BY <1>3, <1>4, <2>1, <2>2
    <2> HIDE DEF paid
    <2>5. \A acct \in Account : bal[acct] \in Nat
      BY <1>5
    <2>6. QED
      BY <1>4, <2>1, <2>4, <2>5
  <1> HIDE DEF paid
  <1>14. bal' \in [Account -> Nat]
    BY <1>1, <1>13
  <1>15. destroyed \subseteq Contracts \cup Fresh /\ destroyed \subseteq Account
    <2>1. Placed(Current)
      BY <1>9 DEF Follows
    <2>2. QED
      BY <2>1 DEF Placed, Current, Has, Saved
  <1>16. ASSUME DestructsTookEffect', NothingBorrowed'
         PROVE  /\ \A acct \in Account : bal[acct] = start[acct] + Effect(cs, N, acct)
                /\ DOMAIN D = destroyed /\ \A acct \in destroyed : D[acct] = bal[acct]
    <2>1. \A i \in 1 .. N : cs[i].type = "SELFDESTRUCT" => ~cs[i].revert /\ cs[i].from \in destroyed
      BY <1>1, <1>7, <1>8, <1>16 DEF DestructsTookEffect
    <2>2. \A i \in 1 .. N : cs[i].type \in {"CALLCODE", "DELEGATECALL"} => cs[i].value = 0
      BY <1>7, <1>8, <1>16 DEF NothingBorrowed
    <2>3. Current.destroyed = destroyed /\ Current.bal = bal
      BY DEF Current
    <2>4. TookEffect(cs, N, Current)
      BY <2>1, <2>2, <2>3 DEF TookEffect
    <2>5. Accounted(cs, N, Current, start) /\ Held(cs, N, Current)
      BY <1>9, <2>4 DEF Follows
    <2>6. QED
      BY <1>12, <2>3, <2>5 DEF Accounted, Held
  <1>17. ASSUME DestructsTookEffect', NothingBorrowed', NEW acct \in Account
         PROVE  bal'[acct] = before[acct] + Applied(os, acct, FlareCurrency)
    <2>1. /\ bal[acct] = start[acct] + Effect(cs, N, acct)
          /\ DOMAIN D = destroyed /\ \A a \in destroyed : D[a] = bal[a]
      BY <1>16, <1>17
    <2>2. start[acct] = IF acct = tx.from THEN before[acct] - Fee ELSE before[acct]
      BY <1>3, <1>4, <1>5 DEF start, StartOf
    <2>3. Effect(cs, N, acct) \in Int
      <3>1. N \in 0 .. Len(cs)
        BY <1>8
      <3>2. QED
        BY <1>8, <3>1, EffectSteps
    <2>4. Applied(os, acct, FlareCurrency)
            = Charges(acct, tx.from, fee) + (Effect(cs, N, acct) + TakenAway(D, acct))
      BY <1>8, <1>11 DEF Natives, D
    <2>5. bal[acct] \in Nat /\ before[acct] \in Nat
      BY <1>5
    <2>6. CASE acct \in destroyed
      <3>1. bal'[acct] = 0
        BY <1>1, <2>6
      <3>2. acct # tx.from /\ acct # burnAddress
        BY <1>3, <1>15, <2>6
      <3>3. TakenAway(D, acct) = -bal[acct]
        BY <2>1, <2>6 DEF TakenAway
      <3>4. Charges(acct, tx.from, fee) = 0 + 0
        BY <3>2 DEF Charges
      <3>5. bal[acct] = before[acct] + Effect(cs, N, acct)
        BY <2>1, <2>2, <3>2
      <3>6. QED
        BY <2>3, <2>4, <2>5, <3>1, <3>3, <3>4, <3>5
    <2>7. CASE acct \notin destroyed
      <3>1. bal'[acct] = paid[acct]
        BY <1>1, <2>7
      <3>2. TakenAway(D, acct) = 0
        BY <2>1, <2>7 DEF TakenAway
      <3>3. Charges(acct, tx.from, fee)
              = (IF acct = tx.from THEN -fee ELSE 0) + (IF acct = burnAddress THEN fee ELSE 0)
        BY DEF Charges
      <3>4. paid[acct] = bal[acct] + ((IF acct = tx.from THEN Fee - fee ELSE 0)
                                       + (IF acct = burnAddress THEN fee ELSE 0))
        BY <1>13
      <3>5. QED
        BY <1>4, <2>1, <2>2, <2>3, <2>4, <2>5, <3>1, <3>2, <3>3, <3>4
    <2>8. QED
      BY <2>6, <2>7
  <1>18. ReplayMatchesEVM'
    BY <1>1, <1>7, <1>17 DEF ReplayMatchesEVM
  <1>19. NeverFatal'
    <2>1. ASSUME DestructsTookEffect', NothingBorrowed', Fatal(cs) PROVE FALSE
      <3>1. PICK acct \in DOMAIN D : D[acct] < 0
        BY <2>1 DEF Fatal, D
      <3>2. acct \in destroyed /\ D[acct] = bal[acct]
        BY <1>16, <2>1, <3>1
      <3>3. bal[acct] \in Nat
        BY <1>5, <1>15, <3>2
      <3>4. QED
        BY <3>1, <3>2, <3>3
    <2>2. QED
      BY <1>7, <2>1 DEF NeverFatal
  <1>20. os \in Seq(Ops) /\ Numbered(os, 0) /\ DOMAIN os = 1 .. Len(os)
    BY <1>11 DEF Natives
  <1>21. OperationsNumbered'
    <2>1. ASSUME NEW i \in DOMAIN os
          PROVE  /\ os[i].index = i - 1
                 /\ os[i].related # -1 =>
                       /\ os[i].related < os[i].index
                       /\ os[os[i].related + 1].val \in {-os[i].val, 0}
      <3>1. i \in 1 .. Len(os)
        BY <1>20
      <3>2. os[i] \in Ops
        BY <1>20, <3>1
      <3>3. os[i].related \in Int /\ os[i].index \in Int
        BY <3>2 DEF Ops
      <3>4. /\ os[i].index = 0 + i - 1
            /\ os[i].related # -1 =>
                  /\ os[i].related \in 0 .. os[i].index - 1
                  /\ os[os[i].related - 0 + 1].val \in {-os[i].val, 0}
        BY <1>20, <3>1 DEF Numbered
      <3>5. os[i].related - 0 + 1 = os[i].related + 1 /\ 0 + i - 1 = i - 1
        BY <3>1, <3>3
      <3>6. os[i].related # -1 => os[i].related < os[i].index
        BY <3>3, <3>4
      <3>7. QED
        BY <3>4, <3>5, <3>6
    <2>2. QED
      BY <1>7, <2>1 DEF OperationsNumbered
  <1>22. InAccounts'
    <2>1. \A i \in DOMAIN os : os[i] \in Ops
      BY <1>20
    <2>2. \A i \in DOMAIN os : os[i].acct \in Account
      BY <2>1 DEF Ops
    <2>3. QED
      BY <1>7, <2>2 DEF InAccounts
  <1>23. Typed'
    BY <1>1, <1>2, <1>14 DEF Typed
  <1>24. QED
    BY <1>1, <1>18, <1>19, <1>21, <1>22, <1>23 DEF IInv

LEMMA NextInv == IInv /\ [Next]_vars => IInv'
  <1> SUFFICES ASSUME IInv, [Next]_vars PROVE IInv'
    OBVIOUS
  <1>1. ASSUME NEW from \in Users, NEW to \in Target, NEW value \in Values, NEW lowGas \in BOOLEAN,
               SendTransaction(from, to, value, lowGas)
        PROVE  IInv'
    BY <1>1, SendInv
  <1>2. ASSUME NEW to \in Target, NEW value \in Values, CallAccount(to, value) PROVE IInv'
    BY <1>2, CallAccountInv
  <1>3. ASSUME NEW type \in {"CALLCODE", "DELEGATECALL"}, NEW to \in Contracts, NEW value \in Values,
               CallCode(type, to, value)
        PROVE  IInv'
    BY <1>3, CallCodeInv
  <1>4. ASSUME NEW to \in Fresh, NEW value \in Values, Create(to, value) PROVE IInv'
    BY <1>4, CreateInv
  <1>5. ASSUME NEW to \in Target, SelfDestruct(to) PROVE IInv'
    BY <1>5, SelfDestructInv
  <1>6. CASE Return
    BY <1>6, ReturnInv
  <1>7. CASE Revert
    BY <1>7, RevertInv
  <1>8. CASE Finalise
    BY <1>8, FinaliseInv
  <1>9. CASE Answered
    BY <1>9, AnsweredInv
  <1>10. CASE UNCHANGED vars
    <2>1. /\ bal' = bal /\ code' = code /\ created' = created /\ destroyed' = destroyed
          /\ stack' = stack /\ phase' = phase /\ tx' = tx /\ trace' = trace
          /\ before' = before /\ txs' = txs
      BY <1>10 DEF vars
    <2>2. calls' = calls /\ ops' = ops
      BY <2>1 DEF calls, ops
    <2>3. Typed' = Typed /\ InAccounts' = InAccounts /\ OperationsNumbered' = OperationsNumbered
      BY <2>1, <2>2 DEF Typed, InAccounts, OperationsNumbered
    <2>4. ReplayMatchesEVM' = ReplayMatchesEVM /\ NeverFatal' = NeverFatal
      BY <2>1, <2>2 DEF ReplayMatchesEVM, NeverFatal, DestructsTookEffect, NothingBorrowed
    <2>5. Running' = Running
      BY <2>1 DEF Running, start, Current
    <2>6. QED
      BY <2>1, <2>3, <2>4, <2>5 DEF IInv
  <1>11. QED
    BY <1>1, <1>2, <1>3, <1>4, <1>5, <1>6, <1>7, <1>8, <1>9, <1>10 DEF Next

LEMMA InvHolds == Spec => []IInv
  BY InitInv, NextInv, PTL DEF Spec

(* The EVM of the model stays in its types, and every operation the server *)
(* makes of a transaction is about one of its accounts.                    *)
THEOREM TraceTypeCorrect == Spec => []TypeOK
  <1>1. IInv => TypeOK
    <2> SUFFICES ASSUME IInv PROVE TypeOK
      OBVIOUS
    <2>1. Typed /\ InAccounts
      BY DEF IInv
    <2>2. /\ trace \in Seq(TraceCall) /\ DOMAIN trace = 1 .. Len(trace)
          /\ \A i \in 1 .. Len(trace) : trace[i].parent \in 0 .. i - 1
      BY <2>1 DEF Typed, Rooted
    <2>3. \A i \in DOMAIN stack : stack[i].call \in DOMAIN trace /\ stack[i].saved \in Saved
      <3>1. CASE stack = <<>>
        BY <3>1
      <3>2. CASE stack # <<>>
        <4>1. Stacked(stack, trace, Current, start)
          BY <3>2, Going DEF Running
        <4>2. stack \in Seq(FrameType) /\ \A i \in 1 .. Len(stack) : Framed(stack[i], trace, start)
          BY <4>1 DEF Stacked
        <4>3. DOMAIN stack = 1 .. Len(stack)
          BY <4>2
        <4>4. ASSUME NEW i \in 1 .. Len(stack)
              PROVE  stack[i].call \in DOMAIN trace /\ stack[i].saved \in Saved
          <5>1. stack[i] \in FrameType
            BY <4>2
          <5>2. QED
            BY <2>2, <4>2, <5>1 DEF FrameType, Framed
        <4>5. QED
          BY <4>3, <4>4
      <3>3. QED
        BY <3>1, <3>2
    <2>4. QED
      BY <2>1, <2>2, <2>3, ConstantsAre DEF Typed, TypeOK, InAccounts
  <1>2. QED
    BY <1>1, InvHolds, PTL

(* Replaying the operations of a transaction over the balances before it   *)
(* gives the EVM's balances after it.                                      *)
THEOREM ReplayCorrect == Spec => []ReplayMatchesEVM
  <1>1. IInv => ReplayMatchesEVM
    BY DEF IInv
  <1>2. QED
    BY <1>1, InvHolds, PTL

(* The process never ends over what a destroyed account holds. *)
THEOREM NotFatal == Spec => []NeverFatal
  <1>1. IInv => NeverFatal
    BY DEF IInv
  <1>2. QED
    BY <1>1, InvHolds, PTL

(* Operations are numbered, and name the operations they belong to. *)
THEOREM NumbersCorrect == Spec => []OperationsNumbered
  <1>1. IInv => OperationsNumbered
    BY DEF IInv
  <1>2. QED
    BY <1>1, InvHolds, PTL

=============================================================================
