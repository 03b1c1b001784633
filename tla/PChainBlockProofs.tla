-------------------------- MODULE PChainBlockProofs --------------------------
(***************************************************************************)
(* Proofs about PChainBlock, for any chain, any requests and any number of *)
(* handlers and of dependencies, with and without memory that is in order. *)
(***************************************************************************)
EXTENDS PChainBlock, FiniteSetTheorems, TLAPS

-----------------------------------------------------------------------------
(* The inductive invariant *)

(* The state that is shared, and the functions over the handlers *)
Errors == {"none", "rpc", "utxo", "canceled"}

SharedInv ==
    /\ accepted \in 0 .. Len(Chain)
    /\ indexed \in 0 .. accepted
    /\ faults \in [Handlers -> Nat]
    /\ transferable \in BOOLEAN
    /\ allocationTx \in Goroutine \cup {Nil}
    /\ spare \in Goroutine \cup {Nil}
    /\ pc \in [Handlers -> Label]
    /\ since \in [Handlers -> {"unknown", "found", "followed"}]
    /\ ctxErr \in [Handlers -> Errors]
    /\ DOMAIN req = Handlers /\ DOMAIN time = Handlers /\ DOMAIN gpc = Handlers
    /\ DOMAIN msg = Handlers /\ DOMAIN blkDeps = Handlers /\ DOMAIN resp = Handlers

(* Whether handler r may not see the fields of the allocation alloc *)
MayNotSee(r, alloc) == WeakMemory /\ OfOther(r, alloc)

(* An answer has a time and all operations, and an error has a reason: a   *)
(* transaction is not in the block, one of the request's RPCs failed (n of *)
(* them), or it is excused by the block or the allocation.                 *)
Fine(r, x) ==
    /\ req[r].tx = NoTx => x.time >= GenesisTime
    /\ x.whole \/ MayNotSee(r, x.alloc)

Excused(r, alloc) ==
    \/ since[r] = "unknown"
    \/ NeedsAllocation(req[r]) /\ (~transferable \/ MayNotSee(r, alloc))

Founded(r, code, alloc, n) ==
    IF code = "TransactionNotFound" THEN req[r].tx \notin Transactions(req[r].n)
    ELSE n > 0 \/ Excused(r, alloc)

(* A handler's request, block and response *)
RequestInv(r) ==
    /\ req[r] \in Requests[r] \cup {NoReq}
    /\ since[r] = "followed" => req[r].n < accepted
    /\ pc[r] \in {"alloc", "build", "append", "genesis"} => req[r].n = 0
    /\ pc[r] \in {"block", "wait", "parse"} => req[r].n > 0
    /\ pc[r] \in {"wait", "parse"} => req[r].n \in Height /\ time[r] \in Nat /\ time[r] >= GenesisTime
    /\ since[r] # "unknown" => Found(req[r])
    /\ pc[r] # "done" => resp[r].status = "none"
    /\ resp[r].status = "ok" => Fine(r, resp[r])
    /\ resp[r].status = "err" => Founded(r, resp[r].code, resp[r].alloc, faults[r])

(* Its goroutines: there is one for each dependency while it waits, and    *)
(* none that is active otherwise; if one has failed, the group knows, and  *)
(* it was an RPC, or the block needs an allocation that cannot be built.   *)
GroupInv(r) ==
    /\ pc[r] \in {"wait", "parse"} =>
        DOMAIN gpc[r] = DOMAIN deps(r) /\ DOMAIN msg[r] = DOMAIN deps(r)
    /\ \A i \in DOMAIN gpc[r] : gpc[r][i] \in Active \cup {"ok", "err"}
    /\ \A i \in DOMAIN msg[r] : msg[r][i] \in Message \cup {NoMsg}
    /\ pc[r] # "wait" => \A i \in DOMAIN gpc[r] : gpc[r][i] \notin Active
    /\ ctxErr[r] = "none" => \A i \in DOMAIN gpc[r] : gpc[r][i] # "err"
    /\ ctxErr[r] # "none" => faults[r] > 0 \/ (~transferable /\ NeedsAllocation(req[r]))
    /\ pc[r] = "idle" => ctxErr[r] = "none"

(* What a message says of transaction t *)
Right(r, m, t) ==
    /\ m \in Message
    /\ m.tx = t
    /\ m.rewarded => RewardIssued(t)
    /\ since[r] = "followed" /\ t \in Chain[req[r].n].rewards =>
            (m.rewarded <=> RewardedIn[t] # 0)

(* The messages: each is right from when it is made to when it is drained. *)
MessageInv(r) ==
    /\ pc[r] = "wait" => \A i \in DOMAIN deps(r) :
        /\ gpc[r][i] \in {"build", "alloc"} => deps(r)[i] = Empty
        /\ gpc[r][i] \in {"send", "ok"} => Right(r, msg[r][i], deps(r)[i])
    /\ pc[r] = "parse" =>
        /\ DOMAIN blkDeps[r] = {deps(r)[i] : i \in DOMAIN deps(r)}
        /\ \A t \in DOMAIN blkDeps[r] : Right(r, blkDeps[r][t], t)

HandlerInv(r) == RequestInv(r) /\ GroupInv(r) /\ MessageInv(r)

IInv == SharedInv /\ \A r \in Handlers : HandlerInv(r)

-----------------------------------------------------------------------------
(* Facts about the constants *)

(* A block has a sequence of dependencies, which are transaction IDs. *)
LEMMA BlockFacts ==
  ASSUME NEW n \in Height
  PROVE  /\ Chain[n] \in BlockType
         /\ Len(Chain[n].deps) \in Nat
         /\ DOMAIN Chain[n].deps = 1 .. Len(Chain[n].deps)
         /\ \A i \in DOMAIN Chain[n].deps : Chain[n].deps[i] \in TxID
  <1>1. Chain[n] \in BlockType
    BY ConstantsAssumption DEF Height
  <1>2. Chain[n].deps \in Seq(TxID)
    BY <1>1 DEF BlockType
  <1>3. QED
    BY <1>1, <1>2

(* Requests have a height. *)
LEMMA RequestFacts ==
  ASSUME NEW r \in Handlers, NEW q \in Requests[r] \cup {NoReq}
  PROVE  q.n \in Nat
  BY ConstantsAssumption DEF NoReq

(* The empty tuple has no elements. *)
LEMMA NilFacts == DOMAIN Nil = {}
  BY DEF Nil

-----------------------------------------------------------------------------
LEMMA InitIInv == Init => IInv
  <1> SUFFICES ASSUME Init PROVE IInv
    OBVIOUS
  <1>1. SharedInv
    BY ConstantsAssumption DEF Init, SharedInv, Label, Errors
  <1>2. ASSUME NEW r \in Handlers PROVE HandlerInv(r)
    <2>1. /\ pc[r] = "idle" /\ req[r] = NoReq /\ since[r] = "unknown" /\ gpc[r] = Nil
          /\ msg[r] = Nil /\ resp[r] = NoResp /\ ctxErr[r] = "none"
      BY DEF Init
    <2>2. RequestInv(r)
      BY <2>1 DEF RequestInv, NoReq, NoResp
    <2>3. GroupInv(r)
      BY <2>1, NilFacts DEF GroupInv
    <2>4. MessageInv(r)
      BY <2>1 DEF MessageInv
    <2>5. QED
      BY <2>2, <2>3, <2>4 DEF HandlerInv
  <1>3. QED
    BY <1>1, <1>2 DEF IInv

-----------------------------------------------------------------------------
(* Steps of others *)

(* What is right of a transaction stays so when blocks are accepted, once  *)
(* the block of the request is followed by another.                        *)
LEMMA RightStays ==
  ASSUME NEW r, NEW m, NEW t, Right(r, m, t),
         accepted \in Nat, accepted' \in Nat, accepted <= accepted',
         since'[r] = since[r], req'[r] = req[r]
  PROVE  Right(r, m, t)'
  <1>1. RewardIssued(t) => RewardIssued(t)'
    BY DEF RewardIssued
  <1>2. QED
    BY <1>1 DEF Right

(* Handler q does not move. *)
Still(q) ==
    /\ pc'[q] = pc[q] /\ req'[q] = req[q] /\ since'[q] = since[q] /\ time'[q] = time[q]
    /\ gpc'[q] = gpc[q] /\ msg'[q] = msg[q] /\ ctxErr'[q] = ctxErr[q]
    /\ blkDeps'[q] = blkDeps[q] /\ resp'[q] = resp[q] /\ faults'[q] = faults[q]

LEMMA OthersStill ==
  ASSUME SharedInv, SharedInv', accepted <= accepted', indexed <= indexed',
         transferable' = transferable,
         NEW q \in Handlers, HandlerInv(q), Still(q)
  PROVE  HandlerInv(q)'
  <1>1. /\ accepted \in Nat /\ accepted' \in Nat /\ indexed \in Nat /\ indexed' \in Nat
    BY ConstantsAssumption DEF SharedInv
  <1>2. req[q].n \in Nat
    BY RequestFacts DEF HandlerInv, RequestInv
  <1>3. RequestInv(q)'
    BY <1>1, <1>2 DEF HandlerInv, RequestInv, Still, Fine, Founded, Excused, MayNotSee, Found
  <1>4. GroupInv(q)'
    BY <1>1 DEF HandlerInv, GroupInv, Still, deps
  <1>5. \A m, t : Right(q, m, t) => Right(q, m, t)'
    BY <1>1, RightStays DEF Still
  <1>6. MessageInv(q)'
    BY <1>5 DEF HandlerInv, MessageInv, Still, deps
  <1>7. QED
    BY <1>3, <1>4, <1>6 DEF HandlerInv

(* A step of one handler, when no block is accepted *)
LEMMA OneMoves ==
  ASSUME IInv, SharedInv', accepted' = accepted, indexed' = indexed, transferable' = transferable,
         NEW r \in Handlers, HandlerInv(r)', \A q \in Handlers \ {r} : Still(q)
  PROVE  IInv'
  <1>1. accepted <= accepted' /\ indexed <= indexed'
    BY ConstantsAssumption DEF IInv, SharedInv
  <1>2. ASSUME NEW q \in Handlers \ {r} PROVE HandlerInv(q)'
    BY <1>1, OthersStill DEF IInv
  <1>3. QED
    BY <1>2 DEF IInv

(* A handler whose goroutines have ended goes where there is no block. *)
LEMMA NothingToWaitFor ==
  ASSUME SharedInv, SharedInv', NEW r \in Handlers, HandlerInv(r),
         \A i \in DOMAIN gpc[r] : gpc[r][i] \notin Active,
         pc'[r] \notin {"idle", "block", "wait", "parse"},
         pc'[r] # "done" => req[r].n = 0 /\ resp'[r].status = "none",
         req'[r] = req[r], since'[r] = since[r], accepted' = accepted, indexed' = indexed,
         transferable' = transferable, faults[r] <= faults'[r],
         gpc'[r] = gpc[r], msg'[r] = msg[r], ctxErr'[r] = ctxErr[r],
         resp'[r].status = "ok" => Fine(r, resp'[r]),
         resp'[r].status = "err" => Founded(r, resp'[r].code, resp'[r].alloc, faults'[r])
  PROVE  HandlerInv(r)'
  <1>1. faults[r] \in Nat /\ faults'[r] \in Nat
    BY DEF SharedInv
  <1>2. RequestInv(r)'
    BY <1>1 DEF HandlerInv, RequestInv, Fine, Founded, Excused, MayNotSee, Found
  <1>3. GroupInv(r)'
    BY <1>1 DEF HandlerInv, GroupInv
  <1>4. MessageInv(r)'
    BY DEF HandlerInv, MessageInv
  <1>5. QED
    BY <1>2, <1>3, <1>4 DEF HandlerInv

(* A handler outside the wait has no active goroutine. *)
LEMMA NoneActive ==
  ASSUME NEW r \in Handlers, HandlerInv(r), pc[r] # "wait"
  PROVE  \A i \in DOMAIN gpc[r] : gpc[r][i] \notin Active
  BY DEF HandlerInv, GroupInv

-----------------------------------------------------------------------------
(* Steps of a handler outside its group *)

LEMMA ReceiveIInv ==
  ASSUME IInv, NEW r \in Handlers, NEW q \in Requests[r], Receive(r, q)
  PROVE  IInv'
  <1>1. HandlerInv(r) /\ SharedInv /\ q.n \in Nat
    BY RequestFacts DEF IInv
  <1>2. /\ pc' = [pc EXCEPT ![r] = IF q.n = 0 THEN "alloc" ELSE "block"]
        /\ req' = [req EXCEPT ![r] = q]
        /\ since' = [since EXCEPT ![r] = Known(q)]
        /\ UNCHANGED <<accepted, indexed, transferable, allocationTx, spare, faults, time, gpc, msg, ctxErr, blkDeps, resp>>
    BY DEF Receive, Goto, isGenesisBlockRequest, nodeVars, sharedVars
  <1>3. /\ Known(q) \in {"unknown", "found", "followed"}
        /\ Known(q) = "followed" => q.n < accepted
        /\ Known(q) # "unknown" => Found(q)
    BY DEF Known
  <1>4. SharedInv'
    BY <1>1, <1>2, <1>3 DEF SharedInv, Label
  <1>5. /\ pc'[r] \in {"alloc", "block"} /\ (pc'[r] = "block" <=> q.n # 0)
        /\ req'[r] = q /\ since'[r] = Known(q) /\ pc[r] = "idle"
    BY <1>1, <1>2 DEF SharedInv, Receive
  <1>6. RequestInv(r)'
    <2>1. resp'[r] = resp[r] /\ resp[r].status # "ok" /\ resp[r].status # "err"
      BY <1>1, <1>2, <1>5 DEF HandlerInv, RequestInv
    <2>2. QED
      BY <1>1, <1>2, <1>3, <1>5, <2>1 DEF HandlerInv, RequestInv, Found
  <1>7. GroupInv(r)'
    BY <1>1, <1>2, <1>5 DEF HandlerInv, GroupInv
  <1>8. MessageInv(r)'
    BY <1>5 DEF MessageInv
  <1>9. \A h \in Handlers \ {r} : Still(h)
    BY <1>1, <1>2 DEF Still, SharedInv
  <1>10. QED
    BY <1>2, <1>4, <1>6, <1>7, <1>8, <1>9, OneMoves DEF HandlerInv

(* A handler that has nothing to wait for replies. *)
LEMMA ReplyIInv ==
  ASSUME IInv, NEW r \in Handlers,
         \A i \in DOMAIN gpc[r] : gpc[r][i] \notin Active,
         NEW x, Reply(r, x), x.status = "ok" => Fine(r, x),
         x.status = "err" => Founded(r, x.code, x.alloc, faults'[r]),
         accepted' = accepted, indexed' = indexed, transferable' = transferable,
         faults' \in [Handlers -> Nat], faults[r] <= faults'[r],
         \A h \in Handlers \ {r} : faults'[h] = faults[h],
         allocationTx' \in Goroutine \cup {Nil}, spare' \in Goroutine \cup {Nil},
         UNCHANGED <<req, since, time, gpc, msg, ctxErr, blkDeps>>
  PROVE  IInv'
  <1>1. HandlerInv(r) /\ SharedInv
    BY DEF IInv
  <1>2. pc' = [pc EXCEPT ![r] = "done"] /\ resp' = [resp EXCEPT ![r] = x]
    BY DEF Reply, Goto
  <1>3. SharedInv'
    BY <1>1, <1>2 DEF SharedInv, Label
  <1>4. HandlerInv(r)'
    <2>1. pc'[r] = "done" /\ resp'[r] = x
      BY <1>1, <1>2 DEF SharedInv
    <2>2. QED
      BY <1>1, <1>3, <2>1, NothingToWaitFor
  <1>5. \A h \in Handlers \ {r} : Still(h)
    BY <1>1, <1>2 DEF Still, SharedInv
  <1>6. QED
    BY <1>3, <1>4, <1>5, OneMoves

(* A step of handler r leaves everything as it is but its label, its       *)
(* response and its count of failed RPCs.                                  *)
OnlyReplies(r) ==
    /\ UNCHANGED <<nodeVars, sharedVars, req, since, time, gpc, msg, ctxErr, blkDeps>>
    /\ faults' \in [Handlers -> Nat] /\ faults[r] <= faults'[r]
    /\ \A h \in Handlers \ {r} : faults'[h] = faults[h]

LEMMA OnlyRepliesFacts ==
  ASSUME IInv, NEW r \in Handlers, OnlyReplies(r)
  PROVE  /\ accepted' = accepted /\ indexed' = indexed /\ transferable' = transferable
         /\ faults' \in [Handlers -> Nat] /\ faults[r] <= faults'[r]
         /\ \A h \in Handlers \ {r} : faults'[h] = faults[h]
         /\ allocationTx' \in Goroutine \cup {Nil} /\ spare' \in Goroutine \cup {Nil}
         /\ UNCHANGED <<req, since, time, gpc, msg, ctxErr, blkDeps>>
  BY DEF IInv, SharedInv, OnlyReplies, nodeVars, sharedVars

LEMMA FailIInv ==
  ASSUME IInv, NEW r \in Handlers,
         \A i \in DOMAIN gpc[r] : gpc[r][i] \notin Active,
         NEW code, NEW alloc, FailWith(r, code, alloc),
         Founded(r, code, alloc, faults'[r]), OnlyReplies(r)
  PROVE  IInv'
  <1> DEFINE x == [NoResp EXCEPT !.status = "err", !.code = code, !.alloc = alloc]
  <1>1. x.status = "err" /\ x.code = code /\ x.alloc = alloc
    BY DEF NoResp
  <1>2. Reply(r, x)
    BY DEF FailWith
  <1> HIDE DEF x
  <1>3. x.status # "ok" /\ Founded(r, x.code, x.alloc, faults'[r])
    BY <1>1
  <1>4. QED
    BY <1>2, <1>3, OnlyRepliesFacts, ReplyIInv

LEMMA AnswerIInv ==
  ASSUME IInv, NEW r \in Handlers,
         \A i \in DOMAIN gpc[r] : gpc[r][i] \notin Active,
         NEW blkTime, NEW whole, NEW alloc, Answer(r, blkTime, whole, alloc),
         blkTime >= GenesisTime, whole \/ MayNotSee(r, alloc), OnlyReplies(r)
  PROVE  IInv'
  <1>1. CASE req[r].tx \in {NoTx} \cup Transactions(req[r].n)
    <2> DEFINE x == [NoResp EXCEPT !.status = "ok", !.whole = whole, !.alloc = alloc,
                                   !.time = IF req[r].tx = NoTx THEN blkTime ELSE 0]
    <2>1. /\ x.status = "ok" /\ x.whole = whole /\ x.alloc = alloc
          /\ req[r].tx = NoTx => x.time = blkTime
      BY DEF NoResp
    <2>2. Reply(r, x)
      BY <1>1 DEF Answer
    <2> HIDE DEF x
    <2>3. Fine(r, x) /\ x.status # "err"
      BY <2>1 DEF Fine
    <2>4. QED
      BY <2>2, <2>3, OnlyRepliesFacts, ReplyIInv
  <1>2. CASE req[r].tx \notin {NoTx} \cup Transactions(req[r].n)
    <2>1. FailWith(r, "TransactionNotFound", alloc)
      BY <1>2 DEF Answer
    <2>2. Founded(r, "TransactionNotFound", alloc, faults'[r])
      BY <1>2 DEF Founded
    <2>3. QED
      BY <2>1, <2>2, FailIInv
  <1>3. QED
    BY <1>1, <1>2

(* Steps that leave the counts of failed RPCs alone, and those that do not *)
LEMMA FaultsUnchanged ==
  ASSUME IInv, NEW r \in Handlers,
         UNCHANGED <<nodeVars, sharedVars, faults, req, since, time, gpc, msg, ctxErr, blkDeps>>
  PROVE  OnlyReplies(r) /\ faults'[r] = faults[r]
  <1>1. faults \in [Handlers -> Nat] /\ faults[r] \in Nat
    BY DEF IInv, SharedInv
  <1>2. QED
    BY <1>1 DEF OnlyReplies, nodeVars, sharedVars

LEMMA FaultFacts ==
  ASSUME IInv, NEW r \in Handlers, Fault(r)
  PROVE  /\ faults' \in [Handlers -> Nat] /\ faults[r] <= faults'[r] /\ faults'[r] > 0
         /\ \A h \in Handlers \ {r} : faults'[h] = faults[h]
  BY DEF IInv, SharedInv, Fault

(* Fields that may be unseen are those of an allocation of another. *)
LEMMA VisibleFacts ==
  ASSUME NEW r, NEW alloc, NEW whole \in Visible(r, alloc)
  PROVE  whole \in BOOLEAN /\ (whole \/ MayNotSee(r, alloc))
  BY ConstantsAssumption DEF Visible, MayNotSee

(* The genesis block *)
LEMMA GenesisIInv ==
  ASSUME IInv, NEW r \in Handlers, GenesisBlock(r)
  PROVE  IInv'
  <1>1. HandlerInv(r) /\ SharedInv /\ pc[r] = "genesis"
    BY DEF IInv, GenesisBlock
  <1>2. \A i \in DOMAIN gpc[r] : gpc[r][i] \notin Active
    BY <1>1, NoneActive
  <1>3. OnlyReplies(r)
    BY FaultsUnchanged DEF GenesisBlock
  <1>4. PICK alloc : alloc = spare
    OBVIOUS
  <1>5. PICK whole \in Visible(r, alloc) :
            \/ Answer(r, GenesisTime, whole, alloc)
            \/ ~whole /\ \E code \in {RPCErrorCode(r), "Panic"} : FailWith(r, code, alloc)
    BY <1>4 DEF GenesisBlock
  <1>6. whole \/ MayNotSee(r, alloc)
    BY VisibleFacts
  <1>7. CASE Answer(r, GenesisTime, whole, alloc)
    <2>1. GenesisTime >= GenesisTime
      BY ConstantsAssumption
    <2>2. QED
      BY <1>2, <1>3, <1>6, <1>7, <2>1, AnswerIInv
  <1>8. ASSUME ~whole, NEW code \in {RPCErrorCode(r), "Panic"}, FailWith(r, code, alloc)
        PROVE  IInv'
    <2>1. NeedsAllocation(req[r])
      BY <1>1 DEF HandlerInv, RequestInv, NeedsAllocation
    <2>2. code # "TransactionNotFound"
      BY DEF RPCErrorCode
    <2>3. Founded(r, code, alloc, faults'[r])
      BY <1>6, <1>8, <2>1, <2>2 DEF Founded, Excused
    <2>4. QED
      BY <1>2, <1>3, <1>8, <2>3, FailIInv
  <1>9. QED
    BY <1>5, <1>7, <1>8

LEMMA AllocationIInv ==
  ASSUME IInv, NEW r \in Handlers,
         LoadAllocation(r) \/ BuildAllocation(r) \/ AppendAllocation(r)
  PROVE  IInv'
  <1>1. HandlerInv(r) /\ SharedInv
    BY DEF IInv
  <1>2. pc[r] \in {"alloc", "build", "append"}
    BY DEF LoadAllocation, BuildAllocation, AppendAllocation
  <1>3. \A i \in DOMAIN gpc[r] : gpc[r][i] \notin Active
    BY <1>1, <1>2, NoneActive
  <1>4. <<r, 0>> \in Goroutine
    BY DEF Goroutine
  <1>5. CASE BuildAllocation(r) /\ ~transferable
    <2>1. FailWith(r, "ClientError", Nil)
      BY <1>5 DEF BuildAllocation, Fail
    <2>2. NeedsAllocation(req[r])
      BY <1>1, <1>2 DEF HandlerInv, RequestInv, NeedsAllocation
    <2>3. Founded(r, "ClientError", Nil, faults'[r])
      BY <1>5, <2>2 DEF Founded, Excused
    <2>4. UNCHANGED <<nodeVars, sharedVars, faults, req, since, time, gpc, msg, ctxErr, blkDeps>>
      BY <1>5 DEF BuildAllocation, sharedVars
    <2>5. QED
      BY <1>3, <2>1, <2>3, <2>4, FaultsUnchanged, FailIInv
  <1>6. CASE ~(BuildAllocation(r) /\ ~transferable)
    <2>1. /\ accepted' = accepted /\ indexed' = indexed
          /\ faults' = faults /\ transferable' = transferable
          /\ allocationTx' \in Goroutine \cup {Nil} /\ spare' \in Goroutine \cup {Nil}
          /\ UNCHANGED <<req, since, time, gpc, msg, ctxErr, blkDeps, resp>>
      BY <1>1, <1>4, <1>6 DEF SharedInv, LoadAllocation, BuildAllocation, AppendAllocation,
                        nodeVars, sharedVars
    <2>2. PICK label \in {"build", "append", "genesis"} : pc' = [pc EXCEPT ![r] = label]
      BY <1>6 DEF LoadAllocation, BuildAllocation, AppendAllocation, Goto
    <2>3. SharedInv'
      BY <1>1, <2>1, <2>2 DEF SharedInv, Label
    <2>4. HandlerInv(r)'
      <3>1. pc'[r] = label
        BY <1>1, <2>2 DEF SharedInv
      <3>2. resp'[r].status = "none" /\ req[r].n = 0
        BY <1>1, <1>2, <2>1 DEF HandlerInv, RequestInv
      <3>3. faults[r] \in Nat /\ faults[r] <= faults'[r]
        BY <1>1, <2>1 DEF SharedInv
      <3>4. QED
        BY <1>1, <1>3, <2>1, <2>2, <2>3, <3>1, <3>2, <3>3, NothingToWaitFor
    <2>5. \A h \in Handlers \ {r} : Still(h)
      BY <1>1, <2>1, <2>2 DEF Still, SharedInv
    <2>6. QED
      BY <2>1, <2>3, <2>4, <2>5, OneMoves
  <1>7. QED
    BY <1>5, <1>6

(* The end of a request *)
LEMMA FinishIInv ==
  ASSUME IInv, NEW r \in Handlers, Finish(r)
  PROVE  IInv'
  <1>1. HandlerInv(r) /\ SharedInv
    BY DEF IInv
  <1>2. /\ pc' = [pc EXCEPT ![r] = "idle"] /\ req' = [req EXCEPT ![r] = NoReq]
        /\ since' = [since EXCEPT ![r] = "unknown"] /\ time' = [time EXCEPT ![r] = 0]
        /\ gpc' = [gpc EXCEPT ![r] = Nil] /\ msg' = [msg EXCEPT ![r] = Nil]
        /\ ctxErr' = [ctxErr EXCEPT ![r] = "none"] /\ blkDeps' = [blkDeps EXCEPT ![r] = Nil]
        /\ resp' = [resp EXCEPT ![r] = NoResp] /\ faults' = [faults EXCEPT ![r] = 0]
        /\ UNCHANGED <<accepted, indexed, transferable, allocationTx, spare>>
    BY DEF Finish, Goto, nodeVars, sharedVars
  <1>3. SharedInv'
    BY <1>1, <1>2 DEF SharedInv, Label, Errors
  <1>4. /\ pc'[r] = "idle" /\ req'[r] = NoReq /\ since'[r] = "unknown" /\ gpc'[r] = Nil
        /\ msg'[r] = Nil /\ resp'[r] = NoResp /\ ctxErr'[r] = "none"
    BY <1>1, <1>2 DEF SharedInv
  <1>5. RequestInv(r)'
    BY <1>4 DEF RequestInv, NoReq, NoResp
  <1>6. GroupInv(r)'
    BY <1>4, NilFacts DEF GroupInv
  <1>7. MessageInv(r)'
    BY <1>4 DEF MessageInv
  <1>8. \A h \in Handlers \ {r} : Still(h)
    BY <1>1, <1>2 DEF Still, SharedInv
  <1>9. QED
    BY <1>2, <1>3, <1>5, <1>6, <1>7, <1>8, OneMoves DEF HandlerInv

LEMMA RPCErrorIInv ==
  ASSUME IInv, NEW r \in Handlers, RPCError(r)
  PROVE  IInv'
  <1>1. \A i \in DOMAIN gpc[r] : gpc[r][i] \notin Active
    BY NoneActive DEF IInv, RPCError
  <1>2. OnlyReplies(r) /\ faults'[r] > 0
    BY FaultFacts DEF RPCError, OnlyReplies
  <1>3. PICK code \in {"ClientError", "InternalError"} : FailWith(r, code, Nil)
    BY DEF RPCError, Fail, RPCErrorCode
  <1>4. Founded(r, code, Nil, faults'[r])
    BY <1>2 DEF Founded
  <1>5. QED
    BY <1>1, <1>2, <1>3, <1>4, FailIInv

(* The block: a goroutine for each dependency, none of which has begun *)
LEMMA ParseNonGenesisBlockIInv ==
  ASSUME IInv, NEW r \in Handlers, ParseNonGenesisBlock(r)
  PROVE  IInv'
  <1>1. HandlerInv(r) /\ SharedInv /\ req[r].n \in Nat
    BY RequestFacts DEF IInv, HandlerInv, RequestInv
  <1>2. CASE ~Found(req[r])
    <2>1. \A i \in DOMAIN gpc[r] : gpc[r][i] \notin Active
      BY <1>1, NoneActive DEF ParseNonGenesisBlock
    <2>2. QED
      <3>1. since[r] = "unknown"
        BY <1>1, <1>2 DEF HandlerInv, RequestInv
      <3>2. OnlyReplies(r)
        BY <1>2, FaultsUnchanged DEF ParseNonGenesisBlock
      <3>3. Founded(r, "ClientError", Nil, faults'[r])
        BY <3>1 DEF Founded, Excused
      <3>4. FailWith(r, "ClientError", Nil)
        BY <1>2 DEF ParseNonGenesisBlock, Fail
      <3>5. QED
        BY <2>1, <3>2, <3>3, <3>4, FailIInv
  <1>3. CASE Found(req[r])
    <2> DEFINE t == retrieveTime(Chain[req[r].n], ProposerTime(req[r]))
               started == [i \in DOMAIN deps(r) |-> "start"]
               empty == [i \in DOMAIN deps(r) |-> NoMsg]
    <2>1. /\ pc[r] = "block"
          /\ pc' = [pc EXCEPT ![r] = "wait"] /\ time' = [time EXCEPT ![r] = t]
          /\ gpc' = [gpc EXCEPT ![r] = started] /\ msg' = [msg EXCEPT ![r] = empty]
          /\ UNCHANGED <<accepted, indexed, transferable, allocationTx, spare, faults, req, since, ctxErr, blkDeps, resp>>
      BY <1>1, <1>3 DEF SharedInv, ParseNonGenesisBlock, Goto, nodeVars, sharedVars
    <2>2. SharedInv'
      BY <1>1, <2>1 DEF SharedInv, Label
    <2>3. req[r].n \in Height
      <3>1. req[r].n > 0
        BY <1>1, <2>1 DEF HandlerInv, RequestInv
      <3>2. Len(Chain) \in Nat /\ accepted <= Len(Chain) /\ indexed <= accepted
            /\ accepted \in Nat /\ indexed \in Nat
        BY <1>1, ConstantsAssumption DEF SharedInv
      <3>3. req[r].n <= indexed \/ req[r].n <= accepted
        BY <1>3 DEF Found
      <3>4. QED
        BY <1>1, <3>1, <3>2, <3>3 DEF Height
    <2>4. t \in Nat /\ t >= GenesisTime
      <3>1. Chain[req[r].n].time \in Time /\ Chain[req[r].n].proposer \in Time
        BY <2>3, BlockFacts DEF BlockType
      <3>2. ProposerTime(req[r]) \in Time
        BY <3>1 DEF ProposerTime, Time
      <3>3. QED
        BY <3>1, <3>2, ConstantsAssumption DEF retrieveTime, Time
    <2>5. pc'[r] = "wait" /\ time'[r] = t /\ gpc'[r] = started /\ msg'[r] = empty
      BY <1>1, <2>1 DEF SharedInv
    <2>6. RequestInv(r)'
      BY <1>1, <2>1, <2>3, <2>4, <2>5 DEF HandlerInv, RequestInv, Found
    <2>7. GroupInv(r)' /\ MessageInv(r)'
      <3>1. DOMAIN gpc'[r] = DOMAIN deps(r)' /\ DOMAIN msg'[r] = DOMAIN deps(r)'
        BY <2>1, <2>5 DEF deps
      <3>2. /\ \A i \in DOMAIN gpc'[r] : gpc'[r][i] = "start"
            /\ \A i \in DOMAIN msg'[r] : msg'[r][i] = NoMsg
        BY <2>5
      <3>3. ctxErr'[r] # "none" =>
                faults'[r] > 0 \/ (~transferable' /\ NeedsAllocation(req'[r]))
        BY <1>1, <2>1 DEF HandlerInv, GroupInv
      <3>4. GroupInv(r)'
        BY <2>5, <3>1, <3>2, <3>3 DEF GroupInv, Active, NeedsAllocation
      <3>5. MessageInv(r)'
        BY <2>5, <3>1, <3>2 DEF MessageInv
      <3>6. QED
        BY <3>4, <3>5
    <2>8. \A h \in Handlers \ {r} : Still(h)
      BY <1>1, <2>1 DEF Still, SharedInv
    <2>9. QED
      BY <2>1, <2>2, <2>6, <2>7, <2>8, OneMoves DEF HandlerInv
  <1>4. QED
    BY <1>2, <1>3

-----------------------------------------------------------------------------
(* Steps of the goroutines *)

(* Goroutine i of handler r goes to label and leaves its message as msg'   *)
(* says.                                                                   *)
LEMMA GoroutineMoves ==
  ASSUME IInv, NEW r \in Handlers, NEW i \in DOMAIN gpc[r], gpc[r][i] \in Active,
         NEW label \in Active \cup {"ok", "err"}, GoTo(r, i, label),
         DOMAIN msg' = Handlers, \A h \in Handlers \ {r} : msg'[h] = msg[h],
         DOMAIN msg'[r] = DOMAIN msg[r], msg'[r][i] \in Message \cup {NoMsg},
         \A j \in DOMAIN msg[r] \ {i} : msg'[r][j] = msg[r][j],
         label \in {"build", "alloc"} => deps(r)[i] = Empty,
         label \in {"send", "ok"} => Right(r, msg'[r][i], deps(r)[i]),
         ctxErr' \in [Handlers -> Errors],
         \A h \in Handlers \ {r} : ctxErr'[h] = ctxErr[h],
         ctxErr'[r] = "none" => ctxErr[r] = "none" /\ label # "err",
         ctxErr'[r] # "none" => faults'[r] > 0 \/ (~transferable /\ NeedsAllocation(req[r])),
         UNCHANGED <<accepted, indexed, transferable, spare, handlerVars>>,
         faults' \in [Handlers -> Nat], faults[r] <= faults'[r],
         \A h \in Handlers \ {r} : faults'[h] = faults[h],
         allocationTx' \in Goroutine \cup {Nil}
  PROVE  IInv'
  <1>1. HandlerInv(r) /\ SharedInv
    BY DEF IInv
  <1>2. pc[r] = "wait"
    BY <1>1 DEF HandlerInv, GroupInv
  <1>3. UNCHANGED <<pc, req, since, time, blkDeps, resp>>
    BY DEF handlerVars
  <1>4. /\ DOMAIN gpc' = Handlers /\ \A h \in Handlers \ {r} : gpc'[h] = gpc[h]
        /\ DOMAIN gpc'[r] = DOMAIN gpc[r] /\ gpc'[r][i] = label
        /\ \A j \in DOMAIN gpc[r] \ {i} : gpc'[r][j] = gpc[r][j]
    BY <1>1 DEF GoTo, SharedInv
  <1>5. SharedInv'
    BY <1>1, <1>3, <1>4 DEF SharedInv
  <1>6. RequestInv(r)'
    BY <1>1, <1>2, <1>3 DEF HandlerInv, RequestInv, Found
  <1>7. GroupInv(r)'
    <2>1. DOMAIN gpc[r] = DOMAIN deps(r) /\ DOMAIN msg[r] = DOMAIN deps(r) /\ deps(r)' = deps(r)
      BY <1>1, <1>2, <1>3 DEF HandlerInv, GroupInv, deps
    <2>2. \A j \in DOMAIN gpc'[r] : gpc'[r][j] \in Active \cup {"ok", "err"}
      BY <1>1, <1>4 DEF HandlerInv, GroupInv
    <2>3. \A j \in DOMAIN msg'[r] : msg'[r][j] \in Message \cup {NoMsg}
      BY <1>1, <1>4 DEF HandlerInv, GroupInv
    <2>4. ctxErr'[r] = "none" => \A j \in DOMAIN gpc'[r] : gpc'[r][j] # "err"
      BY <1>1, <1>4 DEF HandlerInv, GroupInv
    <2>5. QED
      BY <1>2, <1>3, <1>4, <2>1, <2>2, <2>3, <2>4 DEF GroupInv, NeedsAllocation
  <1>8. MessageInv(r)'
    <2>1. \A m, t : Right(r, m, t) => Right(r, m, t)'
      BY <1>3 DEF Right, RewardIssued
    <2>2. DOMAIN gpc[r] = DOMAIN deps(r) /\ DOMAIN msg[r] = DOMAIN deps(r) /\ deps(r)' = deps(r)
      BY <1>1, <1>2, <1>3 DEF HandlerInv, GroupInv, deps
    <2>3. ASSUME NEW j \in DOMAIN deps(r)
          PROVE  /\ gpc'[r][j] \in {"build", "alloc"} => deps(r)[j] = Empty
                 /\ gpc'[r][j] \in {"send", "ok"} => Right(r, msg[r][j], deps(r)[j])'
      <3>1. CASE j = i
        BY <1>4, <2>1, <2>2, <3>1 DEF Right, RewardIssued, handlerVars
      <3>2. CASE j # i
        <4>1. gpc'[r][j] = gpc[r][j] /\ msg'[r][j] = msg[r][j]
          BY <1>4, <2>2, <3>2
        <4>2. /\ gpc[r][j] \in {"build", "alloc"} => deps(r)[j] = Empty
              /\ gpc[r][j] \in {"send", "ok"} => Right(r, msg[r][j], deps(r)[j])
          BY <1>1, <1>2 DEF HandlerInv, MessageInv
        <4>3. QED
          BY <2>1, <2>2, <4>1, <4>2 DEF Right, RewardIssued, handlerVars
      <3>3. QED
        BY <3>1, <3>2
    <2>4. QED
      BY <1>2, <1>3, <2>2, <2>3 DEF MessageInv
  <1>9. \A h \in Handlers \ {r} : Still(h)
    BY <1>3, <1>4 DEF Still
  <1>10. QED
    BY <1>3, <1>5, <1>6, <1>7, <1>8, <1>9, OneMoves DEF HandlerInv

(* What a goroutine that has not ended may rely on *)
LEMMA GoroutineFacts ==
  ASSUME IInv, NEW r \in Handlers, NEW i \in DOMAIN gpc[r], gpc[r][i] \in Active
  PROVE  /\ pc[r] = "wait" /\ req[r].n \in Height
         /\ i \in DOMAIN deps(r) /\ DOMAIN gpc[r] = DOMAIN deps(r) /\ DOMAIN msg[r] = DOMAIN deps(r)
         /\ deps(r)[i] \in TxID
         /\ <<r, i>> \in Goroutine
         /\ msg[r][i] \in Message \cup {NoMsg}
  <1>1. HandlerInv(r)
    BY DEF IInv
  <1>2. pc[r] = "wait"
    BY <1>1 DEF HandlerInv, GroupInv
  <1>3. req[r].n \in Height
    BY <1>1, <1>2 DEF HandlerInv, RequestInv
  <1>4. DOMAIN gpc[r] = DOMAIN deps(r) /\ DOMAIN msg[r] = DOMAIN deps(r)
    BY <1>1, <1>2 DEF HandlerInv, GroupInv
  <1>5. deps(r)[i] \in TxID
    BY <1>3, <1>4, BlockFacts DEF deps
  <1>6. i \in Slot
    BY <1>3, <1>4 DEF Slot, deps
  <1>7. msg[r][i] \in Message \cup {NoMsg}
    BY <1>1, <1>4 DEF HandlerInv, GroupInv
  <1>8. QED
    BY <1>2, <1>3, <1>4, <1>5, <1>6, <1>7 DEF Goroutine

(* Messages are untouched, or that of one goroutine is replaced. *)
LEMMA OneMessage ==
  ASSUME IInv, NEW r \in Handlers, NEW i \in DOMAIN gpc[r], gpc[r][i] \in Active,
         NEW m, msg' = msg \/ msg' = [msg EXCEPT ![r][i] = m]
  PROVE  /\ DOMAIN msg' = Handlers /\ \A h \in Handlers \ {r} : msg'[h] = msg[h]
         /\ DOMAIN msg'[r] = DOMAIN msg[r]
         /\ \A j \in DOMAIN msg[r] \ {i} : msg'[r][j] = msg[r][j]
         /\ msg' = msg => msg'[r][i] = msg[r][i]
         /\ msg' # msg => msg'[r][i] = m
  <1>1. DOMAIN msg = Handlers /\ i \in DOMAIN msg[r]
    BY GoroutineFacts DEF IInv, SharedInv
  <1>2. CASE msg' = msg
    BY <1>1, <1>2
  <1>3. CASE msg' = [msg EXCEPT ![r][i] = m]
    BY <1>1, <1>3
  <1>4. QED
    BY <1>2, <1>3

(* A goroutine leaves the errors and the counts of failed RPCs alone. *)
LEMMA QuietFacts ==
  ASSUME IInv, NEW r \in Handlers, UNCHANGED <<nodeVars, sharedVars, faults, handlerVars, ctxErr>>
  PROVE  /\ UNCHANGED <<accepted, indexed, transferable, spare, handlerVars>>
         /\ allocationTx' \in Goroutine \cup {Nil}
         /\ ctxErr' \in [Handlers -> Errors] /\ ctxErr' = ctxErr
         /\ ctxErr'[r] # "none" => faults'[r] > 0 \/ (~transferable /\ NeedsAllocation(req[r]))
         /\ faults' \in [Handlers -> Nat] /\ faults' = faults /\ faults[r] <= faults'[r]
  <1>1. faults[r] \in Nat
    BY DEF IInv, SharedInv
  <1>2. QED
    BY <1>1 DEF IInv, SharedInv, HandlerInv, GroupInv, nodeVars, sharedVars

LEMMA StartDependencyIInv ==
  ASSUME IInv, NEW r \in Handlers, NEW i \in DOMAIN gpc[r], StartDependency(r, i)
  PROVE  IInv'
  <1>1. gpc[r][i] \in Active
    BY DEF StartDependency, Active
  <1>2. PICK label \in {"tx", "build", "alloc"} :
            GoTo(r, i, label) /\ (label \in {"build", "alloc"} => deps(r)[i] = Empty)
    BY DEF StartDependency
  <1>3. label \in Active /\ label \notin {"send", "ok", "err"}
    BY DEF Active
  <1>4. UNCHANGED <<nodeVars, sharedVars, faults, handlerVars, msg, ctxErr>>
    BY DEF StartDependency
  <1>5. QED
    BY <1>1, <1>2, <1>3, <1>4, QuietFacts, GoroutineFacts, OneMessage, GoroutineMoves

LEMMA BuildDependencyIInv ==
  ASSUME IInv, NEW r \in Handlers, NEW i \in DOMAIN gpc[r], BuildDependency(r, i)
  PROVE  IInv'
  <1>1. gpc[r][i] \in Active
    BY DEF BuildDependency, Active
  <1>2. deps(r)[i] = Empty
    BY <1>1, GoroutineFacts DEF BuildDependency, IInv, HandlerInv, MessageInv
  <1>3. NeedsAllocation(req[r])
    BY <1>1, <1>2, GoroutineFacts DEF NeedsAllocation, deps
  <1>4. /\ UNCHANGED <<accepted, indexed, transferable, spare, faults, handlerVars, msg>>
        /\ faults \in [Handlers -> Nat] /\ faults[r] \in Nat /\ faults[r] <= faults'[r]
        /\ ctxErr \in [Handlers -> Errors] /\ allocationTx \in Goroutine \cup {Nil}
        /\ ctxErr[r] # "none" => faults[r] > 0 \/ (~transferable /\ NeedsAllocation(req[r]))
    BY DEF BuildDependency, nodeVars, IInv, SharedInv, HandlerInv, GroupInv
  <1>5. CASE transferable
    <2>1. GoTo(r, i, "alloc") /\ "alloc" \in Active /\ ctxErr' = ctxErr /\ allocationTx' = <<r, i>>
      BY <1>5 DEF BuildDependency, Active
    <2>2. allocationTx' \in Goroutine \cup {Nil}
      BY <1>1, <2>1, GoroutineFacts
    <2>3. QED
      BY <1>1, <1>2, <1>4, <2>1, <2>2, GoroutineFacts, OneMessage, GoroutineMoves
  <1>6. CASE ~transferable
    <2>1. GoTo(r, i, "err") /\ ErrorOnce(r, "utxo") /\ allocationTx' = allocationTx
      BY <1>6 DEF BuildDependency
    <2>2. /\ ctxErr' \in [Handlers -> Errors] /\ ctxErr'[r] # "none"
          /\ \A h \in Handlers \ {r} : ctxErr'[h] = ctxErr[h]
      BY <1>4, <2>1 DEF ErrorOnce, Errors
    <2>3. QED
      BY <1>1, <1>3, <1>4, <1>6, <2>1, <2>2, GoroutineFacts, OneMessage, GoroutineMoves
  <1>7. QED
    BY <1>5, <1>6

(* A goroutine has made its message. *)
LEMMA MessageMade ==
  ASSUME IInv, NEW r \in Handlers, NEW i \in DOMAIN gpc[r], gpc[r][i] \in Active,
         NEW m \in Message, msg' = [msg EXCEPT ![r][i] = m], Right(r, m, deps(r)[i]),
         GoTo(r, i, "send"),
         UNCHANGED <<nodeVars, sharedVars, faults, handlerVars, ctxErr>>
  PROVE  IInv'
  <1>2. msg'[r][i] = m
    BY GoroutineFacts DEF IInv, SharedInv
  <1>3. "send" \in Active
    BY DEF Active
  <1>4. /\ DOMAIN msg' = Handlers /\ \A h \in Handlers \ {r} : msg'[h] = msg[h]
        /\ DOMAIN msg'[r] = DOMAIN msg[r]
        /\ \A j \in DOMAIN msg[r] \ {i} : msg'[r][j] = msg[r][j]
    BY OneMessage
  <1>5. Right(r, msg'[r][i], deps(r)[i]) /\ msg'[r][i] \in Message
    BY <1>2
  <1>6. QED
    BY <1>3, <1>4, <1>5, QuietFacts, GoroutineMoves

LEMMA FetchAllocationIInv ==
  ASSUME IInv, NEW r \in Handlers, NEW i \in DOMAIN gpc[r], FetchAllocation(r, i)
  PROVE  IInv'
  <1>1. gpc[r][i] \in Active
    BY DEF FetchAllocation, Active
  <1>2. deps(r)[i] = Empty
    BY <1>1, GoroutineFacts DEF FetchAllocation, IInv, HandlerInv, MessageInv
  <1>3. PICK alloc \in Goroutine \cup {Nil} : alloc = allocationTx
    BY DEF IInv, SharedInv
  <1> DEFINE m == [tx |-> Empty, alloc |-> alloc, rewarded |-> FALSE]
  <1>4. m \in Message
    BY ConstantsAssumption DEF Message
  <1>5. Right(r, m, Empty)
    <2>1. m.tx = Empty /\ ~m.rewarded
      OBVIOUS
    <2>2. RewardedIn[Empty] = 0
      BY ConstantsAssumption
    <2> HIDE DEF m
    <2>3. QED
      BY <1>4, <2>1, <2>2 DEF Right
  <1>6. /\ msg' = [msg EXCEPT ![r][i] = m] /\ GoTo(r, i, "send")
        /\ UNCHANGED <<nodeVars, sharedVars, faults, handlerVars, ctxErr>>
    BY <1>3 DEF FetchAllocation
  <1> HIDE DEF m
  <1>7. QED
    BY <1>1, <1>2, <1>4, <1>5, <1>6, MessageMade

LEMMA GetTxIInv ==
  ASSUME IInv, NEW r \in Handlers, NEW i \in DOMAIN gpc[r], GetTx(r, i)
  PROVE  IInv'
  <1>1. gpc[r][i] \in Active
    BY DEF GetTx, Active
  <1>2. GoTo(r, i, "rewards") /\ "rewards" \in Active
    BY DEF GetTx, Active
  <1>3. UNCHANGED <<nodeVars, sharedVars, faults, handlerVars, msg, ctxErr>>
    BY DEF GetTx
  <1>4. QED
    BY <1>1, <1>2, <1>3, QuietFacts, GoroutineFacts, OneMessage, GoroutineMoves

(* The reward of a transaction that the block of the request proposes, or  *)
(* leaves out, is settled when that block is followed by another.          *)
LEMMA RewardSettled ==
  ASSUME IInv, NEW r \in Handlers, since[r] = "followed", req[r].n \in Height,
         NEW t \in Chain[req[r].n].rewards
  PROVE  RewardIssued(t) <=> RewardedIn[t] # 0
  <1>1. req[r].n < accepted /\ accepted \in Nat /\ req[r].n \in Nat
    BY ConstantsAssumption DEF IInv, SharedInv, HandlerInv, RequestInv, Height
  <1>2. RewardedIn[t] = req[r].n + 1 \/ RewardedIn[t] = 0
    BY ConstantsAssumption
  <1>3. QED
    BY <1>1, <1>2 DEF RewardIssued

LEMMA GetRewardUTXOsIInv ==
  ASSUME IInv, NEW r \in Handlers, NEW i \in DOMAIN gpc[r], GetRewardUTXOs(r, i)
  PROVE  IInv'
  <1>1. gpc[r][i] \in Active
    BY DEF GetRewardUTXOs, Active
  <1> DEFINE t == deps(r)[i]
  <1>2. PICK issued \in BOOLEAN : issued = RewardIssued(t)
    <2>1. RewardIssued(t) \in BOOLEAN
      BY DEF RewardIssued
    <2>2. QED
      BY <2>1, Zenon
  <1> DEFINE m == [tx |-> t, alloc |-> Nil, rewarded |-> issued]
  <1>3. /\ msg' = [msg EXCEPT ![r][i] = m] /\ GoTo(r, i, "send")
        /\ UNCHANGED <<nodeVars, sharedVars, faults, handlerVars, ctxErr>>
    BY <1>2 DEF GetRewardUTXOs
  <1>4. m \in Message
    BY <1>1, GoroutineFacts DEF Message
  <1>5. Right(r, m, t)
    <2>1. m.tx = t /\ (m.rewarded <=> RewardIssued(t))
      BY <1>2
    <2> HIDE DEF m
    <2>2. QED
      BY <1>1, <1>4, <2>1, GoroutineFacts, RewardSettled DEF Right
  <1> HIDE DEF m
  <1>6. QED
    BY <1>1, <1>3, <1>4, <1>5, MessageMade

LEMMA RPCFailsIInv ==
  ASSUME IInv, NEW r \in Handlers, NEW i \in DOMAIN gpc[r], RPCFails(r, i)
  PROVE  IInv'
  <1>1. gpc[r][i] \in Active
    BY DEF RPCFails, Active
  <1>2. GoTo(r, i, "err")
    BY DEF RPCFails
  <1>3. /\ UNCHANGED <<accepted, indexed, transferable, spare, handlerVars, msg, allocationTx>>
        /\ allocationTx \in Goroutine \cup {Nil}
    BY DEF RPCFails, nodeVars, sharedVars, IInv, SharedInv
  <1>4. /\ faults' \in [Handlers -> Nat] /\ faults[r] <= faults'[r]
        /\ \A h \in Handlers \ {r} : faults'[h] = faults[h]
        /\ faults'[r] > 0 \/ (ctxErr[r] # "none" /\ faults' = faults)
    <2>1. CASE Fault(r)
      BY <2>1, FaultFacts
    <2>2. CASE ctxErr[r] # "none" /\ faults' = faults
      <3>1. faults \in [Handlers -> Nat] /\ faults[r] \in Nat
        BY DEF IInv, SharedInv
      <3>2. QED
        BY <2>2, <3>1
    <2>3. QED
      BY <2>1, <2>2 DEF RPCFails
  <1>5. faults'[r] > 0 \/ (~transferable /\ NeedsAllocation(req[r]))
    BY <1>4 DEF IInv, HandlerInv, GroupInv
  <1>6. /\ ctxErr' \in [Handlers -> Errors] /\ ctxErr'[r] # "none"
        /\ \A h \in Handlers \ {r} : ctxErr'[h] = ctxErr[h]
    BY DEF RPCFails, ErrorOnce, IInv, SharedInv, Errors
  <1>7. QED
    BY <1>1, <1>2, <1>3, <1>4, <1>5, <1>6, GoroutineFacts, OneMessage, GoroutineMoves

LEMMA SendIInv ==
  ASSUME IInv, NEW r \in Handlers, NEW i \in DOMAIN gpc[r], Send(r, i)
  PROVE  IInv'
  <1>1. gpc[r][i] \in Active
    BY DEF Send, Active
  <1>2. GoTo(r, i, "ok")
    BY DEF Send
  <1>3. Right(r, msg[r][i], deps(r)[i])
    BY <1>1, GoroutineFacts DEF Send, IInv, HandlerInv, MessageInv
  <1>4. UNCHANGED <<nodeVars, sharedVars, faults, handlerVars, msg, ctxErr>>
    BY DEF Send
  <1>5. QED
    BY <1>1, <1>2, <1>3, <1>4, QuietFacts, GoroutineFacts, OneMessage, GoroutineMoves

-----------------------------------------------------------------------------
(* The end of the wait, and the answer *)

(* If no error is known, every goroutine has sent its message, and what is *)
(* drained has a right one for each dependency.                            *)
LEMMA DrainedRight ==
  ASSUME IInv, NEW r \in Handlers, pc[r] = "wait", WaitReturns(r), WaitSucceeds(r),
         NEW d \in Drained(r)
  PROVE  /\ DOMAIN d = {deps(r)[i] : i \in DOMAIN deps(r)}
         /\ \A t \in DOMAIN d : Right(r, d[t], t)
  <1>1. HandlerInv(r)
    BY DEF IInv
  <1>2. DOMAIN gpc[r] = DOMAIN deps(r)
    BY <1>1 DEF HandlerInv, GroupInv
  <1>3. \A i \in DOMAIN deps(r) : gpc[r][i] = "ok"
    BY <1>1, <1>2 DEF HandlerInv, GroupInv, WaitReturns, WaitSucceeds, group
  <1>4. Sent(r) = DOMAIN deps(r)
    BY <1>2, <1>3 DEF Sent, group
  <1>5. DOMAIN d = {deps(r)[i] : i \in DOMAIN deps(r)}
    BY <1>4 DEF Drained
  <1>6. ASSUME NEW t \in DOMAIN d PROVE Right(r, d[t], t)
    <2>1. d[t].tx = t /\ d[t] \in {msg[r][i] : i \in DOMAIN deps(r)}
      BY <1>4 DEF Drained
    <2>2. PICK i \in DOMAIN deps(r) : d[t] = msg[r][i]
      BY <2>1
    <2>3. Right(r, msg[r][i], deps(r)[i])
      BY <1>1, <1>3 DEF HandlerInv, MessageInv
    <2>4. deps(r)[i] = t
      BY <2>1, <2>2, <2>3 DEF Right
    <2>5. QED
      BY <2>2, <2>3, <2>4
  <1>7. QED
    BY <1>5, <1>6

LEMMA FetchBlkDependenciesIInv ==
  ASSUME IInv, NEW r \in Handlers, fetchBlkDependencies(r)
  PROVE  IInv'
  <1>1. HandlerInv(r) /\ SharedInv /\ pc[r] = "wait"
    BY DEF IInv, fetchBlkDependencies
  <1>2. \A i \in DOMAIN gpc[r] : gpc[r][i] \notin Active
    BY DEF fetchBlkDependencies, WaitReturns, group, Active
  <1>3. /\ accepted' = accepted /\ indexed' = indexed /\ faults' = faults
        /\ UNCHANGED <<transferable, allocationTx, spare>>
        /\ UNCHANGED <<req, since, time, gpc, msg, ctxErr>>
    BY <1>1 DEF fetchBlkDependencies, nodeVars, sharedVars
  <1>4. CASE ~WaitSucceeds(r)
    <2>1. faults[r] > 0 \/ (~transferable /\ NeedsAllocation(req[r]))
      BY <1>1, <1>4 DEF HandlerInv, GroupInv, WaitSucceeds
    <2>2. Founded(r, "InternalError", Nil, faults'[r])
      BY <1>3, <2>1 DEF Founded, Excused
    <2>3. FailWith(r, "InternalError", Nil) /\ blkDeps' = blkDeps
      BY <1>4 DEF fetchBlkDependencies, Fail
    <2>4. OnlyReplies(r)
      BY <1>3, <2>3, FaultsUnchanged DEF nodeVars, sharedVars
    <2>5. QED
      BY <1>2, <2>2, <2>3, <2>4, FailIInv
  <1>5. CASE WaitSucceeds(r)
    <2>1. PICK d \in Drained(r) : blkDeps' = [blkDeps EXCEPT ![r] = d]
      BY <1>5 DEF fetchBlkDependencies
    <2>2. pc' = [pc EXCEPT ![r] = "parse"] /\ resp' = resp
      BY <1>5 DEF fetchBlkDependencies, Goto
    <2>3. SharedInv'
      BY <1>1, <1>3, <2>1, <2>2 DEF SharedInv, Label
    <2>4. pc'[r] = "parse" /\ blkDeps'[r] = d
      BY <1>1, <2>1, <2>2 DEF SharedInv
    <2>5. RequestInv(r)'
      BY <1>1, <1>3, <2>2, <2>4 DEF HandlerInv, RequestInv, Found
    <2>6. GroupInv(r)'
      BY <1>1, <1>2, <1>3, <2>4 DEF HandlerInv, GroupInv, deps, NeedsAllocation
    <2>7. MessageInv(r)'
      <3>1. \A m, t : Right(r, m, t) => Right(r, m, t)'
        BY <1>3 DEF Right, RewardIssued
      <3>2. DOMAIN d = {deps(r)[i] : i \in DOMAIN deps(r)} /\ \A t \in DOMAIN d : Right(r, d[t], t)'
        BY <1>1, <1>5, <3>1, DrainedRight DEF fetchBlkDependencies
      <3>3. deps(r)' = deps(r)
        BY <1>3 DEF deps
      <3>4. \A t \in DOMAIN d : Right(r, blkDeps[r][t], t)'
        BY <1>3, <2>4, <3>2 DEF Right, RewardIssued
      <3>5. QED
        BY <2>4, <3>2, <3>3, <3>4 DEF MessageInv
    <2>8. \A h \in Handlers \ {r} : Still(h)
      BY <1>1, <1>3, <2>1, <2>2 DEF Still, SharedInv
    <2>9. QED
      BY <1>3, <2>3, <2>5, <2>6, <2>7, <2>8, OneMoves DEF HandlerInv
  <1>6. QED
    BY <1>4, <1>5

LEMMA ParseRosettaTxsIInv ==
  ASSUME IInv, NEW r \in Handlers, ParseRosettaTxs(r)
  PROVE  IInv'
  <1>1. HandlerInv(r) /\ SharedInv /\ pc[r] = "parse"
    BY DEF IInv, ParseRosettaTxs
  <1>2. \A i \in DOMAIN gpc[r] : gpc[r][i] \notin Active
    BY <1>1, NoneActive
  <1>3. OnlyReplies(r)
    BY FaultsUnchanged DEF ParseRosettaTxs
  <1>4. \A i \in DOMAIN deps(r) : deps(r)[i] \in DOMAIN blkDeps[r]
    BY <1>1 DEF HandlerInv, MessageInv
  <1>5. PICK alloc : alloc = AllocationOf(blkDeps[r])
    OBVIOUS
  <1>6. PICK whole \in Visible(r, alloc) :
            \/ Answer(r, time[r], whole, alloc)
            \/ ~whole /\ \E code \in {"InternalError", "Panic"} : FailWith(r, code, alloc)
    BY <1>4, <1>5 DEF ParseRosettaTxs
  <1>7. whole \/ MayNotSee(r, alloc)
    BY VisibleFacts
  <1>8. CASE Answer(r, time[r], whole, alloc)
    <2>1. time[r] >= GenesisTime
      BY <1>1 DEF HandlerInv, RequestInv
    <2>2. QED
      BY <1>2, <1>3, <1>7, <1>8, <2>1, AnswerIInv
  <1>9. ASSUME ~whole, NEW code \in {"InternalError", "Panic"}, FailWith(r, code, alloc)
        PROVE  IInv'
    <2>1. Empty \in DOMAIN blkDeps[r]
      BY <1>5, <1>7, <1>9 DEF MayNotSee, OfOther, AllocationOf
    <2>2. NeedsAllocation(req[r])
      BY <1>1, <2>1 DEF HandlerInv, RequestInv, MessageInv, NeedsAllocation, deps
    <2>3. Founded(r, code, alloc, faults'[r])
      BY <1>7, <1>9, <2>2 DEF Founded, Excused
    <2>4. QED
      BY <1>2, <1>3, <1>9, <2>3, FailIInv
  <1>10. QED
    BY <1>6, <1>8, <1>9

(* The node and the indexer go on. *)
LEMMA NodeIInv ==
  ASSUME IInv, AcceptBlock \/ IndexBlock
  PROVE  IInv'
  <1>1. SharedInv
    BY DEF IInv
  <1>2. SharedInv' /\ accepted <= accepted' /\ indexed <= indexed' /\ transferable' = transferable
    BY <1>1, ConstantsAssumption DEF SharedInv, AcceptBlock, IndexBlock, sharedVars, handlerVars
  <1>3. \A q \in Handlers : Still(q)
    BY DEF Still, AcceptBlock, IndexBlock, handlerVars
  <1>4. QED
    BY <1>1, <1>2, <1>3, OthersStill DEF IInv

LEMMA StutterIInv ==
  ASSUME IInv, UNCHANGED vars
  PROVE  IInv'
  <1>1. SharedInv
    BY DEF IInv
  <1>2. SharedInv' /\ accepted <= accepted' /\ indexed <= indexed' /\ transferable' = transferable
    BY <1>1, ConstantsAssumption DEF SharedInv, vars
  <1>3. \A q \in Handlers : Still(q)
    BY DEF Still, vars
  <1>4. QED
    BY <1>1, <1>2, <1>3, OthersStill DEF IInv

LEMMA NextIInv == IInv /\ [Next]_vars => IInv'
  <1> SUFFICES ASSUME IInv, [Next]_vars PROVE IInv'
    OBVIOUS
  <1>1. ASSUME NEW r \in Handlers, NEW q \in Requests[r], Receive(r, q) PROVE IInv'
    BY <1>1, ReceiveIInv
  <1>2. ASSUME NEW r \in Handlers, Step(r) PROVE IInv'
    BY <1>2, AllocationIInv, GenesisIInv, ParseNonGenesisBlockIInv, FetchBlkDependenciesIInv,
       ParseRosettaTxsIInv, FinishIInv DEF Step
  <1>3. ASSUME NEW r \in Handlers, NEW i \in group(r), fetchDependencyTx(r, i) PROVE IInv'
    BY <1>3, StartDependencyIInv, BuildDependencyIInv, FetchAllocationIInv, GetTxIInv,
       GetRewardUTXOsIInv, RPCFailsIInv, SendIInv DEF fetchDependencyTx, group
  <1>4. ASSUME NEW r \in Handlers, RPCError(r) PROVE IInv'
    BY <1>4, RPCErrorIInv
  <1>5. CASE AcceptBlock \/ IndexBlock
    BY <1>5, NodeIInv
  <1>6. CASE UNCHANGED vars
    BY <1>6, StutterIInv
  <1>7. QED
    BY <1>1, <1>2, <1>3, <1>4, <1>5, <1>6 DEF Next

-----------------------------------------------------------------------------
(* What the invariant says *)

LEMMA IInvTypeOK == IInv => TypeOK
  <1> SUFFICES ASSUME IInv PROVE TypeOK
    OBVIOUS
  <1>1. SharedInv
    BY DEF IInv
  <1>2. ASSUME NEW r \in Handlers
        PROVE  /\ req[r] \in Requests[r] \cup {NoReq}
               /\ pc[r] \in {"block", "wait", "parse"} => req[r].n > 0
               /\ pc[r] \in {"wait", "parse"} =>
                    /\ req[r].n <= Len(Chain) /\ time[r] >= GenesisTime
                    /\ DOMAIN gpc[r] = DOMAIN deps(r) /\ DOMAIN msg[r] = DOMAIN deps(r)
               /\ \A i \in group(r) : gpc[r][i] \in Active \cup {"ok", "err"}
               /\ \A i \in DOMAIN msg[r] : msg[r][i] \in Message \cup {NoMsg}
               /\ resp[r].status = "ok" /\ req[r].tx = NoTx => resp[r].time >= GenesisTime
    BY ConstantsAssumption
    DEF IInv, HandlerInv, RequestInv, GroupInv, Fine, Height, group
  <1>3. QED
    BY <1>1, <1>2 DEF SharedInv, TypeOK, Errors

LEMMA IInvNoOrphans == IInv => NoOrphans
  BY NoneActive DEF IInv, NoOrphans, group

LEMMA IInvDependenciesComplete == IInv => DependenciesComplete
  BY DEF IInv, HandlerInv, MessageInv, Right, DependenciesComplete

LEMMA IInvFinalOnceFollowed == IInv => FinalOnceFollowed
  BY DEF IInv, HandlerInv, MessageInv, Right, FinalOnceFollowed

LEMMA IInvNoSpuriousError == IInv => NoSpuriousError
  BY DEF IInv, HandlerInv, RequestInv, NoSpuriousError, Fine, Founded, Excused, MayNotSee,
         Reason, Unseen

(* The goroutine that is about to send is one of as many as the channel    *)
(* has room for, and has not sent.                                         *)
LEMMA IInvSendNeverBlocks == IInv => SendNeverBlocks
  <1> SUFFICES ASSUME IInv, NEW r \in Handlers, NEW i \in DOMAIN gpc[r], gpc[r][i] = "send"
               PROVE  Cardinality(Sent(r)) < Capacity(r)
    BY DEF SendNeverBlocks, group
  <1> DEFINE n == Len(deps(r))
             all == 1 .. n
  <1>1. gpc[r][i] \in Active
    BY DEF Active
  <1>2. DOMAIN gpc[r] = all /\ n \in Nat
    BY <1>1, GoroutineFacts, BlockFacts DEF deps
  <1>3. ASSUME NEW j \in Sent(r) PROVE j \in all \ {i}
    BY <1>2, <1>3 DEF Sent, group
  <1> HIDE DEF n
  <1>4. IsFiniteSet(all) /\ Cardinality(all) = n
    BY <1>2, FS_Interval
  <1>5. IsFiniteSet(all \ {i}) /\ Cardinality(all \ {i}) = n - 1
    BY <1>2, <1>4, FS_RemoveElement
  <1>6. Cardinality(Sent(r)) <= n - 1 /\ Cardinality(Sent(r)) \in Nat
    <2>1. Sent(r) \in SUBSET (all \ {i})
      BY <1>3
    <2>2. IsFiniteSet(Sent(r)) /\ Cardinality(Sent(r)) <= Cardinality(all \ {i})
      BY <1>5, <2>1, FS_Subset
    <2>3. QED
      BY <1>5, <2>2, FS_CardinalityType
  <1>7. QED
    BY <1>2, <1>6 DEF Capacity, n

(* The invariant holds in every state: no step of a handler, a goroutine,  *)
(* the node or the indexer breaks it.                                      *)
THEOREM InvariantHolds == Spec => []IInv
  BY InitIInv, NextIInv, PTL DEF Spec

(* Every block that is answered has a time a client accepts, and the state *)
(* is well typed.                                                          *)
THEOREM TypeCorrect == Spec => []TypeOK
  BY InvariantHolds, IInvTypeOK, PTL

(* No goroutine of fetchBlkDependencies outlives the wait for its group.   *)
THEOREM GoroutinesEnd == Spec => []NoOrphans
  BY InvariantHolds, IInvNoOrphans, PTL

(* No goroutine of fetchBlkDependencies blocks on its channel, which is    *)
(* drained only after all of them have ended.                              *)
THEOREM ChannelSuffices == Spec => []SendNeverBlocks
  BY InvariantHolds, IInvSendNeverBlocks, PTL

(* A block's transactions are parsed with all of the transactions they     *)
(* refer to, each under its own ID.                                        *)
THEOREM DependenciesCorrect == Spec => []DependenciesComplete
  BY InvariantHolds, IInvDependenciesComplete, PTL

(* The rewards an answer is made from are final once its block has been    *)
(* followed by another when the request arrives.                           *)
THEOREM AnswersSettle == Spec => []FinalOnceFollowed
  BY InvariantHolds, IInvFinalOnceFollowed, PTL

(* A request that fails has a reason: an RPC of its own failed, its block  *)
(* was not there when it arrived, the transaction is not in the block, or  *)
(* it needs a genesis allocation that cannot be built, or whose fields,    *)
(* built by another handler, it may not see.  An answer that is not whole  *)
(* has the last of these reasons.                                          *)
THEOREM ErrorsHaveReasons == Spec => []NoSpuriousError
  BY InvariantHolds, IInvNoSpuriousError, PTL

=============================================================================
