------------------------------ MODULE CChainTrace ------------------------------
(***************************************************************************)
(* Operations of C-chain transactions against the balances of the EVM      *)
(* (server/mapper/transaction.go: Transaction and traceOps).               *)
(*                                                                         *)
(* The EVM runs transactions call by call and traces them as the node's    *)
(* callTracer does; the server makes operations of the finished trace, and *)
(* a client adds them to the balances it has.  The EVM is external: calls  *)
(* that fail are undone with all they called, contracts that destroy       *)
(* themselves run on until the end of the transaction and are removed      *)
(* then, and what they were sent meanwhile with them.                      *)
(***************************************************************************)
EXTENDS CChainOperations

CONSTANTS
    Users,           \* accounts that send transactions
    Contracts,       \* accounts that have code from the start
    Fresh,           \* addresses where contracts may be created
    InitialBalance,  \* balances before the first transaction
    Values,          \* amounts a call may carry
    Fee,             \* gas used times gas price
    ftsoTxFee,       \* what is left of it for calls of the FTSO contract
    Does,            \* the calls that the code at an address makes
    Cancun,          \* whether only contracts of the same transaction are removed
    MaxCalls,        \* bound: calls of a transaction
    MaxTxs           \* bound: transactions

Target == Users \cup Contracts \cup Fresh
Account == Target \cup {burnAddress}

ASSUME ConstantsAssumption ==
    /\ IsFiniteSet(Account)
    /\ (Users \cup {burnAddress}) \cap (Contracts \cup Fresh) = {}
    /\ Contracts \cap Fresh = {}
    /\ InitialBalance \in [Account -> Nat]
    /\ Values \subseteq Nat
    /\ Fee \in Nat /\ ftsoTxFee \in 0 .. Fee
    /\ Does \in [Contracts \cup Fresh ->
                    SUBSET ({"CALL", "CALLCODE", "DELEGATECALL", "CREATE", "SELFDESTRUCT"} \X Target)]
    /\ Cancun \in BOOLEAN
    /\ MaxCalls \in Nat \ {0} /\ MaxTxs \in Nat

VARIABLES
    bal,        \* the EVM: balances
    code,       \* accounts that have code
    created,    \* contracts created by the transaction that runs
    destroyed,  \* accounts that are removed when it ends
    stack,      \* calls that are running, the innermost first
    phase,      \* of the transaction: see TypeOK
    tx,         \* the transaction
    trace,      \* its calls so far
    before,     \* balances when it was sent
    txs         \* bound: transactions sent

state == <<bal, code, created, destroyed>>
vars == <<bal, code, created, destroyed, stack, phase, tx, trace, before, txs>>

Saved == [bal : [Account -> Nat], code : SUBSET Account,
          created : SUBSET Account, destroyed : SUBSET Account]
NoTx == [from |-> burnAddress, to |-> burnAddress, lowGas |-> FALSE, success |-> FALSE]

Call(type, from, to, value, parent) ==
    [type |-> type, from |-> from, to |-> to, value |-> value,
     parent |-> parent, error |-> FALSE]

(* What the inflation contract sends was minted by the node, which is not  *)
(* part of any trace.                                                      *)
Transfer(b, from, to, value) ==
    LET paid == IF from = inflationContractAddress THEN b ELSE [b EXCEPT ![from] = @ - value]
    IN  [paid EXCEPT ![to] = @ + value]

CanPay(acct, value) == acct = inflationContractAddress \/ value <= bal[acct]

(* The new innermost call: code runs on behalf of self.  saved is the      *)
(* state that its failure brings back.                                     *)
Frame(self, runs, index, b) ==
    [self |-> self, runs |-> runs, call |-> index,
     saved |-> [bal |-> b, code |-> code, created |-> created, destroyed |-> destroyed]]

-----------------------------------------------------------------------------
(* Transactions *)

SendTransaction(from, to, value, lowGas) ==
    LET type == IF to \in Fresh THEN "CREATE" ELSE "CALL"
        charged == [bal EXCEPT ![from] = @ - Fee]
    IN  /\ phase = "idle"
        /\ txs < MaxTxs
        /\ txs' = txs + 1
        /\ value + Fee <= bal[from]
        /\ to \in Fresh => to \notin code
        /\ lowGas => to = ftsoContractAddress
        /\ phase' = "running"
        /\ tx' = [from |-> from, to |-> to, lowGas |-> lowGas, success |-> TRUE]
        /\ trace' = <<Call(type, from, to, value, 0)>>
        /\ before' = bal
        /\ bal' = Transfer(charged, from, to, value)
        /\ created' = IF type = "CREATE" THEN {to} ELSE {}
        /\ stack' = IF type = "CREATE" \/ to \in code THEN <<Frame(to, to, 1, charged)>> ELSE <<>>
        /\ UNCHANGED <<code, destroyed>>

me == stack[1].self
MayCall(type, to) == stack # <<>> /\ Len(trace) < MaxCalls /\ <<type, to>> \in Does[stack[1].runs]
Traced(type, to, value) == trace' = Append(trace, Call(type, me, to, value, stack[1].call))
Enter(self, runs) == stack' = <<Frame(self, runs, Len(trace) + 1, bal)>> \o stack

(* CALL: the value moves, and code at the address runs.  (A call that does *)
(* neither makes no operation, and is left out.)                           *)
CallAccount(to, value) ==
    /\ MayCall("CALL", to)
    /\ value # 0 \/ to \in code
    /\ CanPay(me, value)
    /\ Traced("CALL", to, value)
    /\ bal' = Transfer(bal, me, to, value)
    /\ IF to \in code THEN Enter(to, to) ELSE UNCHANGED stack
    /\ UNCHANGED <<code, created, destroyed, phase, tx, before, txs>>

(* CALLCODE and DELEGATECALL: code of another account runs on behalf of    *)
(* the caller.  The tracer reports a value, the caller's own for the       *)
(* latter, but nothing moves.                                              *)
CallCode(type, to, value) ==
    /\ MayCall(type, to)
    /\ type = "DELEGATECALL" => value = trace[stack[1].call].value
    /\ type = "CALLCODE" => CanPay(me, value)
    /\ Traced(type, to, value)
    /\ IF to \in code THEN Enter(me, to) ELSE UNCHANGED stack
    /\ UNCHANGED <<state, phase, tx, before, txs>>

(* CREATE: at an address that is not in use *)
Create(to, value) ==
    /\ MayCall("CREATE", to)
    /\ to \notin code \cup created
    /\ CanPay(me, value)
    /\ Traced("CREATE", to, value)
    /\ Enter(to, to)
    /\ bal' = Transfer(bal, me, to, value)
    /\ created' = created \cup {to}
    /\ UNCHANGED <<code, destroyed, phase, tx, before, txs>>

(* SELFDESTRUCT: everything goes to the beneficiary and the call ends.     *)
SelfDestruct(to) ==
    LET removed == ~Cancun \/ me \in created
    IN  /\ MayCall("SELFDESTRUCT", to)
        /\ me # inflationContractAddress
        /\ Traced("SELFDESTRUCT", to, bal[me])
        /\ bal' = IF to = me /\ removed THEN [bal EXCEPT ![me] = 0]
                  ELSE Transfer(bal, me, to, bal[me])
        /\ destroyed' = IF removed THEN destroyed \cup {me} ELSE destroyed
        /\ stack' = Tail(stack)
        /\ UNCHANGED <<code, created, phase, tx, before, txs>>

(* The innermost call returns ... *)
Return ==
    /\ stack # <<>>
    /\ code' = IF trace[stack[1].call].type = "CREATE" THEN code \cup {me} ELSE code
    /\ stack' = Tail(stack)
    /\ UNCHANGED <<bal, created, destroyed, phase, tx, trace, before, txs>>

(* ... or fails, and all it did is undone. *)
Revert ==
    /\ stack # <<>>
    /\ trace' = [trace EXCEPT ![stack[1].call].error = TRUE]
    /\ bal' = stack[1].saved.bal
    /\ code' = stack[1].saved.code
    /\ created' = stack[1].saved.created
    /\ destroyed' = stack[1].saved.destroyed
    /\ stack' = Tail(stack)
    /\ tx' = [tx EXCEPT !.success = stack[1].call # 1]
    /\ UNCHANGED <<phase, before, txs>>

(* The end of a transaction: the fee, and the accounts that are removed.   *)
Charged == IF tx.to = ftsoContractAddress /\ tx.lowGas /\ tx.success THEN ftsoTxFee ELSE Fee

Finalise ==
    /\ phase = "running"
    /\ stack = <<>>
    /\ phase' = "mined"
    /\ LET refunded == [bal EXCEPT ![tx.from] = @ + Fee - Charged]
           paid == [refunded EXCEPT ![burnAddress] = @ + Charged]
       IN  bal' = [acct \in Account |-> IF acct \in destroyed THEN 0 ELSE paid[acct]]
    /\ code' = code \ destroyed
    /\ UNCHANGED <<created, destroyed, stack, tx, trace, before, txs>>

(* The server's answer for the block is read, and the next one can come.   *)
Answered ==
    /\ phase = "mined"
    /\ phase' = "idle"
    /\ tx' = NoTx
    /\ trace' = <<>>
    /\ created' = {}
    /\ destroyed' = {}
    /\ UNCHANGED <<bal, code, stack, before, txs>>

Init ==
    /\ bal = InitialBalance
    /\ code = Contracts
    /\ created = {}
    /\ destroyed = {}
    /\ stack = <<>>
    /\ phase = "idle"
    /\ tx = NoTx
    /\ trace = <<>>
    /\ before = InitialBalance
    /\ txs = 0

Next ==
    \/ \E from \in Users, to \in Target, value \in Values, lowGas \in BOOLEAN :
        SendTransaction(from, to, value, lowGas)
    \/ \E to \in Target, value \in Values : CallAccount(to, value)
    \/ \E type \in {"CALLCODE", "DELEGATECALL"}, to \in Contracts, value \in Values :
        CallCode(type, to, value)
    \/ \E to \in Fresh, value \in Values : Create(to, value)
    \/ \E to \in Target : SelfDestruct(to)
    \/ Return
    \/ Revert
    \/ Finalise
    \/ Answered

Spec == Init /\ [][Next]_vars

-----------------------------------------------------------------------------
(* What the server makes of the transaction *)
calls == init(trace)
ops == NativeOps(tx, txFee(tx, Fee, ftsoTxFee), calls)

(* The traces that traceOps reads as the EVM meant them: a contract that   *)
(* destroys itself is removed, and no value is reported that did not move. *)
DestructsTookEffect ==
    \A i \in DOMAIN calls : calls[i].type = "SELFDESTRUCT" =>
        ~calls[i].revert /\ calls[i].from \in destroyed
NothingBorrowed ==
    \A i \in DOMAIN calls : calls[i].type \in {"CALLCODE", "DELEGATECALL"} => calls[i].value = 0

(* Type invariant.  Every operation is about an account of the EVM. *)
TypeOK ==
    /\ bal \in [Account -> Nat]
    /\ code \subseteq Account /\ created \subseteq Fresh /\ destroyed \subseteq Account
    /\ phase \in {"idle", "running", "mined"}
    /\ \A i \in DOMAIN stack : stack[i].call \in DOMAIN trace /\ stack[i].saved \in Saved
    /\ \A i \in DOMAIN trace : trace[i].parent \in 0 .. i - 1
    /\ txs \in 0 .. MaxTxs
    /\ phase = "mined" => \A done \in {ops} : \A i \in DOMAIN done : done[i].acct \in Account

(* Replaying the operations of a transaction over the balances before it   *)
(* gives the EVM's balances after it, whatever calls were reverted and     *)
(* whatever destroyed accounts were sent, for the traces that traceOps     *)
(* reads right.                                                            *)
ReplayMatchesEVM ==
    phase = "mined" /\ DestructsTookEffect /\ NothingBorrowed =>
        \A done \in {ops} : \A acct \in Account :
            bal[acct] = before[acct] + Applied(done, acct, FlareCurrency)

(* The process never ends over a negative balance of a destroyed account,  *)
(* for the same traces.                                                    *)
NeverFatal ==
    phase = "mined" /\ DestructsTookEffect /\ NothingBorrowed => ~Fatal(calls)

(* Operations are numbered from 0 without gaps, and a related operation    *)
(* comes before the one that names it and moves the same value.            *)
OperationsNumbered ==
    phase = "mined" =>
        \A done \in {ops} : \A i \in DOMAIN done :
            /\ done[i].index = i - 1
            /\ done[i].related # -1 =>
                /\ done[i].related < done[i].index
                /\ done[done[i].related + 1].val \in {-done[i].val, 0}

(* "Zero-out all destroyed accounts that are removed during transaction    *)
(* finalization": no other account is zeroed, and the process goes on.     *)
OnlyRemovedZeroed ==
    phase = "mined" =>
        /\ ~Fatal(calls)
        /\ \A done \in {ops} : \A i \in DOMAIN done :
            done[i].type = "DESTRUCT" => done[i].acct \in destroyed

=============================================================================
