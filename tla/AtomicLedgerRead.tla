-------------------------- MODULE AtomicLedgerRead --------------------------
(***************************************************************************)
(* What the account endpoints of the P-chain backend promise: although a   *)
(* reading takes many RPCs, its result is what ONE atomic look at the      *)
(* ledger would have shown, at a height that was current at some instant   *)
(* between the arrival of the request and its response.                    *)
(*                                                                         *)
(* ledger[h] is the state of the chain after block h.  A handler is idle,  *)
(* open (the request is being served), answered (it holds the result of a  *)
(* look) or closed (the request ended without one: an error, or a request  *)
(* this promise does not cover).                                           *)
(***************************************************************************)
EXTENDS Naturals

CONSTANTS Handlers, NoAnswer

VARIABLES height, ledger, phase, answer

absVars == <<height, ledger, phase, answer>>

Look(withStake) ==
    [height |-> height,
     utxos  |-> ledger[height].utxos,
     stake  |-> IF withStake THEN ledger[height].stake ELSE {}]

AInit ==
    /\ height \in Nat
    /\ phase = [r \in Handlers |-> "idle"]
    /\ answer = [r \in Handlers |-> NoAnswer]

(* A block is accepted: the past never changes. *)
Accept ==
    /\ height' = height + 1
    /\ \A h \in 0 .. height : ledger'[h] = ledger[h]
    /\ UNCHANGED <<phase, answer>>

Open(r) ==
    /\ phase[r] = "idle"
    /\ phase' = [phase EXCEPT ![r] = "open"]
    /\ UNCHANGED <<height, ledger, answer>>

Read(r, withStake) ==
    /\ phase[r] = "open"
    /\ phase' = [phase EXCEPT ![r] = "answered"]
    /\ answer' = [answer EXCEPT ![r] = Look(withStake)]
    /\ UNCHANGED <<height, ledger>>

Close(r) ==
    /\ phase[r] \in {"idle", "open", "answered"}
    /\ phase' = [phase EXCEPT ![r] = "closed"]
    /\ answer' = [answer EXCEPT ![r] = NoAnswer]
    /\ UNCHANGED <<height, ledger>>

Forget(r) ==
    /\ phase[r] \in {"answered", "closed"}
    /\ phase' = [phase EXCEPT ![r] = "idle"]
    /\ answer' = [answer EXCEPT ![r] = NoAnswer]
    /\ UNCHANGED <<height, ledger>>

ANext ==
    \/ Accept
    \/ \E r \in Handlers :
        \/ Open(r)
        \/ \E withStake \in BOOLEAN : Read(r, withStake)
        \/ Close(r)
        \/ Forget(r)

ASpec == AInit /\ [][ANext]_absVars

=============================================================================
