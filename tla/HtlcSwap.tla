------------------------------ MODULE HtlcSwap ------------------------------
(***************************************************************************)
(* What a swap promises, with no server in it: an asset is locked against  *)
(* a payment hash; a payment starts only against such a lock; the lock     *)
(* ends once, by a claim when the payment went through or by a refund when *)
(* the height is reached.  It does not promise that a paid HTLC is not     *)
(* refunded: README.md of the repository disclaims full atomicity.         *)
(***************************************************************************)
EXTENDS SwapTypes

VARIABLES
    tip,        \* the chain's height
    htlc,       \* htlc[s]: what the asset of swap s is locked to, or None
    outcome,    \* outcome[s]: how the lock ended
    payment     \* payment[i]: the payment of invoice i

abstractVars == <<tip, htlc, outcome, payment>>

Init ==
    /\ tip = 1
    /\ htlc = [s \in SwapId |-> None]
    /\ outcome = [s \in SwapId |-> "open"]
    /\ payment = [i \in Invoice |-> "none"]

LockAsset(s) ==
    /\ htlc[s] = None
    /\ htlc'[s] \in HtlcSpec
    /\ htlc' = [htlc EXCEPT ![s] = htlc'[s]]
    /\ UNCHANGED <<tip, outcome, payment>>

StartPayment(i) ==
    /\ payment[i] \in {"none", "failed"}
    /\ \E s \in SwapId : htlc[s] # None /\ htlc[s].payment_hash = i
    /\ payment' = [payment EXCEPT ![i] = "pending"]
    /\ UNCHANGED <<tip, htlc, outcome>>

EndPayment(i) ==
    /\ payment[i] = "pending"
    /\ \E result \in {"succeeded", "failed"} :
         payment' = [payment EXCEPT ![i] = result]
    /\ UNCHANGED <<tip, htlc, outcome>>

Claim(s) ==
    /\ htlc[s] # None
    /\ outcome[s] = "open"
    /\ payment[htlc[s].payment_hash] = "succeeded"
    /\ outcome' = [outcome EXCEPT ![s] = "claimed"]
    /\ UNCHANGED <<tip, htlc, payment>>

Refund(s) ==
    /\ htlc[s] # None
    /\ outcome[s] = "open"
    /\ tip >= htlc[s].refund_lock_height
    /\ outcome' = [outcome EXCEPT ![s] = "refunded"]
    /\ UNCHANGED <<tip, htlc, payment>>

Tick ==
    /\ tip' = tip + 1
    /\ UNCHANGED <<htlc, outcome, payment>>

Next ==
    \/ \E s \in SwapId : LockAsset(s) \/ Claim(s) \/ Refund(s)
    \/ \E i \in Invoice : StartPayment(i) \/ EndPayment(i)
    \/ Tick

Spec == Init /\ [][Next]_abstractVars
=============================================================================
