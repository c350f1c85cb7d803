--------------------------- MODULE LightningNode ---------------------------
(***************************************************************************)
(* The one LDK node behind the server (external), as src/lightning/ldk.rs  *)
(* uses it: outbound BOLT11 payments.  A payment's id is its payment hash, *)
(* so an invoice has at most one payment: the node refuses to send again   *)
(* while it is pending or after it succeeded.                              *)
(***************************************************************************)
EXTENDS SwapTypes

VARIABLE payment    \* payment[i]: the outbound payment of invoice i

lnVars == <<payment>>

PaymentStatus == {"none", "pending", "succeeded", "failed"}

LnTypeOK == payment \in [Invoice -> PaymentStatus]

LnInit == payment = [i \in Invoice |-> "none"]

Sendable(i) == payment[i] \in {"none", "failed"}

SetPayment(i, status) == payment' = [payment EXCEPT ![i] = status]

\* The network answers a pending payment: the payee releases the preimage, or
\* every route failed.
PaymentSettles(i) == payment[i] = "pending" /\ SetPayment(i, "succeeded")
PaymentFails(i) == payment[i] = "pending" /\ SetPayment(i, "failed")
=============================================================================
