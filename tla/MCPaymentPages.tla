--------------------------- MODULE MCPaymentPages ---------------------------
(* PaymentPages for TLC: its configurations give pages of two payments.    *)
EXTENDS PaymentPages
=============================================================================
