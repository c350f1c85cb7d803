--------------------------- MODULE SwapRefinement ---------------------------
(***************************************************************************)
(* The server implements the swap: seen through the spends of the HTLCs,   *)
(* each of its steps is a step of HtlcSwap or none.                        *)
(***************************************************************************)
EXTENDS SwapServer

Outcome(s) ==
    IF spend[s] = None THEN "open"
    ELSE IF spend[s].path = "claim" THEN "claimed" ELSE "refunded"

Abstract == INSTANCE HtlcSwap WITH outcome <- [s \in SwapId |-> Outcome(s)]

\* Locks end once, claims need a settled payment and refunds the height, and
\* payments start only against a lock, however requests, crashes, lost replies
\* and the refund worker interleave.
ImplementsHtlcSwap == Abstract!Spec
=============================================================================
