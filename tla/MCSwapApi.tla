----------------------------- MODULE MCSwapApi -----------------------------
(* SwapApi for TLC: u64 ends at 15 and i64 at 7.                           *)
EXTENDS SwapApi, TLC

Tokens == Permutations(Token \ {Blank})

Offers == {[asset |-> "token", price |-> 2, subsidy |-> 2],
           [asset |-> "token", price |-> 3, subsidy |-> 3]}
=============================================================================
