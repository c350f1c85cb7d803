---------------------------- MODULE MCSwapServer ----------------------------
(* Values of the constants for TLC.                                          *)
EXTENDS SwapInvariants, TLC

BothAddresses == {BuyerKey, OtherKey}
WalletAddress == {BuyerKey}

\* Terms of an offer.  The subsidy leaves room for a fee of 1 or does not, and
\* the refund height is one block off, so that every wait can outlast it.
ShortOffer == {[fee_subsidy_sats |-> 3, refund_delta_blocks |-> 1]}
TwoOffers == {[fee_subsidy_sats |-> 2, refund_delta_blocks |-> 1],
              [fee_subsidy_sats |-> 1, refund_delta_blocks |-> 1]}

\* Request slots are interchangeable.
Slots == Permutations(Call)
=============================================================================
