---------------------------- MODULE MCHtlcSpend ----------------------------
(* HtlcSpend for TLC: bytes of four values, so that U32 ends at 255.       *)
EXTENDS HtlcSpend

\* Digests as byte strings of the right length, different for every input.
Digest(len, n) == [i \in 1..len |-> IF i = 1 THEN n ELSE 0]
Sha256 == [i \in Invoice |-> Digest(32, IF i = 1 THEN 1 ELSE 2)]
Hash160 == [k \in Key |-> Digest(20, CASE k = SellerKey -> 1 [] k = BuyerKey -> 2
                                        [] k = OtherKey -> 3)]

Foreign == {OtherKey}
Orders == {<<1, 2, 3>>, <<3, 2, 1>>, <<2, 3, 1>>}
WithLbtc == {"token", Lbtc}
Offers == {[fee_subsidy_sats |-> 3, refund_delta_blocks |-> d] : d \in {0, 2, 4, 255}}
=============================================================================
