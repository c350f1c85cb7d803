----------------------------- MODULE SwapTypes -----------------------------
(***************************************************************************)
(* The vocabulary of the swap server: the identities, the records of       *)
(* src/swap/mod.rs and the roles service.rs derives from a direction.      *)
(* Texts (ids, addresses, invoices, scripts) are opaque members of finite  *)
(* sets; the fields kept are the ones some guard reads.                    *)
(***************************************************************************)
EXTENDS Integers, FiniteSets

CONSTANTS
    SwapId,         \* swap ids; numbers, because list_swaps orders by swap_id
    QuoteId,        \* quote ids
    BuyerInvoice,   \* BOLT11 invoices a buyer may bring to a LIQUID_TO_LN swap
    BuyerAddress,   \* where buyers ask to be paid: subset of {BuyerKey, OtherKey}
    Offer,          \* configurations the server may be started with
    MinConfs,       \* values of min_funding_confs sellers ask for
    ClaimFee,       \* values of claim_fee_sats in claim requests
    RefundFee,      \* --refund-fee-sats of the refund worker
    None            \* an absent value: Rust's Option::None

MAX_MIN_FUNDING_CONFS == 6

\* Who can sign for an HTLC path.  SellerKey and BuyerKey are the server
\* wallet's addresses at seller_key_index and buyer_key_index; OtherKey is any
\* buyer address the server's wallet does not own.
SellerKey == "seller_key"
BuyerKey == "buyer_key"
OtherKey == "other_key"
Key == {SellerKey, BuyerKey, OtherKey}

Direction == {"LnToLiquid", "LiquidToLn"}
Role == {"buyer", "seller"}
\* The enum also has Failed, which nothing writes.
SwapStatus == {"Created", "Funded", "Paid", "Claimed", "Refunded"}

\* The invoice the LN node issues for a LN_TO_LIQUID swap carries the
\* description swap:{swap_id}: it is named by the swap it was issued for.
Invoice == SwapId \cup BuyerInvoice

ASSUME SwapIdAssumption == SwapId \subseteq Nat
ASSUME InvoiceAssumption == BuyerInvoice \cap SwapId = {}
ASSUME AddressAssumption == BuyerAddress \subseteq {BuyerKey, OtherKey}
ASSUME OfferAssumption ==
    Offer \subseteq [fee_subsidy_sats: Nat, refund_delta_blocks: Nat] /\ Offer # {}
ASSUME ConfsAssumption == MinConfs \subseteq Nat
ASSUME FeeAssumption == ClaimFee \subseteq Nat /\ RefundFee \in Nat

\* parties_for_direction: the parties of a swap that some authorization reads.
LnPayer(direction) == IF direction = "LnToLiquid" THEN "buyer" ELSE "seller"
LiquidClaimer(direction) == IF direction = "LnToLiquid" THEN "buyer" ELSE "seller"

\* The transactions that spend an HTLC.  Key, path and fee determine the txid.
SpendTx == [path: {"claim", "refund"}, key: Key, fee: Nat]
ClaimTx(key, fee) == [path |-> "claim", key |-> key, fee |-> fee]
RefundTx(key, fee) == [path |-> "refund", key |-> key, fee |-> fee]

\* HtlcSpec: what the witness script commits to.
HtlcSpec == [payment_hash: Invoice, claimer: Key, refunder: Key,
             refund_lock_height: Nat]

\* CreateSwap's spec for a direction: the buyer's address takes the side the
\* seller does not have.
HtlcSpecFor(direction, invoice, address, lock) ==
    [payment_hash |-> invoice,
     claimer  |-> IF direction = "LnToLiquid" THEN address ELSE SellerKey,
     refunder |-> IF direction = "LnToLiquid" THEN SellerKey ELSE address,
     refund_lock_height |-> lock]

\* QuoteRecord.  offer_id is a hash of the whole offer: the offer itself here.
QuoteRecord == [direction: Direction, min_funding_confs: 0..MAX_MIN_FUNDING_CONFS,
                offer_id: Offer, swap_id: SwapId \cup {None}]

\* SwapRecord.  ln_preimage_hex is named by the invoice whose preimage it is
\* (ln_payment_id is always written with it); claim_txid by the transaction.
SwapRecord == [quote_id: QuoteId, direction: Direction, bolt11_invoice: Invoice,
               buyer_liquid_address: BuyerAddress, fee_subsidy_sats: Nat,
               refund_lock_height: Nat,
               min_funding_confs: 0..MAX_MIN_FUNDING_CONFS,
               ln_preimage_hex: Invoice \cup {None},
               claim_txid: SpendTx \cup {None}, status: SwapStatus]

ASSUME NoneAssumption ==
    /\ None \notin SwapId /\ None \notin QuoteId /\ None \notin BuyerInvoice
    /\ None \notin HtlcSpec /\ None \notin SpendTx
    /\ None \notin QuoteRecord /\ None \notin SwapRecord
=============================================================================
