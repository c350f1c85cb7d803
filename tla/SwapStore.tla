----------------------------- MODULE SwapStore -----------------------------
(***************************************************************************)
(* SqliteStore (src/swap/store.rs): two tables behind one mutex.  Every    *)
(* statement commits on its own; the update statements are unconditional   *)
(* and fail only when the row is missing.  A committed write survives a    *)
(* crash (WAL).                                                            *)
(***************************************************************************)
EXTENDS SwapTypes

VARIABLES
    quotes,     \* table quotes: a record, or None where there is no row
    swaps       \* table swaps

storeVars == <<quotes, swaps>>

StoreTypeOK ==
    /\ quotes \in [QuoteId -> QuoteRecord \cup {None}]
    /\ swaps \in [SwapId -> SwapRecord \cup {None}]

StoreInit ==
    /\ quotes = [q \in QuoteId |-> None]
    /\ swaps = [s \in SwapId |-> None]

Stored == {s \in SwapId : swaps[s] # None}

\* The primary key refuses a second row with the same id.
insert_quote(q, record) ==
    /\ quotes[q] = None
    /\ quotes' = [quotes EXCEPT ![q] = record]
    /\ UNCHANGED swaps

insert_swap(s, record) ==
    /\ swaps[s] = None
    /\ swaps' = [swaps EXCEPT ![s] = record]
    /\ UNCHANGED quotes

set_quote_swap_id(q, s) ==
    /\ quotes[q] # None
    /\ quotes' = [quotes EXCEPT ![q].swap_id = s]
    /\ UNCHANGED swaps

update_swap_status(s, status) ==
    /\ s \in Stored
    /\ swaps' = [swaps EXCEPT ![s].status = status]
    /\ UNCHANGED quotes

upsert_swap_payment(s, preimage, status) ==
    /\ s \in Stored
    /\ swaps' = [swaps EXCEPT ![s].ln_preimage_hex = preimage, ![s].status = status]
    /\ UNCHANGED quotes

upsert_swap_claim(s, txid, status) ==
    /\ s \in Stored
    /\ swaps' = [swaps EXCEPT ![s].claim_txid = txid, ![s].status = status]
    /\ UNCHANGED quotes
=============================================================================
