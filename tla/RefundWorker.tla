---------------------------- MODULE RefundWorker ----------------------------
(***************************************************************************)
(* The refund worker of src/bin/swap_server.rs: refund_once, again and *)
(* again.  A pass holds the wallet mutex from its sync to its end and      *)
(* works through one listing of the swaps, in the order of their ids.      *)
(***************************************************************************)
EXTENDS LiquidWallet, SwapStore

VARIABLE worker     \* pc, and the due swaps of the listing not yet handled

WorkerRecord == [pc: {"idle", "list", "scan", "record"}, due: SUBSET SwapId]
IdleWorker == [pc |-> "idle", due |-> {}]

WorkerTypeOK == worker \in WorkerRecord

WorkerInit == worker = IdleWorker

WorkerAt(pc) == worker.pc = pc

\* The swap the pass is at: the listing is ordered by swap_id.
IsNext(s) == s \in worker.due /\ \A t \in worker.due : s <= t

\* Variant: only Funded swaps are looked at.
DueIfFunded(s) ==
    /\ s \in Stored
    /\ swaps[s].status = "Funded"
    /\ walletTip >= swaps[s].refund_lock_height

\* The loop skips what is neither Created nor Funded and what is not expired at
\* the synced tip; both are read from the listing, not from the store again.
Due(s) ==
    /\ s \in Stored
    /\ swaps[s].status \in {"Created", "Funded"}
    /\ walletTip >= swaps[s].refund_lock_height

RefundStart ==
    /\ WorkerAt("idle")
    /\ LockAndSync(Worker)
    /\ worker' = [worker EXCEPT !.pc = "list"]
    /\ UNCHANGED <<chainVars, storeVars>>

RefundList ==
    /\ WorkerAt("list")
    /\ worker' = [pc |-> "scan", due |-> {s \in SwapId : Due(s)}]
    /\ UNCHANGED <<chainVars, storeVars, walletVars>>

\* Variant: every refund is the seller's.
RefundKeySeller(s) == SellerKey

RefundKey(s) == IF swaps[s].direction = "LnToLiquid" THEN SellerKey ELSE BuyerKey

\* The address check of a LIQUID_TO_LN refund and the fee check of the builder.
RefundBuildable(s) ==
    /\ swaps[s].direction = "LiquidToLn" => swaps[s].buyer_liquid_address = BuyerKey
    /\ RefundFee < swaps[s].fee_subsidy_sats

RefundTxOf(s) == RefundTx(RefundKey(s), RefundFee)

RefundBroadcast(s) ==
    /\ WorkerAt("scan")
    /\ IsNext(s)
    /\ RefundBuildable(s)
    /\ Accepts(s, RefundTxOf(s), None)
    /\ BroadcastSpend(s, RefundTxOf(s))
    /\ worker' = [worker EXCEPT !.pc = "record"]
    /\ UNCHANGED <<storeVars, walletVars>>

\* Variant: a refused broadcast is recorded like an accepted one.
RefundRefusedRecords(s) ==
    /\ WorkerAt("scan")
    /\ IsNext(s)
    /\ RefundBuildable(s)
    /\ update_swap_status(s, "Refunded")
    /\ worker' = [worker EXCEPT !.due = @ \ {s}]
    /\ UNCHANGED <<chainVars, walletVars>>

\* The broadcast reports an error, because the network refused it or because
\* no answer came: logged, and the pass goes on.
RefundRefused(s) ==
    /\ WorkerAt("scan")
    /\ IsNext(s)
    /\ RefundBuildable(s)
    /\ worker' = [worker EXCEPT !.due = @ \ {s}]
    /\ UNCHANGED <<chainVars, storeVars, walletVars>>

RefundBroadcastError(s) ==
    /\ WorkerAt("scan")
    /\ IsNext(s)
    /\ RefundBuildable(s)
    /\ Accepts(s, RefundTxOf(s), None)
    /\ BroadcastSpend(s, RefundTxOf(s))
    /\ worker' = [worker EXCEPT !.due = @ \ {s}]
    /\ UNCHANGED <<storeVars, walletVars>>

\* update_swap_status(Refunded)
RefundRecord(s) ==
    /\ WorkerAt("record")
    /\ IsNext(s)
    /\ update_swap_status(s, "Refunded")
    /\ worker' = [pc |-> "scan", due |-> worker.due \ {s}]
    /\ UNCHANGED <<chainVars, walletVars>>

\* A ? or ensure! ends the whole pass: at a swap whose refund cannot be built,
\* or at a failing store statement.
RefundAbort ==
    /\ \/ WorkerAt("scan") /\ \E s \in worker.due : IsNext(s) /\ ~RefundBuildable(s)
       \/ WorkerAt("list")
       \/ WorkerAt("record")
    /\ worker' = IdleWorker
    /\ Unlock(Worker)
    /\ UNCHANGED <<chainVars, storeVars, walletTip>>

RefundEnd ==
    /\ WorkerAt("scan")
    /\ worker.due = {}
    /\ worker' = IdleWorker
    /\ Unlock(Worker)
    /\ UNCHANGED <<chainVars, storeVars, walletTip>>

WorkerNext ==
    \/ RefundStart
    \/ RefundList
    \/ \E s \in SwapId : \/ RefundBroadcast(s)
                         \/ RefundRefused(s)
                         \/ RefundBroadcastError(s)
                         \/ RefundRecord(s)
    \/ RefundAbort
    \/ RefundEnd
=============================================================================
