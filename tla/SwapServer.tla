----------------------------- MODULE SwapServer -----------------------------
(***************************************************************************)
(* The swap_server process (src/bin/swap_server.rs): the gRPC service      *)
(* and the refund worker over one wallet, one LN node and one store, in    *)
(* the world they run in: blocks, Lightning payments, counterparties with  *)
(* keys of their own, and crashes.                                         *)
(***************************************************************************)
EXTENDS SwapService, RefundWorker

CONSTANT MaxRestarts    \* bound on the number of crashes
ASSUME RestartAssumption == MaxRestarts \in Nat

VARIABLE restarts

vars == <<chainVars, lnVars, storeVars, walletVars, call, cfg, worker, restarts>>

TypeOK ==
    /\ ChainTypeOK
    /\ LnTypeOK
    /\ StoreTypeOK
    /\ WalletTypeOK
    /\ ServiceTypeOK
    /\ WorkerTypeOK
    /\ restarts \in 0..MaxRestarts

\* main: open the wallet and the store, start the worker, serve.
Init ==
    /\ ChainInit
    /\ LnInit
    /\ StoreInit
    /\ WalletInit
    /\ ServiceInit
    /\ WorkerInit
    /\ restarts = 0

Service == ServiceNext /\ UNCHANGED <<worker, restarts>>

Refunds == WorkerNext /\ UNCHANGED <<lnVars, call, cfg, restarts>>

\* The process dies and is started again, maybe with another offer.  The store,
\* the chain and the LN node keep what they have; the wallet's tip is on disk.
CrashRestart ==
    /\ restarts < MaxRestarts
    /\ restarts' = restarts + 1
    /\ call' = [c \in Call |-> IdleCall]
    /\ worker' = IdleWorker
    /\ owner' = None
    /\ cfg' \in Offer
    /\ UNCHANGED <<chainVars, lnVars, storeVars, walletTip>>

Lightning ==
    /\ \E i \in Invoice : PaymentSettles(i) \/ PaymentFails(i)
    /\ UNCHANGED <<chainVars, storeVars, walletVars, call, cfg, worker, restarts>>

Block == Mine /\ UNCHANGED <<lnVars, storeVars, walletVars, call, cfg, worker, restarts>>

\* A buyer whose key is not in the server's wallet spends on his own.  He has
\* the preimage once the server has persisted it: any retry returns it.
PreimageServed(i) == \E s \in Stored : swaps[s].ln_preimage_hex = i

BuyerSpends(s) ==
    /\ \/ \E i \in {j \in Invoice : PreimageServed(j)} :
            /\ Accepts(s, ClaimTx(OtherKey, 0), i)
            /\ BroadcastSpend(s, ClaimTx(OtherKey, 0))
       \/ /\ Accepts(s, RefundTx(OtherKey, 0), None)
          /\ BroadcastSpend(s, RefundTx(OtherKey, 0))
    /\ UNCHANGED <<lnVars, storeVars, walletVars, call, cfg, worker, restarts>>

Next ==
    \/ Service
    \/ Refunds
    \/ CrashRestart
    \/ Lightning
    \/ Block
    \/ \E s \in SwapId : BuyerSpends(s)

Spec == Init /\ [][Next]_vars

-----------------------------------------------------------------------------
(* Safety.                                                                 *)

\* An HTLC is claimed only with the preimage of a payment that went through: no
\* order of retries, failures, crashes and refunds lets a claimer take the asset
\* without the payee having been paid (create_asset_claim takes the preimage
\* from the store, create_lightning_payment from the node).
ClaimedOnlyIfPaid ==
    \A s \in SwapId :
        (spend[s] # None /\ spend[s].path = "claim")
            => payment[htlc[s].payment_hash] = "succeeded"

\* What a row says of the HTLC's end is what the chain says: a claim txid is
\* the transaction that spends it, Claimed and Refunded are never wrong about
\* the branch.  Both writers broadcast first and write under the wallet mutex.
StoreAgreesWithChain ==
    \A s \in Stored :
        /\ swaps[s].claim_txid # None => spend[s] = swaps[s].claim_txid
        /\ swaps[s].status = "Claimed" => swaps[s].claim_txid # None
        /\ swaps[s].status = "Refunded" => spend[s] # None /\ spend[s].path = "refund"

\* A row describes an HTLC that is on the network, with the terms the row
\* gives; a quote points to a row of its own.  The order of the effects in
\* create_swap (broadcast, insert, link) carries this over every crash.
RowsAreBacked ==
    /\ \A s \in Stored :
        htlc[s] = HtlcSpecFor(swaps[s].direction, swaps[s].bolt11_invoice,
                              swaps[s].buyer_liquid_address, swaps[s].refund_lock_height)
    /\ \A q \in QuoteId :
        (quotes[q] # None /\ quotes[q].swap_id # None)
            => quotes[q].swap_id \in Stored /\ swaps[quotes[q].swap_id].quote_id = q

\* The claim and the refund a row leads to open the HTLC it was funded with:
\* the party, the height and the preimage that create_asset_claim and the
\* worker take from the row are those create_swap put in the script.
RowsAreSpendable ==
    \A s \in Stored :
        LET own == swaps[s].buyer_liquid_address = BuyerKey IN
        /\ (swaps[s].ln_preimage_hex # None /\ (swaps[s].direction = "LnToLiquid" => own))
              => ClaimPathValid(s, ClaimTx(ClaimKey(s), 0), swaps[s].ln_preimage_hex)
        /\ (Due(s) /\ (swaps[s].direction = "LiquidToLn" => own))
              => RefundPathValid(s, RefundTxOf(s))

\* No payment is sent for a swap whose funding is not min_funding_confs deep.
\* (An invoice a buyer uses for two swaps needs one of them that deep.)
Depth(s) == IF height[s] = 0 THEN 0 ELSE tip - height[s] + 1
PaidOnlyIfConfirmed ==
    \A i \in Invoice :
        payment[i] # "none" =>
            \E s \in Stored : /\ swaps[s].bolt11_invoice = i
                              /\ Depth(s) >= swaps[s].min_funding_confs

\* A swap is created on the terms that were quoted, whatever offer the server
\* was restarted with since.
QuotedTermsHonoured ==
    \A s \in Stored :
        LET quote == quotes[swaps[s].quote_id] IN
        /\ quote # None
        /\ swaps[s].fee_subsidy_sats = quote.offer_id.fee_subsidy_sats
        /\ swaps[s].direction = quote.direction

\* The preimage of a row is the one of its own invoice, from a payment that
\* went through, and Paid and Claimed rows have it.
PreimageIsProof ==
    \A s \in Stored :
        /\ swaps[s].ln_preimage_hex # None =>
              /\ swaps[s].ln_preimage_hex = swaps[s].bolt11_invoice
              /\ payment[swaps[s].bolt11_invoice] = "succeeded"
        /\ swaps[s].status \in {"Paid", "Claimed"} => swaps[s].ln_preimage_hex # None

-----------------------------------------------------------------------------
(* What a step may never do.                                               *)

\* CreateSwap's unconditional Funded never hides a payment or a claim, and the
\* worker's and the claim's outcomes never replace one another.
StatusMoves ==
    \A s \in Stored :
        LET old == swaps[s].status  new == swaps'[s].status IN
        /\ new = "Funded" => old \notin {"Paid", "Claimed"}
        /\ ~(old = "Claimed" /\ new = "Refunded")
        /\ ~(old = "Refunded" /\ new = "Claimed")
StatusNeverLosesPayment == [][StatusMoves]_vars

-----------------------------------------------------------------------------
(* Fairness.  Tasks and the worker's thread are scheduled; the wallet mutex *)
(* is not kept from a waiter forever (each holder lets go, and the worker   *)
(* sleeps between two passes); a poll loop reaches its deadline; a server   *)
(* that is asked again and again answers at last.  Nothing is assumed of    *)
(* clients, blocks, payments or crashes.                                    *)

Handler(c) ==
    /\ \/ CreateReplay(c)
       \/ \E s \in SwapId : CreateValidate(c, s)
       \/ CreateInvoice(c) \/ CreateLock(c) \/ CreateFund(c) \/ CreateFundError(c)
       \/ CreateInsert(c) \/ CreateLink(c) \/ CreatePoll(c) \/ CreateCheck(c)
       \/ CreateMarkFunded(c) \/ CreateGiveUp(c)
       \/ PaySend(c) \/ PaySendError(c) \/ PayPreimage(c) \/ PayPersist(c) \/ PayGiveUp(c)
       \/ ClaimLock(c) \/ ClaimBroadcast(c) \/ ClaimBroadcastError(c)
       \/ ClaimPersist(c) \/ ClaimGiveUp(c)
       \/ Deliver(c)
    /\ UNCHANGED <<worker, restarts>>

Acquire(c) ==
    /\ CreateLock(c) \/ CreatePoll(c) \/ ClaimLock(c)
    /\ UNCHANGED <<worker, restarts>>

Deadline(c) == At(c, "create_check") /\ CreateGiveUp(c) /\ UNCHANGED <<worker, restarts>>

InPass(A) == A /\ UNCHANGED <<lnVars, call, cfg, restarts>>

Fairness ==
    /\ \A c \in Call : /\ WF_vars(Handler(c))
                       /\ SF_vars(Acquire(c))
                       /\ SF_vars(Deadline(c))
    /\ WF_vars(Refunds)
    /\ SF_vars(InPass(RefundStart))
    /\ SF_vars(InPass(RefundList))
    /\ \A s \in SwapId : /\ SF_vars(InPass(RefundBroadcast(s)))
                         /\ SF_vars(InPass(RefundRecord(s)))

FairSpec == Spec /\ Fairness

\* Every request ends: no handler waits forever for the wallet mutex, for
\* confirmations that do not come, or for a payment that does not resolve.
RequestsEnd == \A c \in Call : ~At(c, "idle") ~> At(c, "idle")

\* An HTLC whose swap is recorded, unpaid and expired, and whose refund the
\* server can build, does not stay locked: it is refunded, or the swap is paid
\* after all.
Expired(s) ==
    /\ s \in Stored
    /\ RefundBuildable(s)
    /\ swaps[s].status \in {"Created", "Funded"}
    /\ tip >= swaps[s].refund_lock_height
Paid(s) == s \in Stored /\ swaps[s].ln_preimage_hex # None
ExpiredIsRefunded == \A s \in SwapId : Expired(s) ~> (spend[s] # None \/ Paid(s))

-----------------------------------------------------------------------------
(* What the documents say.                                                 *)

\* docs/protobuf/api-design.mdx: CreateSwap is idempotent per quote_id.
OneSwapPerQuote ==
    \A s, t \in Stored : swaps[s].quote_id = swaps[t].quote_id => s = t

\* The refund worker refunds after expiry when the invoice is not paid.
RefundedOnlyIfUnpaid ==
    \A s \in SwapId :
        (spend[s] # None /\ spend[s].path = "refund")
            => payment[htlc[s].payment_hash] # "succeeded"

\* plans/2026-01-13_ln-liquid-swap-production-lite.md: status goes `Created ->
\* Funded -> Claimed/Refunded`, and invalid transitions are rejected.  A swap
\* whose refund the worker has recorded is not made Funded again, by
\* create_swap's write after its wait.
RefundedStays ==
    [][\A s \in Stored :
        ~(swaps[s].status = "Refunded" /\ swaps'[s].status = "Funded")]_vars

=============================================================================
