---------------------------- MODULE SwapService ----------------------------
(***************************************************************************)
(* SwapServiceImpl (src/swap/service.rs): its RPC handlers, cut where      *)
(* they let others run: at a mutex acquired or released, at an await, and  *)
(* at each committed effect (a broadcast, a store statement), since the    *)
(* process may die between two of them.  A request that ends in an error   *)
(* leaves its slot idle; one that succeeds shows its reply until the       *)
(* client has it.                                                          *)
(***************************************************************************)
EXTENDS LiquidWallet, LightningNode, SwapStore

VARIABLES
    call,       \* call[c]: the request in slot c, with the locals it carries
    cfg         \* the offer part of SwapServiceConfig, fixed while a process runs

CreatePc == {"create_replay", "create_validate", "create_invoice", "create_lock",
             "create_fund", "create_insert", "create_link", "create_wait",
             "create_check", "create_confirmed"}
PayPc == {"pay_send", "pay_wait", "pay_persist"}
ClaimPc == {"claim_lock", "claim_broadcast", "claim_persist"}

CallRecord == [pc: {"idle", "replied"} \cup CreatePc \cup PayPc \cup ClaimPc,
               quote: QuoteId \cup {None}, swap: SwapId \cup {None},
               address: BuyerAddress \cup {None}, invoice: Invoice \cup {None},
               lock: Nat, fee: Nat, reply: {"created", "paid", "claimed"} \cup {None}]

IdleCall == [pc |-> "idle", quote |-> None, swap |-> None, address |-> None,
             invoice |-> None, lock |-> 0, fee |-> 0, reply |-> None]

ServiceTypeOK ==
    /\ call \in [Call -> CallRecord]
    /\ cfg \in Offer

ServiceInit ==
    /\ call = [c \in Call |-> IdleCall]
    /\ cfg \in Offer

At(c, pc) == call[c].pc = pc
Goto(c, pc) == call' = [call EXCEPT ![c].pc = pc]
Start(c, record) == At(c, "idle") /\ call' = [call EXCEPT ![c] = record]
Fail(c) == call' = [call EXCEPT ![c] = IdleCall]
Reply(c, what) ==
    call' = [call EXCEPT ![c] = [IdleCall EXCEPT !.pc = "replied", !.reply = what,
                                                 !.swap = call[c].swap]]

\* The store mutex is held across statements in one place only: CreateSwap
\* inserts the swap and links the quote under it.
StoreUnlocked == \A c \in Call : ~At(c, "create_link")

\* The client has the reply.
Deliver(c) ==
    /\ At(c, "replied")
    /\ Fail(c)
    /\ UNCHANGED <<chainVars, lnVars, storeVars, walletVars, cfg>>

-----------------------------------------------------------------------------
(* CreateQuote: validation, and one insert under the store mutex.          *)

\* Variant: the bound on min_funding_confs is not checked.
CreateQuoteUnbounded(q, direction, confs) ==
    /\ StoreUnlocked
    /\ insert_quote(q, [direction |-> direction, min_funding_confs |-> confs,
                        offer_id |-> cfg, swap_id |-> None])
    /\ UNCHANGED <<chainVars, lnVars, walletVars, call, cfg>>

CreateQuote(q, direction, confs) ==
    /\ StoreUnlocked
    /\ confs <= MAX_MIN_FUNDING_CONFS
    /\ insert_quote(q, [direction |-> direction, min_funding_confs |-> confs,
                        offer_id |-> cfg, swap_id |-> None])
    /\ UNCHANGED <<chainVars, lnVars, walletVars, call, cfg>>

-----------------------------------------------------------------------------
(* CreateSwap.                                                             *)

\* A fresh uuid: no one has ever used it.
FreshId(s) ==
    /\ s \notin Stored
    /\ htlc[s] = None
    /\ payment[s] = "none"
    /\ \A c \in Call : call[c].swap # s

\* get_quote: a quote that already names a swap is answered with that swap.
CreateStart(c, q, address, invoice) ==
    /\ StoreUnlocked
    /\ quotes[q] # None
    /\ LET linked == quotes[q].swap_id
       IN Start(c, [IdleCall EXCEPT
                      !.pc = IF linked # None THEN "create_replay" ELSE "create_validate",
                      !.swap = linked, !.quote = q,
                      !.address = address, !.invoice = invoice])
    /\ UNCHANGED <<chainVars, lnVars, storeVars, walletVars, cfg>>

\* get_swap of the linked swap, returned as it is; no row is an error.
CreateReplay(c) ==
    /\ At(c, "create_replay")
    /\ StoreUnlocked
    /\ IF call[c].swap \in Stored THEN Reply(c, "created") ELSE Fail(c)
    /\ UNCHANGED <<chainVars, lnVars, storeVars, walletVars, cfg>>

\* Variant: the offer is not compared with the quote's.
CreateValidateAnyOffer(c, s) ==
    LET quote == quotes[call[c].quote] IN
    /\ At(c, "create_validate")
    /\ owner = None
    /\ quote.direction = "LnToLiquid" <=> call[c].invoice = None
    /\ FreshId(s)
    /\ call' = [call EXCEPT ![c].swap = s,
                            ![c].pc = IF quote.direction = "LnToLiquid"
                                      THEN "create_invoice" ELSE "create_lock"]
    /\ UNCHANGED <<chainVars, lnVars, storeVars, walletVars, cfg>>

\* The checks of the quote and the request, the network check under the wallet
\* mutex, and the swap id.  A buyer brings an invoice iff the LN payee is the buyer.
CreateValidate(c, s) ==
    LET quote == quotes[call[c].quote] IN
    /\ At(c, "create_validate")
    /\ quote.offer_id = cfg
    /\ owner = None
    /\ quote.direction = "LnToLiquid" <=> call[c].invoice = None
    /\ FreshId(s)
    /\ call' = [call EXCEPT ![c].swap = s,
                            ![c].pc = IF quote.direction = "LnToLiquid"
                                      THEN "create_invoice" ELSE "create_lock"]
    /\ UNCHANGED <<chainVars, lnVars, storeVars, walletVars, cfg>>

\* ln.create_invoice().await
CreateInvoice(c) ==
    /\ At(c, "create_invoice")
    /\ call' = [call EXCEPT ![c].pc = "create_lock", ![c].invoice = call[c].swap]
    /\ UNCHANGED <<chainVars, lnVars, storeVars, walletVars, cfg>>

\* The blocking task takes the wallet mutex, syncs and fixes the refund height.
CreateLock(c) ==
    /\ At(c, "create_lock")
    /\ LockAndSync(c)
    /\ call' = [call EXCEPT ![c].pc = "create_fund",
                            ![c].lock = tip + cfg.refund_delta_blocks]
    /\ UNCHANGED <<chainVars, lnVars, storeVars, cfg>>

FundedSpec(c) == HtlcSpecFor(quotes[call[c].quote].direction, call[c].invoice,
                             call[c].address, call[c].lock)

\* build_and_broadcast_funding, which syncs again before it builds.
CreateFund(c) ==
    /\ At(c, "create_fund")
    /\ BroadcastFunding(call[c].swap, FundedSpec(c))
    /\ sync
    /\ Goto(c, "create_insert")
    /\ UNCHANGED <<lnVars, storeVars, owner, cfg>>

\* The network has the funding transaction and the call fails all the same: the
\* electrum reply is lost, or the outputs are not found in the transaction.
CreateFundError(c) ==
    /\ At(c, "create_fund")
    /\ BroadcastFunding(call[c].swap, FundedSpec(c))
    /\ sync
    /\ Unlock(c)
    /\ Fail(c)
    /\ UNCHANGED <<lnVars, storeVars, cfg>>

\* Variant: the refund height is computed again for the row.
CreateInsertNewHeight(c) ==
    LET quote == quotes[call[c].quote] IN
    /\ At(c, "create_insert")
    /\ StoreUnlocked
    /\ insert_swap(call[c].swap,
         [quote_id |-> call[c].quote, direction |-> quote.direction,
          bolt11_invoice |-> call[c].invoice,
          buyer_liquid_address |-> call[c].address,
          fee_subsidy_sats |-> cfg.fee_subsidy_sats,
          refund_lock_height |-> walletTip + cfg.refund_delta_blocks,
          min_funding_confs |-> quote.min_funding_confs,
          ln_preimage_hex |-> None, claim_txid |-> None, status |-> "Created"])
    /\ Goto(c, "create_link")
    /\ UNCHANGED <<chainVars, lnVars, walletVars, cfg>>

\* insert_swap; the store mutex stays held.
CreateInsert(c) ==
    LET quote == quotes[call[c].quote] IN
    /\ At(c, "create_insert")
    /\ StoreUnlocked
    /\ insert_swap(call[c].swap,
         [quote_id |-> call[c].quote, direction |-> quote.direction,
          bolt11_invoice |-> call[c].invoice,
          buyer_liquid_address |-> call[c].address,
          fee_subsidy_sats |-> cfg.fee_subsidy_sats,
          refund_lock_height |-> call[c].lock,
          min_funding_confs |-> quote.min_funding_confs,
          ln_preimage_hex |-> None, claim_txid |-> None, status |-> "Created"])
    /\ Goto(c, "create_link")
    /\ UNCHANGED <<chainVars, lnVars, walletVars, cfg>>

\* set_quote_swap_id; the store and the wallet mutex are released.
CreateLink(c) ==
    /\ At(c, "create_link")
    /\ set_quote_swap_id(call[c].quote, call[c].swap)
    /\ Unlock(c)
    /\ Goto(c, "create_wait")
    /\ UNCHANGED <<chainVars, lnVars, walletTip, cfg>>

\* wait_for_funding_confirmations: each poll holds the wallet mutex from the
\* sync to the reading of the script's history.
CreatePoll(c) ==
    /\ At(c, "create_wait")
    /\ LockAndSync(c)
    /\ Goto(c, "create_check")
    /\ UNCHANGED <<chainVars, lnVars, storeVars, cfg>>

CreateCheck(c) ==
    /\ At(c, "create_check")
    /\ Unlock(c)
    /\ Goto(c, IF Confirmations(call[c].swap) >= quotes[call[c].quote].min_funding_confs
               THEN "create_confirmed" ELSE "create_wait")
    /\ UNCHANGED <<chainVars, lnVars, storeVars, walletTip, cfg>>

\* update_swap_status(Funded), whatever the status is by now.
CreateMarkFunded(c) ==
    /\ At(c, "create_confirmed")
    /\ StoreUnlocked
    /\ update_swap_status(call[c].swap, "Funded")
    /\ Reply(c, "created")
    /\ UNCHANGED <<chainVars, lnVars, walletVars, cfg>>

\* Variant: the wait for the confirmations has no deadline.
CreateGiveUpNeverWaiting(c) ==
    /\ call[c].pc \in CreatePc \ {"create_wait", "create_check"}
    /\ call[c].pc = "create_lock" => owner = None
    /\ Fail(c)
    /\ owner' = IF owner = c THEN None ELSE owner
    /\ UNCHANGED <<chainVars, lnVars, storeVars, walletTip, cfg>>

\* Every other way out: the offer changed, the request is refused, the LN node,
\* a sync, the funding or a store statement fails, the wait reaches its
\* deadline, the client goes away at an await.  What was done stays done.  A
\* handler that waits for the wallet mutex waits until it has it.
CreateGiveUp(c) ==
    /\ call[c].pc \in CreatePc
    /\ call[c].pc \in {"create_lock", "create_wait"} => owner = None
    /\ Fail(c)
    /\ owner' = IF owner = c THEN None ELSE owner
    /\ UNCHANGED <<chainVars, lnVars, storeVars, walletTip, cfg>>

-----------------------------------------------------------------------------
(* CreateLightningPayment.                                                 *)

\* Variant: the status is not checked.
PayStartAnyStatus(c, s, caller) ==
    /\ StoreUnlocked
    /\ s \in Stored
    /\ caller = LnPayer(swaps[s].direction)
    /\ \/ /\ swaps[s].ln_preimage_hex # None
          /\ Start(c, [IdleCall EXCEPT !.pc = "replied", !.swap = s, !.reply = "paid"])
       \/ /\ swaps[s].ln_preimage_hex = None
          /\ Start(c, [IdleCall EXCEPT !.pc = "pay_send", !.swap = s,
                                       !.invoice = swaps[s].bolt11_invoice])
    /\ UNCHANGED <<chainVars, lnVars, storeVars, walletVars, cfg>>

\* get_swap: the result of an earlier payment, or a Funded swap to pay.
PayStart(c, s, caller) ==
    /\ StoreUnlocked
    /\ s \in Stored
    /\ caller = LnPayer(swaps[s].direction)
    /\ \/ /\ swaps[s].ln_preimage_hex # None
          /\ Start(c, [IdleCall EXCEPT !.pc = "replied", !.swap = s, !.reply = "paid"])
       \/ /\ swaps[s].ln_preimage_hex = None
          /\ swaps[s].status = "Funded"
          /\ Start(c, [IdleCall EXCEPT !.pc = "pay_send", !.swap = s,
                                       !.invoice = swaps[s].bolt11_invoice])
    /\ UNCHANGED <<chainVars, lnVars, storeVars, walletVars, cfg>>

\* Variant: the swap is marked Paid when the payment is sent.
PaySendMarksPaid(c) ==
    /\ At(c, "pay_send")
    /\ Sendable(call[c].invoice)
    /\ SetPayment(call[c].invoice, "pending")
    /\ update_swap_status(call[c].swap, "Paid")
    /\ Goto(c, "pay_wait")
    /\ UNCHANGED <<chainVars, walletVars, cfg>>

\* ln.pay_invoice().await
PaySend(c) ==
    /\ At(c, "pay_send")
    /\ Sendable(call[c].invoice)
    /\ SetPayment(call[c].invoice, "pending")
    /\ Goto(c, "pay_wait")
    /\ UNCHANGED <<chainVars, storeVars, walletVars, cfg>>

\* The node sends, and its answer does not reach the handler.
PaySendError(c) ==
    /\ At(c, "pay_send")
    /\ Sendable(call[c].invoice)
    /\ SetPayment(call[c].invoice, "pending")
    /\ Fail(c)
    /\ UNCHANGED <<chainVars, storeVars, walletVars, cfg>>

\* Variant: any payment found counts.
PayPreimageAnyPayment(c) ==
    /\ At(c, "pay_wait")
    /\ payment[call[c].invoice] # "none"
    /\ Goto(c, "pay_persist")
    /\ UNCHANGED <<chainVars, lnVars, storeVars, walletVars, cfg>>

\* ln.wait_preimage().await: a poll finds the payment succeeded.  A failed
\* payment is polled on, until the timeout.
PayPreimage(c) ==
    /\ At(c, "pay_wait")
    /\ payment[call[c].invoice] = "succeeded"
    /\ Goto(c, "pay_persist")
    /\ UNCHANGED <<chainVars, lnVars, storeVars, walletVars, cfg>>

\* upsert_swap_payment(.., Paid), whatever the status is by now.
PayPersist(c) ==
    /\ At(c, "pay_persist")
    /\ StoreUnlocked
    /\ upsert_swap_payment(call[c].swap, call[c].invoice, "Paid")
    /\ Reply(c, "paid")
    /\ UNCHANGED <<chainVars, lnVars, walletVars, cfg>>

\* The node refuses to send, the wait times out, the client goes away at an
\* await, the store fails.
PayGiveUp(c) ==
    /\ call[c].pc \in PayPc
    /\ Fail(c)
    /\ UNCHANGED <<chainVars, lnVars, storeVars, walletVars, cfg>>

-----------------------------------------------------------------------------
(* CreateAssetClaim.                                                       *)

\* Variant: a claim is built for a swap that is not paid.
ClaimStartUnpaid(c, s, caller, fee) ==
    /\ StoreUnlocked
    /\ s \in Stored
    /\ caller = LiquidClaimer(swaps[s].direction)
    /\ swaps[s].claim_txid = None
    /\ Start(c, [IdleCall EXCEPT !.pc = "claim_lock", !.swap = s, !.fee = fee,
                                 !.invoice = swaps[s].bolt11_invoice])
    /\ UNCHANGED <<chainVars, lnVars, storeVars, walletVars, cfg>>

\* get_swap: the txid of an earlier claim, or a preimage to claim with.
ClaimStart(c, s, caller, fee) ==
    /\ StoreUnlocked
    /\ s \in Stored
    /\ caller = LiquidClaimer(swaps[s].direction)
    /\ \/ /\ swaps[s].claim_txid # None
          /\ Start(c, [IdleCall EXCEPT !.pc = "replied", !.swap = s, !.reply = "claimed"])
       \/ /\ swaps[s].claim_txid = None
          /\ swaps[s].ln_preimage_hex # None
          /\ Start(c, [IdleCall EXCEPT !.pc = "claim_lock", !.swap = s, !.fee = fee,
                                       !.invoice = swaps[s].ln_preimage_hex])
    /\ UNCHANGED <<chainVars, lnVars, storeVars, walletVars, cfg>>

ClaimLock(c) ==
    /\ At(c, "claim_lock")
    /\ LockAndSync(c)
    /\ Goto(c, "claim_broadcast")
    /\ UNCHANGED <<chainVars, lnVars, storeVars, cfg>>

ClaimKey(s) == IF swaps[s].direction = "LnToLiquid" THEN BuyerKey ELSE SellerKey

\* The wallet must own the buyer's address where the buyer claims, and the fee
\* must leave something of the subsidy.
ClaimBuildable(c) ==
    LET s == call[c].swap IN
    /\ swaps[s].direction = "LnToLiquid" => swaps[s].buyer_liquid_address = BuyerKey
    /\ call[c].fee < swaps[s].fee_subsidy_sats

ClaimTxOf(c) == ClaimTx(ClaimKey(call[c].swap), call[c].fee)

ClaimBroadcast(c) ==
    /\ At(c, "claim_broadcast")
    /\ ClaimBuildable(c)
    /\ Accepts(call[c].swap, ClaimTxOf(c), call[c].invoice)
    /\ BroadcastSpend(call[c].swap, ClaimTxOf(c))
    /\ Goto(c, "claim_persist")
    /\ UNCHANGED <<lnVars, storeVars, walletVars, cfg>>

\* The network has the claim and the electrum reply is lost.
ClaimBroadcastError(c) ==
    /\ At(c, "claim_broadcast")
    /\ ClaimBuildable(c)
    /\ Accepts(call[c].swap, ClaimTxOf(c), call[c].invoice)
    /\ BroadcastSpend(call[c].swap, ClaimTxOf(c))
    /\ Unlock(c)
    /\ Fail(c)
    /\ UNCHANGED <<lnVars, storeVars, walletTip, cfg>>

\* upsert_swap_claim, still under the wallet mutex.
ClaimPersist(c) ==
    /\ At(c, "claim_persist")
    /\ StoreUnlocked
    /\ upsert_swap_claim(call[c].swap, ClaimTxOf(c), "Claimed")
    /\ Unlock(c)
    /\ Reply(c, "claimed")
    /\ UNCHANGED <<chainVars, lnVars, walletTip, cfg>>

\* The sync fails, the claim is not buildable or is refused, the store fails.
ClaimGiveUp(c) ==
    /\ call[c].pc \in ClaimPc
    /\ At(c, "claim_lock") => owner = None
    /\ Fail(c)
    /\ owner' = IF owner = c THEN None ELSE owner
    /\ UNCHANGED <<chainVars, lnVars, storeVars, walletTip, cfg>>

-----------------------------------------------------------------------------
CreateNext(c) ==
    \/ \E q \in QuoteId, a \in BuyerAddress, i \in BuyerInvoice \cup {None} :
         CreateStart(c, q, a, i)
    \/ CreateReplay(c)
    \/ \E s \in SwapId : CreateValidate(c, s)
    \/ CreateInvoice(c)
    \/ CreateLock(c)
    \/ CreateFund(c)
    \/ CreateFundError(c)
    \/ CreateInsert(c)
    \/ CreateLink(c)
    \/ CreatePoll(c)
    \/ CreateCheck(c)
    \/ CreateMarkFunded(c)
    \/ CreateGiveUp(c)

PayNext(c) ==
    \/ \E s \in SwapId, r \in Role : PayStart(c, s, r)
    \/ PaySend(c)
    \/ PaySendError(c)
    \/ PayPreimage(c)
    \/ PayPersist(c)
    \/ PayGiveUp(c)

ClaimNext(c) ==
    \/ \E s \in SwapId, r \in Role, f \in ClaimFee : ClaimStart(c, s, r, f)
    \/ ClaimLock(c)
    \/ ClaimBroadcast(c)
    \/ ClaimBroadcastError(c)
    \/ ClaimPersist(c)
    \/ ClaimGiveUp(c)

ServiceNext ==
    \/ \E q \in QuoteId, d \in Direction, n \in MinConfs : CreateQuote(q, d, n)
    \/ \E c \in Call : CreateNext(c) \/ PayNext(c) \/ ClaimNext(c) \/ Deliver(c)
=============================================================================
