---------------------------- MODULE SwapEffects -----------------------------
(***************************************************************************)
(* What one step of the server does: to the store, to the chain and the    *)
(* payments, and to a request.  The proofs of the invariants rest on these *)
(* lemmas instead of going through the actions again.                      *)
(***************************************************************************)
EXTENDS SwapInvariants, TLAPS

USE DEF At, Goto, Start, Fail, Lock, Unlock, sync, LockAndSync,
        chainVars, lnVars, storeVars, walletVars

\* The type of the request slots.
CallType == call \in [Call -> CallRecord]

\* Slot c is left with what its caller sees.
LEMMA ReplyEffect ==
  ASSUME CallType, NEW c \in Call,
         NEW what \in {"created", "paid", "claimed"}, Reply(c, what)
  PROVE  /\ call' \in [Call -> CallRecord]
         /\ \A d \in Call \ {c} : call'[d] = call[d]
         /\ call'[c].pc = "replied"
         /\ call'[c].swap = call[c].swap
<1> USE DEF CallType
<1> DEFINE r == [IdleCall EXCEPT !.pc = "replied", !.reply = what, !.swap = call[c].swap]
<1>1. call[c].swap \in SwapId \cup {None}
  BY DEF CallRecord
<1>2. r \in CallRecord /\ r.pc = "replied" /\ r.swap = call[c].swap
  BY <1>1 DEF IdleCall, CallRecord
<1> HIDE DEF r
<1>3. call' = [call EXCEPT ![c] = r]
  BY DEF r, Reply
<1> QED BY <1>2, <1>3

\* A payment that goes on to the node, and a claim that goes on to the wallet.
PayStarted(c) ==
    /\ At(c, "idle")
    /\ call'[c].pc = "pay_send"
    /\ call'[c].swap \in Stored
    /\ swaps[call'[c].swap].status = "Funded"
    /\ swaps[call'[c].swap].ln_preimage_hex = None
    /\ call'[c].invoice = swaps[call'[c].swap].bolt11_invoice
ClaimStarted(c) ==
    /\ At(c, "idle")
    /\ call'[c].pc = "claim_lock"
    /\ call'[c].swap \in Stored
    /\ swaps[call'[c].swap].ln_preimage_hex # None
    /\ call'[c].invoice = swaps[call'[c].swap].ln_preimage_hex

\* Nothing but slot c changes.
OnlySlot(c) ==
    /\ call' \in [Call -> CallRecord]
    /\ \A d \in Call : d # c => call'[d] = call[d]
    /\ UNCHANGED <<chainVars, lnVars, storeVars, walletVars, cfg>>

\* CreateLightningPayment before its first await: a swap that is paid is answered
\* from its row, a Funded one goes on to the node.
LEMMA PayStartEffect ==
  ASSUME CallType, StoreTypeOK, NEW c \in Call, NEW s \in SwapId, NEW r \in Role,
         PayStart(c, s, r)
  PROVE  /\ OnlySlot(c)
         /\ PayStarted(c) \/ (call'[c].pc = "replied" /\ call'[c].swap \in Stored)
<1> DEFINE done == [IdleCall EXCEPT !.pc = "replied", !.swap = s, !.reply = "paid"]
           send == [IdleCall EXCEPT !.pc = "pay_send", !.swap = s,
                                    !.invoice = swaps[s].bolt11_invoice]
<1>1. s \in Stored /\ swaps[s] \in SwapRecord
  BY DEF PayStart, Stored, StoreTypeOK
<1>2. done \in CallRecord /\ done.pc = "replied" /\ done.swap = s
  BY DEF IdleCall, CallRecord
<1>3. send \in CallRecord /\ send.pc = "pay_send" /\ send.swap = s
      /\ send.invoice = swaps[s].bolt11_invoice
  BY <1>1 DEF IdleCall, CallRecord, SwapRecord, PayPc
<1>4. \/ call[c].pc = "idle" /\ call' = [call EXCEPT ![c] = done]
      \/ /\ swaps[s].status = "Funded"
         /\ swaps[s].ln_preimage_hex = None
         /\ call[c].pc = "idle"
         /\ call' = [call EXCEPT ![c] = send]
  BY DEF PayStart
<1>5. UNCHANGED <<chainVars, lnVars, storeVars, walletVars, cfg>>
  BY DEF PayStart
<1> HIDE DEF done, send
<1> QED
  BY <1>1, <1>2, <1>3, <1>4, <1>5 DEF CallType, PayStarted, OnlySlot

\* CreateAssetClaim before the wallet mutex: a claimed swap is answered from its
\* row, a paid one goes on to the wallet.
LEMMA ClaimStartEffect ==
  ASSUME CallType, StoreTypeOK, NEW c \in Call, NEW s \in SwapId, NEW r \in Role,
         NEW f \in ClaimFee, ClaimStart(c, s, r, f)
  PROVE  /\ OnlySlot(c)
         /\ ClaimStarted(c) \/ (call'[c].pc = "replied" /\ call'[c].swap \in Stored)
<1> DEFINE done == [IdleCall EXCEPT !.pc = "replied", !.swap = s, !.reply = "claimed"]
           claim == [IdleCall EXCEPT !.pc = "claim_lock", !.swap = s, !.fee = f,
                                     !.invoice = swaps[s].ln_preimage_hex]
<1>1. s \in Stored /\ swaps[s] \in SwapRecord /\ f \in Nat
  BY FeeAssumption DEF ClaimStart, Stored, StoreTypeOK
<1>2. done \in CallRecord /\ done.pc = "replied" /\ done.swap = s
  BY DEF IdleCall, CallRecord
<1>3. claim \in CallRecord /\ claim.pc = "claim_lock" /\ claim.swap = s
      /\ claim.invoice = swaps[s].ln_preimage_hex
  BY <1>1 DEF IdleCall, CallRecord, SwapRecord, ClaimPc
<1>4. \/ call[c].pc = "idle" /\ call' = [call EXCEPT ![c] = done]
      \/ /\ swaps[s].ln_preimage_hex # None
         /\ call[c].pc = "idle"
         /\ call' = [call EXCEPT ![c] = claim]
  BY DEF ClaimStart
<1>5. UNCHANGED <<chainVars, lnVars, storeVars, walletVars, cfg>>
  BY DEF ClaimStart
<1> HIDE DEF done, claim
<1> QED
  BY <1>1, <1>2, <1>3, <1>4, <1>5 DEF CallType, ClaimStarted, OnlySlot

\* The terms of a row: the columns that no update statement names.
SameTerms(s) ==
    /\ swaps'[s].quote_id = swaps[s].quote_id
    /\ swaps'[s].direction = swaps[s].direction
    /\ swaps'[s].bolt11_invoice = swaps[s].bolt11_invoice
    /\ swaps'[s].buyer_liquid_address = swaps[s].buyer_liquid_address
    /\ swaps'[s].fee_subsidy_sats = swaps[s].fee_subsidy_sats
    /\ swaps'[s].refund_lock_height = swaps[s].refund_lock_height
    /\ swaps'[s].min_funding_confs = swaps[s].min_funding_confs

\* What an update of row s does to the store.
Updated(s) ==
    /\ s \in Stored
    /\ Stored' = Stored
    /\ \A t \in Stored : t # s => swaps'[t] = swaps[t]
    /\ swaps' \in [SwapId -> SwapRecord \cup {None}]
    /\ SameTerms(s)
    /\ UNCHANGED quotes

\* What the three update statements leave in the row.
StatusSet(s, status) ==
    /\ Updated(s)
    /\ swaps'[s].status = status
    /\ swaps'[s].ln_preimage_hex = swaps[s].ln_preimage_hex
    /\ swaps'[s].claim_txid = swaps[s].claim_txid
PreimageSet(s, i) ==
    /\ Updated(s)
    /\ swaps'[s].status = "Paid"
    /\ swaps'[s].ln_preimage_hex = i
    /\ swaps'[s].claim_txid = swaps[s].claim_txid
ClaimSet(s, tx) ==
    /\ Updated(s)
    /\ swaps'[s].status = "Claimed"
    /\ swaps'[s].ln_preimage_hex = swaps[s].ln_preimage_hex
    /\ swaps'[s].claim_txid = tx

\* update_swap_status changes one column of one row.
LEMMA StatusEffect ==
  ASSUME StoreTypeOK, NEW s \in SwapId \cup {None}, NEW status \in SwapStatus,
         update_swap_status(s, status)
  PROVE  StatusSet(s, status)
<1> DEFINE r == [swaps[s] EXCEPT !.status = status]
<1>1. s \in SwapId /\ s \in Stored /\ swaps[s] \in SwapRecord
  BY DEF update_swap_status, StoreTypeOK, Stored
<1>2. r \in SwapRecord
  BY <1>1 DEF SwapRecord
<1>3. /\ r.quote_id = swaps[s].quote_id
      /\ r.direction = swaps[s].direction
      /\ r.bolt11_invoice = swaps[s].bolt11_invoice
      /\ r.buyer_liquid_address = swaps[s].buyer_liquid_address
      /\ r.fee_subsidy_sats = swaps[s].fee_subsidy_sats
      /\ r.refund_lock_height = swaps[s].refund_lock_height
      /\ r.min_funding_confs = swaps[s].min_funding_confs
      /\ r.status = status
      /\ r.ln_preimage_hex = swaps[s].ln_preimage_hex
      /\ r.claim_txid = swaps[s].claim_txid
  BY <1>1 DEF SwapRecord
<1>4. swaps' = [swaps EXCEPT ![s] = r] /\ UNCHANGED quotes
  BY DEF update_swap_status
<1> HIDE DEF r
<1> QED
  BY <1>1, <1>2, <1>3, <1>4, NoneAssumption DEF StoreTypeOK, Stored, Updated, SameTerms,
     StatusSet

\* upsert_swap_payment changes two columns of one row.
LEMMA PaymentEffect ==
  ASSUME StoreTypeOK, NEW s \in SwapId \cup {None}, NEW i \in Invoice \cup {None},
         upsert_swap_payment(s, i, "Paid")
  PROVE  PreimageSet(s, i)
<1> DEFINE r == [swaps[s] EXCEPT !.ln_preimage_hex = i, !.status = "Paid"]
<1>1. s \in SwapId /\ s \in Stored /\ swaps[s] \in SwapRecord
  BY DEF upsert_swap_payment, StoreTypeOK, Stored
<1>2. r \in SwapRecord
  BY <1>1 DEF SwapRecord, SwapStatus
<1>3. /\ r.quote_id = swaps[s].quote_id
      /\ r.direction = swaps[s].direction
      /\ r.bolt11_invoice = swaps[s].bolt11_invoice
      /\ r.buyer_liquid_address = swaps[s].buyer_liquid_address
      /\ r.fee_subsidy_sats = swaps[s].fee_subsidy_sats
      /\ r.refund_lock_height = swaps[s].refund_lock_height
      /\ r.min_funding_confs = swaps[s].min_funding_confs
      /\ r.status = "Paid"
      /\ r.ln_preimage_hex = i
      /\ r.claim_txid = swaps[s].claim_txid
  BY <1>1 DEF SwapRecord
<1>4. swaps' = [swaps EXCEPT ![s] = r] /\ UNCHANGED quotes
  BY DEF upsert_swap_payment
<1> HIDE DEF r
<1> QED
  BY <1>1, <1>2, <1>3, <1>4, NoneAssumption DEF StoreTypeOK, Stored, Updated, SameTerms,
     PreimageSet

\* upsert_swap_claim changes two columns of one row.
LEMMA ClaimEffect ==
  ASSUME StoreTypeOK, NEW s \in SwapId \cup {None}, NEW tx \in SpendTx,
         upsert_swap_claim(s, tx, "Claimed")
  PROVE  ClaimSet(s, tx)
<1> DEFINE r == [swaps[s] EXCEPT !.claim_txid = tx, !.status = "Claimed"]
<1>1. s \in SwapId /\ s \in Stored /\ swaps[s] \in SwapRecord
  BY DEF upsert_swap_claim, StoreTypeOK, Stored
<1>2. r \in SwapRecord
  BY <1>1 DEF SwapRecord, SwapStatus
<1>3. /\ r.quote_id = swaps[s].quote_id
      /\ r.direction = swaps[s].direction
      /\ r.bolt11_invoice = swaps[s].bolt11_invoice
      /\ r.buyer_liquid_address = swaps[s].buyer_liquid_address
      /\ r.fee_subsidy_sats = swaps[s].fee_subsidy_sats
      /\ r.refund_lock_height = swaps[s].refund_lock_height
      /\ r.min_funding_confs = swaps[s].min_funding_confs
      /\ r.status = "Claimed"
      /\ r.ln_preimage_hex = swaps[s].ln_preimage_hex
      /\ r.claim_txid = tx
  BY <1>1 DEF SwapRecord
<1>4. swaps' = [swaps EXCEPT ![s] = r] /\ UNCHANGED quotes
  BY DEF upsert_swap_claim
<1> HIDE DEF r
<1> QED
  BY <1>1, <1>2, <1>3, <1>4, NoneAssumption DEF StoreTypeOK, Stored, Updated, SameTerms,
     ClaimSet

\* The row CreateInsert writes.
Inserted(c) ==
    LET s == call[c].swap  quote == quotes[call[c].quote] IN
    /\ s \in SwapId
    /\ s \notin Stored
    /\ Stored' = Stored \cup {s}
    /\ \A t \in Stored : t # s => swaps'[t] = swaps[t]
    /\ swaps'[s] \in SwapRecord
    /\ swaps'[s].quote_id = call[c].quote
    /\ swaps'[s].direction = quote.direction
    /\ swaps'[s].bolt11_invoice = call[c].invoice
    /\ swaps'[s].buyer_liquid_address = call[c].address
    /\ swaps'[s].fee_subsidy_sats = cfg.fee_subsidy_sats
    /\ swaps'[s].refund_lock_height = call[c].lock
    /\ swaps'[s].min_funding_confs = quote.min_funding_confs
    /\ swaps'[s].ln_preimage_hex = None
    /\ swaps'[s].claim_txid = None
    /\ swaps'[s].status = "Created"
    /\ UNCHANGED quotes

\* insert_swap adds one row, made from the quote, the offer and the locals.
LEMMA InsertEffect ==
  ASSUME StoreTypeOK, ServiceTypeOK, LocalsInv, NEW c \in Call, CreateInsert(c)
  PROVE  Inserted(c)
<1> DEFINE s == call[c].swap
           quote == quotes[call[c].quote]
           r == [quote_id |-> call[c].quote, direction |-> quote.direction,
                 bolt11_invoice |-> call[c].invoice,
                 buyer_liquid_address |-> call[c].address,
                 fee_subsidy_sats |-> cfg.fee_subsidy_sats,
                 refund_lock_height |-> call[c].lock,
                 min_funding_confs |-> quote.min_funding_confs,
                 ln_preimage_hex |-> None, claim_txid |-> None, status |-> "Created"]
<1>1. /\ s \in SwapId /\ call[c].quote \in QuoteId /\ quote \in QuoteRecord
      /\ call[c].invoice \in Invoice /\ call[c].address \in BuyerAddress
      /\ call[c].lock \in Nat
  BY DEF CreateInsert, StoreTypeOK, ServiceTypeOK, LocalsInv, CallRecord, OwnPc, CreatePc
<1>2. cfg.fee_subsidy_sats \in Nat
  BY OfferAssumption DEF ServiceTypeOK
<1>3. r \in SwapRecord
  BY <1>1, <1>2 DEF SwapRecord, QuoteRecord, SwapStatus
<1>4. /\ r.quote_id = call[c].quote
      /\ r.direction = quote.direction
      /\ r.bolt11_invoice = call[c].invoice
      /\ r.buyer_liquid_address = call[c].address
      /\ r.fee_subsidy_sats = cfg.fee_subsidy_sats
      /\ r.refund_lock_height = call[c].lock
      /\ r.min_funding_confs = quote.min_funding_confs
      /\ r.ln_preimage_hex = None
      /\ r.claim_txid = None
      /\ r.status = "Created"
  OBVIOUS
<1>5. /\ swaps[s] = None
      /\ swaps' = [swaps EXCEPT ![s] = r]
      /\ UNCHANGED quotes
  BY DEF CreateInsert, insert_swap
<1> HIDE DEF r
<1> QED
  BY <1>1, <1>3, <1>4, <1>5, NoneAssumption DEF StoreTypeOK, Stored, Inserted

\* Which steps change the chain, the payments, the tables, and the two caches a
\* process has of the world: the wallet's tip and its offer.
Writers ==
    /\ \/ UNCHANGED <<tip, height, htlc, spend, payment>>
       \/ /\ \E c \in Call : CreateFund(c) \/ CreateFundError(c)
          /\ UNCHANGED <<tip, height, spend, payment>>
       \/ /\ \/ \E c \in Call : ClaimBroadcast(c) \/ ClaimBroadcastError(c)
             \/ \E s \in SwapId : \/ RefundBroadcast(s) \/ RefundBroadcastError(s)
                                  \/ BuyerSpends(s)
          /\ UNCHANGED <<tip, height, htlc, payment>>
       \/ /\ Lightning \/ \E c \in Call : PaySend(c) \/ PaySendError(c)
          /\ UNCHANGED <<tip, height, htlc, spend>>
       \/ Block /\ UNCHANGED <<htlc, spend, payment>>
    /\ \/ quotes' = quotes /\ swaps' = swaps
       \/ \E q \in QuoteId, d \in Direction, n \in MinConfs : CreateQuote(q, d, n)
       \/ \E c \in Call : \/ CreateInsert(c) \/ CreateLink(c) \/ CreateMarkFunded(c)
                          \/ PayPersist(c) \/ ClaimPersist(c)
       \/ \E s \in SwapId : RefundRecord(s)
    /\ walletTip' \in {walletTip, tip}
    /\ cfg' = cfg \/ CrashRestart

\* No other step of a handler, the worker or the world writes these.
LEMMA WhoWrites ==
  ASSUME Next
  PROVE  Writers
<1> USE DEF Writers
<1>1. ASSUME NEW q \in QuoteId, NEW d \in Direction, NEW n \in MinConfs,
             CreateQuote(q, d, n)
      PROVE  Writers
  BY <1>1 DEF CreateQuote, insert_quote
<1>2. ASSUME NEW c \in Call, NEW q \in QuoteId, NEW a \in BuyerAddress,
             NEW i \in BuyerInvoice \cup {None}, CreateStart(c, q, a, i)
      PROVE  Writers
  BY <1>2 DEF CreateStart
<1>3. ASSUME NEW c \in Call,
             CreateReplay(c) \/ CreateInvoice(c) \/ CreateLock(c) \/ CreatePoll(c)
            \/ CreateCheck(c) \/ CreateGiveUp(c) \/ PayPreimage(c)
            \/ PayGiveUp(c) \/ ClaimLock(c) \/ ClaimGiveUp(c) \/ Deliver(c)
      PROVE  Writers
  BY <1>3 DEF CreateReplay, CreateInvoice, CreateLock, CreatePoll, CreateCheck,
     CreateGiveUp, PayPreimage, PayGiveUp, ClaimLock, ClaimGiveUp, Deliver
<1>4. ASSUME NEW c \in Call, NEW s \in SwapId, CreateValidate(c, s)
      PROVE  Writers
  BY <1>4 DEF CreateValidate
<1>5. ASSUME NEW c \in Call, CreateFund(c) \/ CreateFundError(c)
      PROVE  Writers
  BY <1>5 DEF CreateFund, CreateFundError, BroadcastFunding
<1>6. ASSUME NEW c \in Call,
             CreateInsert(c) \/ CreateLink(c) \/ CreateMarkFunded(c)
            \/ PayPersist(c) \/ ClaimPersist(c)
      PROVE  Writers
  BY <1>6 DEF CreateInsert, CreateLink, CreateMarkFunded, PayPersist, ClaimPersist,
     insert_swap, set_quote_swap_id, update_swap_status, upsert_swap_payment,
     upsert_swap_claim
<1>7. ASSUME NEW c \in Call, NEW s \in SwapId, NEW r \in Role, PayStart(c, s, r)
      PROVE  Writers
  BY <1>7 DEF PayStart
<1>8. ASSUME NEW c \in Call, PaySend(c) \/ PaySendError(c)
      PROVE  Writers
  BY <1>8 DEF PaySend, PaySendError, SetPayment
<1>9. ASSUME NEW c \in Call, NEW s \in SwapId, NEW r \in Role, NEW f \in ClaimFee,
             ClaimStart(c, s, r, f)
      PROVE  Writers
  BY <1>9 DEF ClaimStart
<1>10. ASSUME NEW c \in Call, ClaimBroadcast(c) \/ ClaimBroadcastError(c)
      PROVE  Writers
  BY <1>10 DEF ClaimBroadcast, ClaimBroadcastError, BroadcastSpend
<1>11. ASSUME RefundStart \/ RefundList \/ RefundAbort \/ RefundEnd,
             UNCHANGED <<lnVars, call, cfg, restarts>>
      PROVE  Writers
  BY <1>11 DEF RefundStart, RefundList, RefundAbort, RefundEnd
<1>12. ASSUME NEW s \in SwapId,
             RefundBroadcast(s) \/ RefundBroadcastError(s) \/ RefundRefused(s),
             UNCHANGED <<lnVars, call, cfg, restarts>>
      PROVE  Writers
  BY <1>12 DEF RefundBroadcast, RefundBroadcastError, RefundRefused, BroadcastSpend
<1>13. ASSUME NEW s \in SwapId, RefundRecord(s),
             UNCHANGED <<lnVars, call, cfg, restarts>>
      PROVE  Writers
  BY <1>13 DEF RefundRecord, update_swap_status
<1>14. CASE CrashRestart
  BY <1>14 DEF CrashRestart
<1>15. CASE Lightning
  BY <1>15 DEF Lightning, PaymentSettles, PaymentFails, SetPayment
<1>16. CASE Block
  BY <1>16 DEF Block, Mine
<1>17. ASSUME NEW s \in SwapId, BuyerSpends(s)
      PROVE  Writers
  BY <1>17 DEF BuyerSpends, BroadcastSpend
<1> QED
  BY <1>1, <1>2, <1>3, <1>4, <1>5, <1>6, <1>7, <1>8, <1>9, <1>10, <1>11, <1>12,
     <1>13, <1>14, <1>15, <1>16, <1>17 DEF Next, Service, ServiceNext, CreateNext,
     PayNext, ClaimNext, Refunds, WorkerNext

\* The ways the tables change.
StoreMoves ==
    \/ UNCHANGED <<quotes, swaps>>
    \/ \E q \in QuoteId, d \in Direction, n \in MinConfs : CreateQuote(q, d, n)
    \/ \E c \in Call : CreateInsert(c) /\ Inserted(c)
    \/ \E c \in Call : CreateLink(c)
    \/ \E c \in Call : CreateMarkFunded(c) /\ StatusSet(call[c].swap, "Funded")
    \/ \E c \in Call : PayPersist(c) /\ PreimageSet(call[c].swap, call[c].invoice)
    \/ \E c \in Call : ClaimPersist(c) /\ ClaimSet(call[c].swap, ClaimTxOf(c))
    \/ \E s \in SwapId : RefundRecord(s) /\ StatusSet(s, "Refunded")

\* Each change of the tables is one statement of one handler, or of the worker.
LEMMA StoreStep ==
  ASSUME TypeOK, LocalsInv, Next
  PROVE  StoreMoves
<1>1. ASSUME NEW c \in Call, CreateInsert(c)
      PROVE  Inserted(c)
  BY <1>1, InsertEffect DEF TypeOK
<1>2. ASSUME NEW c \in Call, CreateMarkFunded(c)
      PROVE  StatusSet(call[c].swap, "Funded")
  BY <1>2, StatusEffect
  DEF CreateMarkFunded, TypeOK, ServiceTypeOK, CallRecord, SwapStatus
<1>3. ASSUME NEW c \in Call, PayPersist(c)
      PROVE  PreimageSet(call[c].swap, call[c].invoice)
  BY <1>3, PaymentEffect DEF PayPersist, TypeOK, ServiceTypeOK, CallRecord
<1>4. ASSUME NEW c \in Call, ClaimPersist(c)
      PROVE  ClaimSet(call[c].swap, ClaimTxOf(c))
  <2>1. ClaimTxOf(c) \in SpendTx /\ call[c].swap \in SwapId \cup {None}
    BY DEF ClaimTxOf, ClaimTx, ClaimKey, SpendTx, Key, TypeOK, ServiceTypeOK, CallRecord
  <2> QED
    BY <1>4, <2>1, ClaimEffect DEF ClaimPersist, TypeOK
<1>5. ASSUME NEW s \in SwapId, RefundRecord(s)
      PROVE  StatusSet(s, "Refunded")
  BY <1>5, StatusEffect DEF RefundRecord, TypeOK, SwapStatus
<1> QED
  BY <1>1, <1>2, <1>3, <1>4, <1>5, WhoWrites DEF Writers, StoreMoves

\* A funded HTLC is never funded again: the id is its request's own.
LEMMA LocksAreFinal ==
  ASSUME TypeOK, LocalsInv, FreshInv, Next
  PROVE  \A s \in SwapId : htlc[s] # None => htlc'[s] = htlc[s]
<1>1. ASSUME NEW c \in Call, CreateFund(c) \/ CreateFundError(c)
      PROVE  /\ htlc' = [htlc EXCEPT ![call[c].swap] = FundedSpec(c)]
             /\ htlc[call[c].swap] = None
  BY <1>1 DEF CreateFund, CreateFundError, BroadcastFunding, FreshInv, OwnPc
<1> QED
  BY <1>1, WhoWrites DEF Writers, TypeOK, ChainTypeOK

\* A payment that went through stays so: the node refuses to send it again.
LEMMA PaymentsAreFinal ==
  ASSUME TypeOK, Next
  PROVE  \A i \in Invoice : payment[i] = "succeeded" => payment'[i] = "succeeded"
<1>1. ASSUME NEW c \in Call, PaySend(c) \/ PaySendError(c)
      PROVE  /\ payment' = [payment EXCEPT ![call[c].invoice] = "pending"]
             /\ payment[call[c].invoice] # "succeeded"
  BY <1>1 DEF PaySend, PaySendError, SetPayment, Sendable
<1>2. ASSUME Lightning
      PROVE  \E i \in Invoice, status \in PaymentStatus :
               /\ payment' = [payment EXCEPT ![i] = status]
               /\ payment[i] # "succeeded"
  BY <1>2 DEF Lightning, PaymentSettles, PaymentFails, SetPayment, PaymentStatus
<1> QED
  BY <1>1, <1>2, WhoWrites DEF Writers, TypeOK, LnTypeOK

\* Who may end a swap's HTLC, and when.
SpendStep(s) ==
    \/ spend'[s] = spend[s]
    \/ /\ spend[s] = None
       /\ htlc[s] # None
       /\ spend'[s] \in SpendTx
       /\ \/ \E i \in Invoice :
               /\ ClaimPathValid(s, spend'[s], i)
               /\ \/ \E c \in Call : At(c, "claim_broadcast") /\ call[c].invoice = i
                  \/ PreimageServed(i)
          \/ RefundPathValid(s, spend'[s])

\* An HTLC is spent once, on one of the two branches of its script.
LEMMA SpendsAreFinal ==
  ASSUME TypeOK, Next
  PROVE  \A s \in SwapId : SpendStep(s)
<1> DEFINE Sent(s, tx, i) ==
             /\ tx \in SpendTx
             /\ Accepts(s, tx, i)
             /\ BroadcastSpend(s, tx)
<1>1. ASSUME NEW s \in SwapId, NEW tx, NEW i, Sent(s, tx, i),
             \/ tx.path = "refund"
             \/ \E c \in Call : At(c, "claim_broadcast") /\ call[c].invoice = i
             \/ PreimageServed(i)
      PROVE  \A t \in SwapId : SpendStep(t)
  <2>1. spend' = [spend EXCEPT ![s] = tx] /\ htlc[s] # None
    BY <1>1 DEF BroadcastSpend, Accepts
  <2>2. spend[s] # None => spend[s] = tx
    BY <1>1 DEF Accepts
  <2>3. ClaimPathValid(s, tx, i) => i \in Invoice /\ tx.path # "refund"
    BY <2>1 DEF ClaimPathValid, TypeOK, ChainTypeOK, HtlcSpec
  <2>4. ClaimPathValid(s, tx, i) \/ RefundPathValid(s, tx)
    BY <1>1 DEF Accepts
  <2> QED
    BY <1>1, <2>1, <2>2, <2>3, <2>4 DEF SpendStep, TypeOK, ChainTypeOK
<1>2. ASSUME NEW c \in Call, ClaimBroadcast(c) \/ ClaimBroadcastError(c)
      PROVE  \A t \in SwapId : SpendStep(t)
  <2>1. ClaimTxOf(c) \in SpendTx
    BY DEF ClaimTxOf, ClaimTx, ClaimKey, SpendTx, Key, TypeOK, ServiceTypeOK, CallRecord
  <2>2. Sent(call[c].swap, ClaimTxOf(c), call[c].invoice) /\ At(c, "claim_broadcast")
    BY <1>2, <2>1 DEF ClaimBroadcast, ClaimBroadcastError
  <2>3. CASE call[c].swap \in SwapId
    BY <1>1, <2>2, <2>3
  <2>4. CASE call[c].swap \notin SwapId
    BY <2>2, <2>4 DEF BroadcastSpend, SpendStep, TypeOK, ChainTypeOK
  <2> QED
    BY <2>3, <2>4
<1>3. ASSUME NEW s \in SwapId, RefundBroadcast(s) \/ RefundBroadcastError(s)
      PROVE  \A t \in SwapId : SpendStep(t)
  <2>1. RefundTxOf(s) \in SpendTx /\ RefundTxOf(s).path = "refund"
    BY FeeAssumption DEF RefundTxOf, RefundTx, RefundKey, SpendTx, Key
  <2>2. Sent(s, RefundTxOf(s), None)
    BY <1>3, <2>1 DEF RefundBroadcast, RefundBroadcastError
  <2> QED
    BY <1>1, <2>1, <2>2
<1>4. ASSUME NEW s \in SwapId, BuyerSpends(s)
      PROVE  \A t \in SwapId : SpendStep(t)
  <2>1. /\ ClaimTx(OtherKey, 0) \in SpendTx
        /\ RefundTx(OtherKey, 0) \in SpendTx
        /\ RefundTx(OtherKey, 0).path = "refund"
    BY DEF ClaimTx, RefundTx, SpendTx, Key
  <2>2. \/ \E i \in Invoice : PreimageServed(i) /\ Sent(s, ClaimTx(OtherKey, 0), i)
        \/ Sent(s, RefundTx(OtherKey, 0), None)
    BY <1>4, <2>1 DEF BuyerSpends
  <2> HIDE DEF Sent
  <2> QED
    BY <1>1, <2>1, <2>2
<1> QED
  BY <1>2, <1>3, <1>4, WhoWrites DEF Writers, SpendStep

\* One request in one step: it stays, ends, starts, or goes on.
Ended(c) ==
    /\ call'[c].pc \in {"idle", "replied"}
    /\ call'[c].swap \in Stored \cup {call[c].swap, None}

CreateStarted(c) ==
    /\ At(c, "idle")
    /\ call'[c].pc \in {"create_replay", "create_validate"}
    /\ call'[c].quote \in QuoteId
    /\ quotes[call'[c].quote] # None
    /\ call'[c].address \in BuyerAddress
    /\ call'[c].swap = quotes[call'[c].quote].swap_id
    /\ IF call'[c].pc = "create_validate" THEN call'[c].swap = None
                                          ELSE call'[c].swap \in SwapId

\* The locals a request keeps, with the invoice, which CreateInvoice sets, and
\* the refund height, which CreateLock sets, apart.
Kept(c) ==
    /\ call'[c].quote = call[c].quote
    /\ call'[c].swap = call[c].swap
    /\ call'[c].address = call[c].address
    /\ call'[c].fee = call[c].fee
SameLocals(c) ==
    /\ Kept(c)
    /\ call'[c].invoice = call[c].invoice
    /\ call'[c].lock = call[c].lock
GoesOn(c, from, to) == At(c, from) /\ call'[c].pc = to /\ SameLocals(c)

\* create_swap has drawn an id, against the offer that was quoted.
Named(c) ==
    /\ At(c, "create_validate")
    /\ call'[c].pc \in {"create_invoice", "create_lock"}
    /\ call'[c].swap \in SwapId
    /\ FreshId(call'[c].swap)
    /\ call'[c].quote = call[c].quote
    /\ call'[c].address = call[c].address
    /\ call'[c].invoice = call[c].invoice
    /\ quotes[call[c].quote].offer_id = cfg
    /\ call'[c].pc = "create_lock" => call[c].invoice # None

\* The ways a request moves.
Move(c) ==
    \/ call'[c] = call[c]
    \/ Ended(c)
    \/ CreateStarted(c)
    \/ Named(c)
    \/ /\ At(c, "create_invoice")
       /\ call'[c].pc = "create_lock"
       /\ Kept(c)
       /\ call'[c].invoice = call[c].swap
    \/ /\ At(c, "create_lock")
       /\ call'[c].pc = "create_fund"
       /\ Kept(c)
       /\ call'[c].invoice = call[c].invoice
    \/ CreateFund(c) /\ GoesOn(c, "create_fund", "create_insert")
    \/ CreateInsert(c) /\ GoesOn(c, "create_insert", "create_link")
    \/ CreateLink(c) /\ GoesOn(c, "create_link", "create_wait")
    \/ GoesOn(c, "create_wait", "create_check")
    \/ GoesOn(c, "create_check", "create_wait")
    \/ CreateCheck(c) /\ GoesOn(c, "create_check", "create_confirmed")
    \/ PayStarted(c)
    \/ GoesOn(c, "pay_send", "pay_wait")
    \/ GoesOn(c, "pay_wait", "pay_persist") /\ payment[call[c].invoice] = "succeeded"
    \/ ClaimStarted(c)
    \/ GoesOn(c, "claim_lock", "claim_broadcast")
    \/ ClaimBroadcast(c) /\ GoesOn(c, "claim_broadcast", "claim_persist")

\* A handler that goes on keeps its locals and the other requests.
LEMMA GotoEffect ==
  ASSUME CallType, NEW c \in Call, NEW pc, Goto(c, pc)
  PROVE  /\ call'[c].pc = pc
         /\ SameLocals(c)
         /\ \A d \in Call : d # c => call'[d] = call[d]
BY DEF CallType, CallRecord, SameLocals, Kept

\* What one step of the whole server does to any one request: the order in which
\* the handlers go through their awaits, and what the locals are at each.
LEMMA RequestMoves ==
  ASSUME TypeOK, Next
  PROVE  \A x \in Call : Move(x)
<1> USE NoneAssumption
<1>a. CallType /\ StoreTypeOK
  BY DEF TypeOK, ServiceTypeOK, CallType
<1>1. ASSUME NEW q \in QuoteId, NEW d \in Direction, NEW n \in MinConfs,
             CreateQuote(q, d, n)
      PROVE  \A x \in Call : Move(x)
  BY <1>1, <1>a DEF CreateQuote, Move
<1>2. ASSUME NEW c \in Call, NEW q \in QuoteId, NEW a \in BuyerAddress,
             NEW i \in BuyerInvoice \cup {None}, CreateStart(c, q, a, i)
      PROVE  \A x \in Call : Move(x)
  BY <1>2, <1>a DEF CreateStart, CallType, CallRecord, IdleCall, Move, Ended,
     CreateStarted, StoreTypeOK, QuoteRecord, CreatePc
<1>3. ASSUME NEW c \in Call, CreateReplay(c)
      PROVE  \A x \in Call : Move(x)
  BY <1>3, <1>a, ReplyEffect DEF CreateReplay, Move, Ended, CallType, CallRecord,
     IdleCall
<1>4. ASSUME NEW c \in Call, NEW s \in SwapId, CreateValidate(c, s)
      PROVE  \A x \in Call : Move(x)
  BY <1>4, <1>a DEF CreateValidate, CallType, CallRecord, IdleCall, Move, Ended,
     Named, FreshId, CreatePc
<1>5. ASSUME NEW c \in Call, CreateInvoice(c)
      PROVE  \A x \in Call : Move(x)
  BY <1>5, <1>a DEF CreateInvoice, CallType, CallRecord, IdleCall, Move, Ended,
     Kept, CreatePc
<1>6. ASSUME NEW c \in Call, CreateLock(c)
      PROVE  \A x \in Call : Move(x)
  BY <1>6, <1>a DEF CreateLock, CallType, CallRecord, IdleCall, Move, Ended, GoesOn,
     SameLocals, Kept, CreatePc
<1>7. ASSUME NEW c \in Call, CreateFund(c)
      PROVE  \A x \in Call : Move(x)
  BY <1>7, <1>a, GotoEffect DEF CreateFund, Move, GoesOn
<1>8. ASSUME NEW c \in Call,
             CreateGiveUp(c) \/ PayGiveUp(c) \/ ClaimGiveUp(c) \/ Deliver(c)
            \/ CreateFundError(c) \/ ClaimBroadcastError(c) \/ PaySendError(c)
      PROVE  \A x \in Call : Move(x)
  BY <1>8, <1>a DEF CreateGiveUp, PayGiveUp, ClaimGiveUp, Deliver, CreateFundError,
     ClaimBroadcastError, PaySendError, CallType, CallRecord, IdleCall, Move, Ended,
     CreatePc, PayPc, ClaimPc
<1>9. ASSUME NEW c \in Call, CreateInsert(c)
      PROVE  \A x \in Call : Move(x)
  <2>1. Goto(c, "create_link") /\ At(c, "create_insert")
    BY <1>9 DEF CreateInsert
  <2>2. GoesOn(c, "create_insert", "create_link") /\ \A d \in Call : d # c => Move(d)
    BY <1>a, <2>1, GotoEffect DEF GoesOn, Move
  <2> QED
    BY <1>9, <2>2 DEF Move
<1>10. ASSUME NEW c \in Call, CreateLink(c)
      PROVE  \A x \in Call : Move(x)
  <2>1. Goto(c, "create_wait") /\ At(c, "create_link")
    BY <1>10 DEF CreateLink
  <2>2. GoesOn(c, "create_link", "create_wait") /\ \A d \in Call : d # c => Move(d)
    BY <1>a, <2>1, GotoEffect DEF GoesOn, Move
  <2> QED
    BY <1>10, <2>2 DEF Move
<1>11. ASSUME NEW c \in Call, CreatePoll(c) \/ CreateCheck(c)
      PROVE  \A x \in Call : Move(x)
  BY <1>11, <1>a DEF CreatePoll, CreateCheck, CallType, CallRecord, IdleCall, Move,
     Ended, GoesOn, SameLocals, Kept, CreatePc
<1>12. ASSUME NEW c \in Call,
             CreateMarkFunded(c) \/ PayPersist(c) \/ ClaimPersist(c)
      PROVE  \A x \in Call : Move(x)
  BY <1>12, <1>a, ReplyEffect DEF CreateMarkFunded, PayPersist, ClaimPersist, Move,
     Ended
<1>13. ASSUME NEW c \in Call, NEW s \in SwapId, NEW r \in Role,
             PayStart(c, s, r)
      PROVE  \A x \in Call : Move(x)
  BY <1>13, <1>a, PayStartEffect DEF Move, Ended, OnlySlot
<1>14. ASSUME NEW c \in Call, PaySend(c) \/ PayPreimage(c)
      PROVE  \A x \in Call : Move(x)
  BY <1>14, <1>a DEF PaySend, PayPreimage, CallType, CallRecord, IdleCall, Move,
     Ended, GoesOn, SameLocals, Kept, PayPc
<1>15. ASSUME NEW c \in Call, NEW s \in SwapId, NEW r \in Role, NEW f \in ClaimFee,
             ClaimStart(c, s, r, f)
      PROVE  \A x \in Call : Move(x)
  BY <1>15, <1>a, ClaimStartEffect DEF Move, Ended, OnlySlot
<1>16. ASSUME NEW c \in Call, ClaimLock(c) \/ ClaimBroadcast(c)
      PROVE  \A x \in Call : Move(x)
  BY <1>16, <1>a DEF ClaimLock, ClaimBroadcast, CallType, CallRecord, IdleCall,
     Move, Ended, GoesOn, SameLocals, Kept, ClaimPc
<1>17. ASSUME RefundStart \/ RefundList \/ RefundAbort \/ RefundEnd,
             UNCHANGED <<lnVars, call, cfg, restarts>>
      PROVE  \A x \in Call : Move(x)
  BY <1>17, <1>a DEF RefundStart, RefundList, RefundAbort, RefundEnd, Move
<1>18. ASSUME NEW s \in SwapId,
             RefundBroadcast(s) \/ RefundRefused(s) \/ RefundBroadcastError(s)
            \/ RefundRecord(s), UNCHANGED <<lnVars, call, cfg, restarts>>
      PROVE  \A x \in Call : Move(x)
  BY <1>18, <1>a DEF RefundBroadcast, RefundRefused, RefundBroadcastError,
     RefundRecord, Move
<1>19. CASE CrashRestart
  BY <1>19, <1>a DEF CrashRestart, CallType, CallRecord, IdleCall, Move, Ended
<1>20. CASE Lightning
  BY <1>20, <1>a DEF Lightning, Move
<1>21. CASE Block
  BY <1>21, <1>a DEF Block, Move
<1>22. ASSUME NEW s \in SwapId, BuyerSpends(s)
      PROVE  \A x \in Call : Move(x)
  BY <1>22, <1>a DEF BuyerSpends, Move
<1> QED
  BY <1>1, <1>2, <1>3, <1>4, <1>5, <1>6, <1>7, <1>8, <1>9, <1>10, <1>11, <1>12,
     <1>13, <1>14, <1>15, <1>16, <1>17, <1>18, <1>19, <1>20, <1>21, <1>22 DEF Next,
     Service, ServiceNext, CreateNext, PayNext, ClaimNext, Refunds, WorkerNext

\* A quote stays, with its terms.
LEMMA QuotesAreFinal ==
  ASSUME TypeOK, LocalsInv, Next
  PROVE  \A q \in QuoteId :
           quotes[q] # None =>
             /\ quotes'[q] # None
             /\ quotes'[q].direction = quotes[q].direction
             /\ quotes'[q].min_funding_confs = quotes[q].min_funding_confs
             /\ quotes'[q].offer_id = quotes[q].offer_id
<1>1. ASSUME NEW q \in QuoteId, NEW d \in Direction, NEW n \in MinConfs,
             CreateQuote(q, d, n)
      PROVE  \A p \in QuoteId : quotes[p] # None => quotes'[p] = quotes[p]
  BY <1>1 DEF CreateQuote, insert_quote, TypeOK, StoreTypeOK
<1>2. ASSUME NEW c \in Call, CreateLink(c)
      PROVE  \A q \in QuoteId :
               quotes[q] # None =>
                 /\ quotes'[q] # None
                 /\ quotes'[q].direction = quotes[q].direction
                 /\ quotes'[q].min_funding_confs = quotes[q].min_funding_confs
                 /\ quotes'[q].offer_id = quotes[q].offer_id
  <2>1. quotes' = [quotes EXCEPT ![call[c].quote].swap_id = call[c].swap]
    BY <1>2 DEF CreateLink, set_quote_swap_id
  <2>2. call[c].swap \in SwapId
    BY <1>2 DEF CreateLink, LocalsInv, CreatePc
  <2> QED
    BY <2>1, <2>2, NoneAssumption DEF TypeOK, StoreTypeOK, QuoteRecord
<1> QED
  BY <1>1, <1>2, StoreStep
  DEF StoreMoves, Inserted, StatusSet, PreimageSet, ClaimSet, Updated
=============================================================================
