--------------------------- MODULE SwapStepProofs ---------------------------
(***************************************************************************)
(* Each part of the inductive invariant is kept by every step.             *)
(***************************************************************************)
EXTENDS SwapTypeProofs

USE DEF At, Goto, Start, Fail, Lock, Unlock, sync, LockAndSync,
        chainVars, lnVars, storeVars, walletVars

\* FreshInv: create_swap draws an id that nothing names, so that no second request
\* funds or inserts under it.
LEMMA FreshStep ==
  ASSUME TypeOK, LocalsInv, FreshInv, RowsAreBacked, Next
  PROVE  FreshInv'
<1> USE NoneAssumption DEF LocalsInv, FreshInv, FundedSpec, HtlcSpecFor, Stored,
        OwnPc, WaitPc, CreatePc, PayPc, ClaimPc, TypeOK, StoreTypeOK, ServiceTypeOK,
        ChainTypeOK
<1>1. ASSUME NEW q \in QuoteId, NEW d \in Direction, NEW n \in MinConfs,
             CreateQuote(q, d, n)
      PROVE  FreshInv'
  BY <1>1 DEF CreateQuote, insert_quote
<1>2. ASSUME NEW c \in Call, NEW q \in QuoteId, NEW a \in BuyerAddress,
             NEW i \in BuyerInvoice \cup {None}, CreateStart(c, q, a, i)
      PROVE  FreshInv'
  BY <1>2 DEF CreateStart, CallRecord, IdleCall, RowsAreBacked
<1>3. ASSUME NEW c \in Call, CreateReplay(c)
      PROVE  FreshInv'
  BY <1>3, ReplyEffect, SMTT(30) DEF CreateReplay, CallType, CallRecord, IdleCall
<1>4. ASSUME NEW c \in Call, NEW s \in SwapId, CreateValidate(c, s)
      PROVE  FreshInv'
  BY <1>4 DEF CreateValidate, CallRecord, IdleCall, FreshId
<1>5. ASSUME NEW c \in Call, CreateInvoice(c)
      PROVE  FreshInv'
  BY <1>5 DEF CreateInvoice, CallRecord, IdleCall
<1>6. ASSUME NEW c \in Call, CreateLock(c)
      PROVE  FreshInv'
  BY <1>6 DEF CreateLock, CallRecord, IdleCall
<1>7. ASSUME NEW c \in Call, CreateFund(c)
      PROVE  FreshInv'
  BY <1>7 DEF CreateFund, BroadcastFunding, CallRecord, IdleCall
<1>8. ASSUME NEW c \in Call, CreateFundError(c)
      PROVE  FreshInv'
  BY <1>8 DEF CreateFundError, BroadcastFunding, CallRecord, IdleCall
<1>9. ASSUME NEW c \in Call, CreateInsert(c)
      PROVE  FreshInv'
  BY <1>9 DEF CreateInsert, insert_swap, CallRecord, IdleCall
<1>10. ASSUME NEW c \in Call, CreateLink(c)
      PROVE  FreshInv'
  BY <1>10 DEF CreateLink, set_quote_swap_id, CallRecord, IdleCall
<1>11. ASSUME NEW c \in Call, CreatePoll(c) \/ CreateCheck(c)
      PROVE  FreshInv'
  BY <1>11, SMTT(30) DEF CreatePoll, CreateCheck, CallRecord, IdleCall
<1>12. ASSUME NEW c \in Call, CreateMarkFunded(c)
      PROVE  FreshInv'
  BY <1>12, ReplyEffect DEF CreateMarkFunded, update_swap_status, CallType
<1>13. ASSUME NEW c \in Call,
             CreateGiveUp(c) \/ PayGiveUp(c) \/ ClaimGiveUp(c) \/ Deliver(c)
            \/ ClaimBroadcastError(c) \/ PaySendError(c)
      PROVE  FreshInv'
  BY <1>13 DEF CreateGiveUp, PayGiveUp, ClaimGiveUp, Deliver, ClaimBroadcastError,
     PaySendError, CallRecord, IdleCall, BroadcastSpend, SetPayment
<1>14. ASSUME NEW c \in Call, NEW s \in SwapId, NEW r \in Role,
             PayStart(c, s, r)
      PROVE  FreshInv'
  <2>1. /\ OnlySlot(c)
        /\ PayStarted(c) \/ (call'[c].pc = "replied" /\ call'[c].swap \in Stored)
    BY <1>14, PayStartEffect DEF CallType, TypeOK, ServiceTypeOK
  <2> QED
    BY <1>14, <2>1 DEF OnlySlot, PayStarted
<1>15. ASSUME NEW c \in Call,
            PaySend(c) \/ PayPreimage(c) \/ ClaimLock(c) \/ ClaimBroadcast(c)
      PROVE  FreshInv'
  BY <1>15 DEF PaySend, PayPreimage, ClaimLock, ClaimBroadcast, SetPayment,
     CallRecord, IdleCall, BroadcastSpend
<1>16. ASSUME NEW c \in Call, PayPersist(c)
      PROVE  FreshInv'
  BY <1>16, ReplyEffect DEF PayPersist, upsert_swap_payment, CallType
<1>17. ASSUME NEW c \in Call, NEW s \in SwapId, NEW r \in Role, NEW f \in ClaimFee,
             ClaimStart(c, s, r, f)
      PROVE  FreshInv'
  <2>1. /\ OnlySlot(c)
        /\ ClaimStarted(c) \/ (call'[c].pc = "replied" /\ call'[c].swap \in Stored)
    BY <1>17, ClaimStartEffect DEF CallType, TypeOK, ServiceTypeOK
  <2> QED
    BY <1>17, <2>1 DEF OnlySlot, ClaimStarted
<1>18. ASSUME NEW c \in Call, ClaimPersist(c)
      PROVE  FreshInv'
  BY <1>18, ReplyEffect DEF ClaimPersist, upsert_swap_claim, CallType
<1>19. ASSUME RefundStart \/ RefundList \/ RefundAbort \/ RefundEnd,
             UNCHANGED <<lnVars, call, cfg, restarts>>
      PROVE  FreshInv'
  BY <1>19 DEF RefundStart, RefundList, RefundAbort, RefundEnd
<1>20. ASSUME NEW s \in SwapId,
             RefundBroadcast(s) \/ RefundRefused(s) \/ RefundBroadcastError(s),
             UNCHANGED <<lnVars, call, cfg, restarts>>
      PROVE  FreshInv'
  BY <1>20 DEF RefundBroadcast, RefundRefused, RefundBroadcastError, BroadcastSpend
<1>21. ASSUME NEW s \in SwapId, RefundRecord(s),
             UNCHANGED <<lnVars, call, cfg, restarts>>
      PROVE  FreshInv'
  BY <1>21 DEF RefundRecord, update_swap_status
<1>22. CASE CrashRestart
  BY <1>22 DEF CrashRestart, CallRecord, IdleCall
<1>23. CASE Lightning
  BY <1>23 DEF Lightning, PaymentSettles, PaymentFails, SetPayment
<1>24. CASE Block
  BY <1>24 DEF Block, Mine
<1>25. ASSUME NEW s \in SwapId, BuyerSpends(s)
      PROVE  FreshInv'
  BY <1>25 DEF BuyerSpends, BroadcastSpend
<1> QED
  BY <1>1, <1>2, <1>3, <1>4, <1>5, <1>6, <1>7, <1>8, <1>9, <1>10, <1>11, <1>12,
     <1>13, <1>14, <1>15, <1>16, <1>17, <1>18, <1>19, <1>20, <1>21, <1>22, <1>23,
     <1>24, <1>25 DEF Next, Service, ServiceNext, CreateNext, PayNext, ClaimNext,
     Refunds, WorkerNext

\* PreimageIsProof: only PayPersist writes a preimage, with the node's answer.
LEMMA PreimageStep ==
  ASSUME TypeOK, LocalsInv, PaymentInv, PreimageIsProof, Next
  PROVE  PreimageIsProof'
<1>1. \A i \in Invoice : payment[i] = "succeeded" => payment'[i] = "succeeded"
  BY PaymentsAreFinal
<1>2. \A s \in Stored : swaps[s].bolt11_invoice \in Invoice
  BY DEF TypeOK, StoreTypeOK, Stored, SwapRecord
<1>3. StoreMoves
  BY StoreStep
<1>4. CASE UNCHANGED <<quotes, swaps>>
  BY <1>1, <1>2, <1>4 DEF PreimageIsProof, Stored
<1>5. ASSUME NEW q \in QuoteId, NEW d \in Direction, NEW n \in MinConfs,
             CreateQuote(q, d, n)
      PROVE  PreimageIsProof'
  BY <1>1, <1>2, <1>5 DEF CreateQuote, insert_quote, PreimageIsProof, Stored
<1>6. ASSUME NEW c \in Call, Inserted(c)
      PROVE  PreimageIsProof'
  BY <1>1, <1>2, <1>6 DEF Inserted, PreimageIsProof
<1>7. ASSUME NEW c \in Call, CreateLink(c)
      PROVE  PreimageIsProof'
  BY <1>1, <1>2, <1>7 DEF CreateLink, set_quote_swap_id, PreimageIsProof, Stored
<1>8. ASSUME NEW s \in SwapId, StatusSet(s, "Funded") \/ StatusSet(s, "Refunded")
      PROVE  PreimageIsProof'
  BY <1>1, <1>2, <1>8 DEF StatusSet, Updated, SameTerms, PreimageIsProof
<1>9. ASSUME NEW c \in Call, PayPersist(c), PreimageSet(call[c].swap, call[c].invoice)
      PROVE  PreimageIsProof'
  <2>1. /\ call[c].swap \in Stored
        /\ call[c].invoice = swaps[call[c].swap].bolt11_invoice
        /\ payment[call[c].invoice] = "succeeded"
    BY <1>9 DEF PayPersist, PaymentInv, PayPc
  <2>2. call[c].invoice \in Invoice /\ call[c].invoice # None
    BY <1>2, <2>1, NoneAssumption DEF Invoice
  <2> QED
    BY <1>1, <1>2, <1>9, <2>1, <2>2
    DEF PreimageSet, Updated, SameTerms, PreimageIsProof
<1>10. ASSUME NEW c \in Call, ClaimPersist(c), ClaimSet(call[c].swap, ClaimTxOf(c))
       PROVE  PreimageIsProof'
  <2>1. swaps[call[c].swap].ln_preimage_hex # None
    BY <1>10 DEF ClaimPersist, PaymentInv, ClaimPc
  <2> QED
    BY <1>1, <1>2, <1>10, <2>1 DEF ClaimSet, Updated, SameTerms, PreimageIsProof
<1> QED
  BY <1>3, <1>4, <1>5, <1>6, <1>7, <1>8, <1>9, <1>10
  DEF StoreMoves, StatusSet, Updated, Stored

\* A script always has its two parties; None is not a script.
LEMMA SpecType ==
  ASSUME NEW direction, NEW i \in Invoice, NEW a \in BuyerAddress, NEW lock \in Nat
  PROVE  /\ HtlcSpecFor(direction, i, a, lock) \in HtlcSpec
         /\ HtlcSpecFor(direction, i, a, lock) # None
<1>1. HtlcSpecFor(direction, i, a, lock) \in HtlcSpec
  BY AddressAssumption DEF HtlcSpecFor, HtlcSpec, Key
<1> QED
  BY <1>1, NoneAssumption

\* RowsAreBacked: rows keep their terms and their HTLC; a new row has the HTLC
\* its request funded; a new link goes to the row that names the quote.
LEMMA RowsStep ==
  ASSUME TypeOK, LocalsInv, FreshInv, LinkInv, RowsAreBacked, Next
  PROVE  RowsAreBacked'
<1> DEFINE Backed(s) ==
             htlc[s] = HtlcSpecFor(swaps[s].direction, swaps[s].bolt11_invoice,
                                   swaps[s].buyer_liquid_address,
                                   swaps[s].refund_lock_height)
           Linked(q) ==
             (quotes[q] # None /\ quotes[q].swap_id # None)
                => quotes[q].swap_id \in Stored /\ swaps[quotes[q].swap_id].quote_id = q
<1>1. \A s \in Stored : s \in SwapId /\ Backed(s) /\ htlc'[s] = htlc[s]
  <2>1. \A s \in Stored : s \in SwapId /\ Backed(s)
    BY DEF RowsAreBacked, Stored
  <2>2. \A s \in Stored : htlc[s] # None
    BY <2>1, SpecType DEF TypeOK, StoreTypeOK, Stored, SwapRecord
  <2>3. \A s \in SwapId : htlc[s] # None => htlc'[s] = htlc[s]
    BY LocksAreFinal
  <2> QED
    BY <2>1, <2>2, <2>3
<1>2. \A q \in QuoteId : Linked(q)
  BY DEF RowsAreBacked
<1>3. (\A s \in Stored' : Backed(s)') /\ (\A q \in QuoteId : Linked(q)') => RowsAreBacked'
  BY DEF RowsAreBacked
<1>4. CASE UNCHANGED <<quotes, swaps>>
  BY <1>1, <1>2, <1>3, <1>4 DEF Stored
<1>5. ASSUME NEW q \in QuoteId, NEW d \in Direction, NEW n \in MinConfs,
             CreateQuote(q, d, n)
      PROVE  RowsAreBacked'
  BY <1>1, <1>2, <1>3, <1>5 DEF CreateQuote, insert_quote, Stored, TypeOK, StoreTypeOK
<1>6. ASSUME NEW c \in Call, CreateInsert(c), Inserted(c)
      PROVE  RowsAreBacked'
  <2>1. ASSUME NEW s \in SwapId, s = call[c].swap
        PROVE  Backed(s)'
    <3>1. htlc[call[c].swap] = FundedSpec(c)
      BY <1>6 DEF CreateInsert, FreshInv, OwnPc
    <3>2. htlc' = htlc
      BY <1>6 DEF CreateInsert
    <3> QED
      BY <1>6, <2>1, <3>1, <3>2 DEF Inserted, FundedSpec
  <2>2. \A s \in Stored' : Backed(s)'
    BY <1>1, <1>6, <2>1 DEF Inserted
  <2>3. \A q \in QuoteId : Linked(q)'
    BY <1>2, <1>6 DEF Inserted
  <2> QED
    BY <1>3, <2>2, <2>3
<1>7. ASSUME NEW c \in Call, CreateLink(c)
      PROVE  RowsAreBacked'
  <2>1. call[c].swap \in Stored /\ swaps[call[c].swap].quote_id = call[c].quote
    BY <1>7 DEF CreateLink, LinkInv, WaitPc
  <2>2. /\ quotes' = [quotes EXCEPT ![call[c].quote].swap_id = call[c].swap]
        /\ swaps' = swaps
    BY <1>7 DEF CreateLink, set_quote_swap_id
  <2>3. \A q \in QuoteId : quotes[q] # None => quotes[q] \in QuoteRecord
    BY DEF TypeOK, StoreTypeOK
  <2>4. \A q \in QuoteId : Linked(q)'
    BY <1>2, <2>1, <2>2, <2>3 DEF TypeOK, StoreTypeOK, QuoteRecord, Stored
  <2> QED
    BY <1>1, <1>3, <2>2, <2>4 DEF Stored
<1>8. ASSUME NEW s \in SwapId, Updated(s)
      PROVE  RowsAreBacked'
  BY <1>1, <1>2, <1>3, <1>8 DEF Updated, SameTerms
<1>9. \A c \in Call : \A t \in Stored : t = call[c].swap => call[c].swap \in SwapId
  BY DEF Stored
<1> QED
  BY <1>4, <1>5, <1>6, <1>7, <1>8, <1>9, StoreStep
  DEF StoreMoves, StatusSet, PreimageSet, ClaimSet, Updated

\* QuotedTermsHonoured: a row is made while the offer is still the quote's, and
\* neither the row's terms nor the quote's change later.
LEMMA TermsStep ==
  ASSUME TypeOK, LocalsInv, QuotedTermsHonoured, Next
  PROVE  QuotedTermsHonoured'
<1> DEFINE Honoured(s) ==
             LET quote == quotes[swaps[s].quote_id] IN
             /\ quote # None
             /\ swaps[s].fee_subsidy_sats = quote.offer_id.fee_subsidy_sats
             /\ swaps[s].direction = quote.direction
<1>1. \A s \in Stored : s \in SwapId /\ swaps[s].quote_id \in QuoteId /\ Honoured(s)
  BY DEF QuotedTermsHonoured, Stored, TypeOK, StoreTypeOK, SwapRecord
<1>2. (\A s \in Stored' : Honoured(s)') => QuotedTermsHonoured'
  BY DEF QuotedTermsHonoured
<1>3. CASE UNCHANGED <<quotes, swaps>>
  BY <1>1, <1>2, <1>3 DEF Stored
<1>4. ASSUME NEW q \in QuoteId, NEW d \in Direction, NEW n \in MinConfs,
             CreateQuote(q, d, n)
      PROVE  QuotedTermsHonoured'
  BY <1>1, <1>2, <1>4 DEF CreateQuote, insert_quote, Stored, TypeOK, StoreTypeOK
<1>5. ASSUME NEW c \in Call, CreateInsert(c), Inserted(c)
      PROVE  QuotedTermsHonoured'
  <2>1. /\ quotes[call[c].quote] # None
        /\ quotes[call[c].quote].offer_id = cfg
    BY <1>5 DEF CreateInsert, LocalsInv, OwnPc, CreatePc
  <2> QED
    BY <1>1, <1>2, <1>5, <2>1 DEF Inserted
<1>6. ASSUME NEW c \in Call, CreateLink(c)
      PROVE  QuotedTermsHonoured'
  <2>1. /\ quotes' = [quotes EXCEPT ![call[c].quote].swap_id = call[c].swap]
        /\ swaps' = swaps
    BY <1>6 DEF CreateLink, set_quote_swap_id
  <2>2. call[c].swap \in SwapId
    BY <1>6 DEF CreateLink, LocalsInv, CreatePc
  <2>3. \A q \in QuoteId : quotes[q] # None =>
           /\ quotes'[q] # None
           /\ quotes'[q].offer_id = quotes[q].offer_id
           /\ quotes'[q].direction = quotes[q].direction
    BY <2>1, <2>2, NoneAssumption DEF TypeOK, StoreTypeOK, QuoteRecord
  <2> QED
    BY <1>1, <1>2, <2>1, <2>3 DEF Stored
<1>7. ASSUME NEW s \in SwapId, Updated(s)
      PROVE  QuotedTermsHonoured'
  BY <1>1, <1>2, <1>7 DEF Updated, SameTerms
<1>8. \A c \in Call : \A t \in Stored : t = call[c].swap => call[c].swap \in SwapId
  BY DEF Stored
<1> QED
  BY <1>3, <1>4, <1>5, <1>6, <1>7, <1>8, StoreStep
  DEF StoreMoves, StatusSet, PreimageSet, ClaimSet, Updated

\* A row stays, keeps its terms, and keeps a preimage once it has one.
LEMMA RowsAreFinal ==
  ASSUME TypeOK, LocalsInv, PaymentInv, Next
  PROVE  \A s \in Stored :
           /\ s \in Stored'
           /\ SameTerms(s)
           /\ swaps[s].ln_preimage_hex # None => swaps'[s].ln_preimage_hex # None
<1> DEFINE Stays(s) ==
             /\ s \in Stored'
             /\ SameTerms(s)
             /\ swaps[s].ln_preimage_hex # None => swaps'[s].ln_preimage_hex # None
<1>1. CASE UNCHANGED swaps
  BY <1>1 DEF Stored, SameTerms
<1>2. ASSUME NEW c \in Call, Inserted(c)
      PROVE  \A s \in Stored : Stays(s)
  BY <1>2 DEF Inserted, SameTerms
<1>3. ASSUME NEW s \in SwapId, NEW status, StatusSet(s, status)
      PROVE  \A t \in Stored : Stays(t)
  BY <1>3 DEF StatusSet, Updated, SameTerms
<1>4. ASSUME NEW c \in Call, PayPersist(c), PreimageSet(call[c].swap, call[c].invoice)
      PROVE  \A s \in Stored : Stays(s)
  <2>1. call[c].invoice # None
    BY <1>4, NoneAssumption DEF PayPersist, PaymentInv, PayPc, TypeOK, StoreTypeOK, Stored,
       SwapRecord, Invoice
  <2> QED
    BY <1>4, <2>1 DEF PreimageSet, Updated, SameTerms
<1>5. ASSUME NEW c \in Call, ClaimSet(call[c].swap, ClaimTxOf(c))
      PROVE  \A s \in Stored : Stays(s)
  BY <1>5 DEF ClaimSet, Updated, SameTerms
<1>6. \A c \in Call : \A status :
        StatusSet(call[c].swap, status) => call[c].swap \in SwapId
  BY DEF StatusSet, Updated, Stored
<1> QED
  BY <1>1, <1>2, <1>3, <1>4, <1>5, <1>6, StoreStep
  DEF StoreMoves, CreateQuote, insert_quote, CreateLink, set_quote_swap_id

\* LinkInv: the row a request waits for is the one it inserted.
LEMMA LinkStep ==
  ASSUME TypeOK, LocalsInv, PaymentInv, LinkInv, Next
  PROVE  LinkInv'
<1> DEFINE Link(c) ==
             call[c].pc \in WaitPc =>
               /\ call[c].swap \in Stored
               /\ swaps[call[c].swap].quote_id = call[c].quote
<1>1. \A s \in Stored : s \in Stored' /\ swaps'[s].quote_id = swaps[s].quote_id
  BY RowsAreFinal DEF SameTerms
<1> SUFFICES ASSUME NEW c \in Call
             PROVE  Link(c)'
  BY DEF LinkInv
<1>2. Link(c)
  BY DEF LinkInv
<1>3. CASE call'[c] = call[c]
  BY <1>1, <1>2, <1>3
<1>4. CASE call'[c].pc \notin WaitPc
  BY <1>4
<1>5. CASE CreateInsert(c) /\ GoesOn(c, "create_insert", "create_link")
  <2>1. Inserted(c)
    BY <1>5, InsertEffect DEF TypeOK
  <2> QED
    BY <1>5, <2>1 DEF Inserted, GoesOn, SameLocals, Kept
<1>6. CASE call[c].pc \in WaitPc /\ SameLocals(c)
  BY <1>1, <1>2, <1>6 DEF SameLocals, Kept
<1> QED
  BY <1>3, <1>4, <1>5, <1>6, RequestMoves
  DEF Move, Ended, CreateStarted, Named, GoesOn, PayStarted, ClaimStarted, WaitPc

\* PaymentInv: rows and payments are final, and a handler reads them first.
LEMMA PaymentStep ==
  ASSUME TypeOK, LocalsInv, PreimageIsProof, PaymentInv, Next
  PROVE  PaymentInv'
<1> DEFINE Paying(c) ==
             /\ call[c].pc \in PayPc \cup ClaimPc =>
                   /\ call[c].swap \in Stored
                   /\ call[c].invoice = swaps[call[c].swap].bolt11_invoice
             /\ (call[c].pc \in ClaimPc \/ At(c, "pay_persist"))
                   => payment[call[c].invoice] = "succeeded"
             /\ call[c].pc \in ClaimPc => swaps[call[c].swap].ln_preimage_hex # None
<1>1. \A s \in Stored :
        /\ s \in Stored'
        /\ swaps'[s].bolt11_invoice = swaps[s].bolt11_invoice
        /\ swaps[s].ln_preimage_hex # None => swaps'[s].ln_preimage_hex # None
        /\ swaps[s].bolt11_invoice \in Invoice
  BY RowsAreFinal DEF SameTerms, TypeOK, StoreTypeOK, Stored, SwapRecord
<1>2. \A i \in Invoice : payment[i] = "succeeded" => payment'[i] = "succeeded"
  BY PaymentsAreFinal
<1> SUFFICES ASSUME NEW c \in Call
             PROVE  Paying(c)'
  BY DEF PaymentInv
<1>3. Paying(c)
  BY DEF PaymentInv
<1> USE DEF PayPc, ClaimPc
<1>4. CASE call'[c] = call[c]
  BY <1>1, <1>2, <1>3, <1>4
<1>5. CASE call'[c].pc \notin PayPc \cup ClaimPc
  BY <1>5
<1>6. CASE PayStarted(c)
  BY <1>1, <1>6 DEF PayStarted
<1>7. CASE ClaimStarted(c)
  BY <1>1, <1>2, <1>7 DEF ClaimStarted, PreimageIsProof
<1>8. CASE GoesOn(c, "pay_send", "pay_wait")
  BY <1>1, <1>3, <1>8 DEF GoesOn, SameLocals, Kept
<1>9. CASE GoesOn(c, "pay_wait", "pay_persist") /\ payment[call[c].invoice] = "succeeded"
  BY <1>1, <1>2, <1>3, <1>9 DEF GoesOn, SameLocals, Kept
<1>10. CASE \/ GoesOn(c, "claim_lock", "claim_broadcast")
            \/ GoesOn(c, "claim_broadcast", "claim_persist")
  BY <1>1, <1>2, <1>3, <1>10 DEF GoesOn, SameLocals, Kept
<1> QED
  BY <1>4, <1>5, <1>6, <1>7, <1>8, <1>9, <1>10, RequestMoves
  DEF Move, Ended, CreateStarted, Named, GoesOn

\* ClaimerInv: a claim is broadcast before it is recorded, and spends are final.
LEMMA ClaimerStep ==
  ASSUME TypeOK, LocalsInv, PaymentInv, ClaimerInv, Next
  PROVE  ClaimerInv'
<1>1. \A s \in Stored : s \in Stored' /\ swaps'[s].direction = swaps[s].direction
  BY RowsAreFinal DEF SameTerms
<1>2. \A s \in SwapId : spend[s] # None => spend'[s] = spend[s]
  BY SpendsAreFinal DEF SpendStep
<1> SUFFICES ASSUME NEW c \in Call, call'[c].pc = "claim_persist"
             PROVE  /\ call'[c].swap \in Stored'
                    /\ spend'[call'[c].swap] = ClaimTxOf(c)'
  BY DEF ClaimerInv
<1>3. ClaimTxOf(c) \in SpendTx /\ ClaimTxOf(c) # None
  <2>1. ClaimTxOf(c) \in SpendTx
    BY DEF ClaimTxOf, ClaimTx, ClaimKey, SpendTx, Key, TypeOK, ServiceTypeOK, CallRecord
  <2> QED
    BY <2>1, NoneAssumption
<1>4. CASE call'[c] = call[c]
  <2>1. call[c].swap \in Stored /\ spend[call[c].swap] = ClaimTxOf(c)
    BY <1>4 DEF ClaimerInv
  <2>2. ClaimTxOf(c)' = ClaimTxOf(c)
    BY <1>1, <1>4, <2>1 DEF ClaimTxOf, ClaimKey
  <2> QED
    BY <1>1, <1>2, <1>3, <1>4, <2>1, <2>2 DEF Stored
<1>5. CASE ClaimBroadcast(c) /\ GoesOn(c, "claim_broadcast", "claim_persist")
  <2>1. call[c].swap \in Stored
    BY <1>5 DEF ClaimBroadcast, PaymentInv, ClaimPc
  <2>2. spend'[call[c].swap] = ClaimTxOf(c)
    BY <1>5, <2>1 DEF ClaimBroadcast, BroadcastSpend, Stored, TypeOK, ChainTypeOK
  <2>3. ClaimTxOf(c)' = ClaimTxOf(c)
    BY <1>1, <1>5, <2>1 DEF GoesOn, SameLocals, Kept, ClaimTxOf, ClaimKey
  <2> QED
    BY <1>1, <1>5, <2>1, <2>2, <2>3 DEF GoesOn, SameLocals, Kept
<1> QED
  BY <1>4, <1>5, RequestMoves
  DEF Move, Ended, CreateStarted, Named, GoesOn, PayStarted, ClaimStarted

\* SpentInv: the network refuses to spend what is not there.
LEMMA SpentStep ==
  ASSUME TypeOK, LocalsInv, FreshInv, SpentInv, Next
  PROVE  SpentInv'
<1>1. \A s \in SwapId : htlc[s] # None => htlc'[s] = htlc[s]
  BY LocksAreFinal
<1>2. \A s \in SwapId : spend'[s] # spend[s] => htlc[s] # None
  BY SpendsAreFinal DEF SpendStep
<1> QED
  BY <1>1, <1>2 DEF SpentInv

\* WorkerInv: rows stay, a pass broadcasts before it records, and it is at one
\* swap at a time.
LEMMA WorkerStep ==
  ASSUME TypeOK, LocalsInv, PaymentInv, WorkerInv, Next
  PROVE  WorkerInv'
<1>1. \A s \in Stored : s \in Stored' /\ swaps'[s].direction = swaps[s].direction
  BY RowsAreFinal DEF SameTerms
<1>2. \A s \in SwapId : spend[s] # None => spend'[s] = spend[s]
  BY SpendsAreFinal DEF SpendStep
<1>3. worker \in WorkerRecord
  BY DEF TypeOK, WorkerTypeOK
<1>4. \A s \in Stored : RefundTxOf(s)' = RefundTxOf(s)
  BY <1>1 DEF RefundTxOf, RefundKey
<1>5. \A s \in SwapId : RefundTxOf(s) # None
  <2>1. \A s \in SwapId : RefundTxOf(s) \in SpendTx
    BY FeeAssumption DEF RefundTxOf, RefundTx, RefundKey, SpendTx, Key
  <2> QED
    BY <2>1, NoneAssumption
<1>6. CASE worker' = worker
  BY <1>1, <1>2, <1>4, <1>5, <1>6 DEF WorkerInv, IsNext, WorkerAt
<1>7. CASE worker'.pc # "record" /\ worker'.due \subseteq Stored
  BY <1>1, <1>7 DEF WorkerInv, WorkerAt
<1>8. ASSUME NEW s \in SwapId, RefundBroadcast(s)
      PROVE  WorkerInv'
  <2>1. /\ IsNext(s)
        /\ spend' = [spend EXCEPT ![s] = RefundTxOf(s)]
        /\ worker'.due = worker.due
    BY <1>3, <1>8 DEF RefundBroadcast, BroadcastSpend, WorkerRecord
  <2>2. ASSUME NEW t \in SwapId, IsNext(t)'
        PROVE  t = s
    BY <2>1, <2>2, SwapIdAssumption DEF IsNext
  <2>3. s \in Stored /\ spend'[s] = RefundTxOf(s)
    BY <2>1 DEF IsNext, WorkerInv, TypeOK, ChainTypeOK
  <2> QED
    BY <1>1, <1>4, <2>1, <2>2, <2>3 DEF WorkerInv
<1>9. ASSUME NEW s \in SwapId,
             RefundRefused(s) \/ RefundBroadcastError(s) \/ RefundRecord(s)
      PROVE  worker'.pc # "record" /\ worker'.due \subseteq Stored
  BY <1>3, <1>9 DEF RefundRefused, RefundBroadcastError, RefundRecord, WorkerRecord,
     WorkerInv, WorkerAt
<1>10. ASSUME RefundStart \/ RefundList \/ RefundAbort \/ RefundEnd \/ CrashRestart
       PROVE  worker'.pc # "record" /\ worker'.due \subseteq Stored
  BY <1>3, <1>10 DEF RefundStart, RefundList, RefundAbort, RefundEnd, CrashRestart,
     IdleWorker, WorkerRecord, WorkerInv, Due
<1> QED
  BY <1>6, <1>7, <1>8, <1>9, <1>10
  DEF Next, Service, Refunds, WorkerNext, Lightning, Block, BuyerSpends

\* StoreAgreesWithChain: spends are final, and a claim txid or a Refunded is
\* written by who has seen that spend accepted.
LEMMA AgreesStep ==
  ASSUME TypeOK, LocalsInv, ClaimerInv, WorkerInv, StoreAgreesWithChain, Next
  PROVE  StoreAgreesWithChain'
<1> DEFINE Agrees(s) ==
             /\ swaps[s].claim_txid # None => spend[s] = swaps[s].claim_txid
             /\ swaps[s].status = "Claimed" => swaps[s].claim_txid # None
             /\ swaps[s].status = "Refunded" => spend[s] # None /\ spend[s].path = "refund"
<1>1. \A s \in Stored : s \in SwapId /\ Agrees(s)
  BY DEF StoreAgreesWithChain, Stored
<1>2. (\A s \in Stored' : Agrees(s)') => StoreAgreesWithChain'
  BY DEF StoreAgreesWithChain
<1>3. \A s \in SwapId : spend[s] # None => spend'[s] = spend[s]
  BY SpendsAreFinal DEF SpendStep
<1>4. CASE UNCHANGED swaps
  BY <1>1, <1>2, <1>3, <1>4 DEF Stored
<1>5. ASSUME NEW c \in Call, Inserted(c)
      PROVE  StoreAgreesWithChain'
  BY <1>1, <1>2, <1>3, <1>5 DEF Inserted
<1>6. ASSUME NEW c \in Call, CreateMarkFunded(c), StatusSet(call[c].swap, "Funded")
      PROVE  StoreAgreesWithChain'
  BY <1>1, <1>2, <1>3, <1>6 DEF StatusSet, Updated
<1>7. ASSUME NEW c \in Call, PreimageSet(call[c].swap, call[c].invoice)
      PROVE  StoreAgreesWithChain'
  BY <1>1, <1>2, <1>3, <1>7 DEF PreimageSet, Updated
<1>8. ASSUME NEW c \in Call, ClaimPersist(c), ClaimSet(call[c].swap, ClaimTxOf(c))
      PROVE  StoreAgreesWithChain'
  <2>1. call[c].swap \in SwapId /\ spend[call[c].swap] = ClaimTxOf(c)
    BY <1>8 DEF ClaimPersist, ClaimerInv, ClaimSet, Updated, Stored
  <2>2. ClaimTxOf(c) \in SpendTx
    BY DEF ClaimTxOf, ClaimTx, ClaimKey, SpendTx, Key, TypeOK, ServiceTypeOK, CallRecord
  <2>3. ClaimTxOf(c) # None
    BY <2>2, NoneAssumption
  <2> HIDE DEF Agrees
  <2>4. ASSUME NEW s \in Stored, s = call[c].swap
        PROVE  Agrees(s)'
    BY <1>3, <1>8, <2>1, <2>3, <2>4 DEF ClaimSet, Agrees
  <2>5. ASSUME NEW s \in Stored, s # call[c].swap
        PROVE  Agrees(s)'
    BY <1>1, <1>3, <1>8, <2>5, NoneAssumption DEF ClaimSet, Updated, Agrees
  <2> QED
    BY <1>2, <1>8, <2>4, <2>5 DEF ClaimSet, Updated
<1>9. ASSUME NEW s \in SwapId, RefundRecord(s), StatusSet(s, "Refunded")
      PROVE  StoreAgreesWithChain'
  <2>1. spend[s] = RefundTxOf(s)
    BY <1>9 DEF RefundRecord, WorkerInv
  <2>2. RefundTxOf(s) \in SpendTx /\ RefundTxOf(s).path = "refund"
    BY FeeAssumption DEF RefundTxOf, RefundTx, RefundKey, SpendTx, Key
  <2>3. spend[s] # None /\ spend[s].path = "refund"
    BY <2>1, <2>2, NoneAssumption
  <2> QED
    BY <1>1, <1>2, <1>3, <1>9, <2>3 DEF StatusSet, Updated
<1> QED
  BY <1>4, <1>5, <1>6, <1>7, <1>8, <1>9, StoreStep
  DEF StoreMoves, CreateQuote, insert_quote, CreateLink, set_quote_swap_id

\* ClaimedOnlyIfPaid: a claim opens the script with a preimage, a preimage in
\* anyone's hands is of a payment that went through, and locks, spends and
\* succeeded payments are final.
LEMMA ClaimedStep ==
  ASSUME TypeOK, LocalsInv, FreshInv, PaymentInv, PreimageIsProof, SpentInv,
         ClaimedOnlyIfPaid, Next
  PROVE  ClaimedOnlyIfPaid'
<1>1. \A i \in Invoice : payment[i] = "succeeded" => payment'[i] = "succeeded"
  BY PaymentsAreFinal
<1>2. \A s \in SwapId : htlc[s] # None => htlc'[s] = htlc[s]
  BY LocksAreFinal
<1>3. \A s \in SwapId : htlc[s] # None => htlc[s].payment_hash \in Invoice
  BY DEF TypeOK, ChainTypeOK, HtlcSpec
<1> SUFFICES ASSUME NEW s \in SwapId, spend'[s] # None, spend'[s].path = "claim"
             PROVE  payment'[htlc'[s].payment_hash] = "succeeded"
  BY DEF ClaimedOnlyIfPaid
<1>4. CASE spend'[s] = spend[s]
  <2>1. htlc[s] # None
    BY <1>4 DEF SpentInv
  <2> QED
    BY <1>1, <1>2, <1>3, <1>4, <2>1 DEF ClaimedOnlyIfPaid
<1>5. CASE spend'[s] # spend[s]
  <2>1. htlc[s] # None
    BY <1>5, SpendsAreFinal DEF SpendStep
  <2>2. PICK i \in Invoice :
          /\ htlc[s].payment_hash = i
          /\ \/ \E c \in Call : At(c, "claim_broadcast") /\ call[c].invoice = i
             \/ PreimageServed(i)
    BY <1>5, SpendsAreFinal DEF SpendStep, ClaimPathValid, RefundPathValid
  <2>3. payment[i] = "succeeded"
    <3>1. i # None
      BY NoneAssumption DEF Invoice
    <3> QED
      BY <2>2, <3>1 DEF PaymentInv, ClaimPc, PreimageServed, PreimageIsProof
  <2> QED
    BY <1>1, <1>2, <2>1, <2>2, <2>3
<1> QED
  BY <1>4, <1>5

\* WaitInv: while a request waits for its funding, only it can make the swap
\* Funded, so no one else gets to the row but the refund worker.
LEMMA WaitStep ==
  ASSUME TypeOK, LocalsInv, FreshInv, LinkInv, PaymentInv, WaitInv, Next
  PROVE  WaitInv'
<1> DEFINE OnRow == WaitPc \cup PayPc \cup ClaimPc
           Waits(s) == /\ swaps'[s].status \in {"Created", "Refunded"}
                       /\ swaps'[s].ln_preimage_hex = None
<1>1. \A c \in Call : call[c].pc \in OnRow => call[c].swap \in Stored
  BY DEF LinkInv, PaymentInv
<1> SUFFICES ASSUME NEW c \in Call, call'[c].pc \in WaitPc
             PROVE  /\ Waits(call'[c].swap)
                    /\ \A d \in Call :
                         (d # c /\ call'[d].pc \in OnRow) => call'[d].swap # call'[c].swap
  BY DEF WaitInv
<1>2. ASSUME NEW d \in Call, call'[d].pc \in OnRow
      PROVE  \/ call[d].pc \in OnRow /\ call'[d].swap = call[d].swap
             \/ CreateInsert(d) /\ call'[d].swap = call[d].swap
             \/ PayStarted(d) \/ ClaimStarted(d)
  <2>1. Move(d)
    BY RequestMoves
  <2> QED
    BY <1>2, <2>1 DEF Move, Ended, CreateStarted, Named, GoesOn, SameLocals, Kept,
       WaitPc, PayPc, ClaimPc
<1>3. \A d \in Call : CreateInsert(d) => /\ Inserted(d)
                                         /\ call[d].pc \in OwnPc
  BY InsertEffect DEF CreateInsert, OwnPc, TypeOK
<1>4. CASE CreateInsert(c) /\ call'[c].swap = call[c].swap
  <2>1. Waits(call'[c].swap)
    BY <1>3, <1>4 DEF Inserted
  <2>2. ASSUME NEW d \in Call, d # c, call'[d].pc \in OnRow
        PROVE  call'[d].swap # call'[c].swap
    BY <1>1, <1>2, <1>3, <1>4, <2>2 DEF Inserted, FreshInv, PayStarted, ClaimStarted
  <2> QED
    BY <2>1, <2>2
<1>5. CASE call[c].pc \in WaitPc /\ call'[c].swap = call[c].swap
  <2> DEFINE s == call[c].swap
  <2>1. /\ s \in Stored
        /\ swaps[s].status \in {"Created", "Refunded"}
        /\ swaps[s].ln_preimage_hex = None
    BY <1>5 DEF LinkInv, WaitInv
  <2>2. \A d \in Call : (d # c /\ call[d].pc \in OnRow) => call[d].swap # s
    BY <1>5 DEF WaitInv
  <2>3. ASSUME NEW d \in Call, d # c, call'[d].pc \in OnRow
        PROVE  call'[d].swap # call'[c].swap
    BY <1>2, <1>3, <1>5, <2>1, <2>2, <2>3 DEF Inserted, PayStarted, ClaimStarted
  <2>4. ~CreateMarkFunded(c)
    BY ReplyEffect DEF CreateMarkFunded, CallType, TypeOK, ServiceTypeOK, WaitPc
  <2>5. \A d \in Call : CreateMarkFunded(d) \/ PayPersist(d) \/ ClaimPersist(d)
                           => call[d].swap # s
    <3>1. \A d \in Call : CreateMarkFunded(d) \/ PayPersist(d) \/ ClaimPersist(d)
                             => call[d].pc \in OnRow
      BY DEF CreateMarkFunded, PayPersist, ClaimPersist, WaitPc, PayPc, ClaimPc
    <3>2. ~PayPersist(c) /\ ~ClaimPersist(c)
      BY <1>5 DEF PayPersist, ClaimPersist, WaitPc
    <3> QED
      BY <2>2, <2>4, <3>1, <3>2
  <2> HIDE DEF s
  <2>6. \/ swaps'[s] = swaps[s]
        \/ StatusSet(s, "Refunded")
    BY <2>1, <2>5, StoreStep
    DEF StoreMoves, CreateQuote, insert_quote, CreateLink, set_quote_swap_id, Inserted,
        StatusSet, PreimageSet, ClaimSet, Updated
  <2>7. Waits(s)
    BY <2>1, <2>6 DEF StatusSet
  <2> QED
    BY <1>5, <2>3, <2>7 DEF s
<1>6. Move(c)
  BY RequestMoves
<1> QED
  BY <1>4, <1>5, <1>6 DEF Move, Ended, CreateStarted, Named, GoesOn, SameLocals, Kept,
     PayStarted, ClaimStarted, WaitPc

\* The chain only grows, and with it the depth of every funding transaction.
LEMMA DepthGrows ==
  ASSUME TypeOK, DepthInv, Next
  PROVE  /\ tip <= tip'
         /\ walletTip' <= tip'
         /\ \A s \in SwapId : height'[s] <= tip' /\ Depth(s) <= Depth(s)'
         /\ \A s \in SwapId : Depth(s) \in Nat
<1>1. /\ tip \in Nat /\ walletTip \in Nat /\ walletTip <= tip
      /\ \A s \in SwapId : height[s] \in Nat /\ height[s] <= tip
  BY MaxTipAssumption DEF TypeOK, ChainTypeOK, WalletTypeOK, DepthInv
<1>2. walletTip' \in {walletTip, tip}
  BY WhoWrites DEF Writers
<1>3. CASE UNCHANGED <<tip, height>>
  BY <1>1, <1>2, <1>3 DEF Depth
<1>4. CASE Block
  <2>1. tip' = tip + 1
    BY <1>4 DEF Block, Mine
  <2>2. \A s \in SwapId :
          height'[s] = height[s] \/ (height[s] = 0 /\ height'[s] = tip + 1)
    BY <1>4 DEF Block, Mine
  <2> QED
    BY <1>1, <1>2, <2>1, <2>2 DEF Depth
<1> QED
  BY <1>3, <1>4, WhoWrites DEF Writers

\* DepthInv: a request counts confirmations with a tip that is never ahead of
\* the chain, and only then does the swap become Funded.
LEMMA DepthStep ==
  ASSUME TypeOK, LocalsInv, LinkInv, PaymentInv, DepthInv, Next, TypeOK'
  PROVE  DepthInv'
<1>1. \A s \in Stored :
        /\ s \in SwapId
        /\ s \in Stored'
        /\ swaps'[s].min_funding_confs = swaps[s].min_funding_confs
        /\ swaps[s].min_funding_confs \in Nat
  BY RowsAreFinal
  DEF SameTerms, TypeOK, StoreTypeOK, Stored, SwapRecord, MAX_MIN_FUNDING_CONFS
<1>2. ASSUME NEW s \in Stored, Deep(s)
      PROVE  Deep(s)'
  <2>1. /\ Depth(s) \in Nat
        /\ Depth(s) <= Depth(s)'
        /\ Depth(s)' \in Int
    BY <1>1, DepthGrows, MaxTipAssumption DEF Depth, TypeOK, ChainTypeOK
  <2> QED
    BY <1>1, <1>2, <2>1 DEF Deep
<1>3. ASSUME NEW c \in Call, call[c].pc \in WaitPc \cup PayPc \cup ClaimPc
      PROVE  call[c].swap \in Stored
  BY <1>3 DEF LinkInv, PaymentInv
<1>4. ASSUME NEW c \in Call, call'[c].pc \in PayPc \/ call'[c].pc = "create_confirmed"
      PROVE  call'[c].swap \in Stored /\ Deep(call'[c].swap)
  <2>1. CASE call'[c] = call[c] \/ GoesOn(c, "pay_send", "pay_wait")
             \/ GoesOn(c, "pay_wait", "pay_persist")
    BY <1>3, <1>4, <2>1 DEF DepthInv, GoesOn, SameLocals, Kept, PayPc, WaitPc
  <2>2. CASE PayStarted(c)
    BY <2>2 DEF PayStarted, DepthInv
  <2>3. CASE CreateCheck(c) /\ GoesOn(c, "create_check", "create_confirmed")
    <3> DEFINE s == call[c].swap
    <3>1. /\ s \in Stored
          /\ swaps[s].min_funding_confs = quotes[call[c].quote].min_funding_confs
      BY <1>3, <2>3 DEF GoesOn, DepthInv, WaitPc
    <3>2. Confirmations(s) >= quotes[call[c].quote].min_funding_confs
      BY <2>3 DEF CreateCheck, GoesOn, CallRecord, CreatePc, TypeOK, ServiceTypeOK
    <3>3. Confirmations(s) <= Depth(s) /\ Depth(s) \in Nat /\ Confirmations(s) \in Nat
      BY <1>1, <3>1, MaxTipAssumption
      DEF Confirmations, Depth, DepthInv, TypeOK, ChainTypeOK, WalletTypeOK
    <3>4. Deep(s)
      BY <1>1, <3>1, <3>2, <3>3 DEF Deep
    <3> QED
      BY <2>3, <3>1, <3>4 DEF GoesOn, SameLocals, Kept
  <2> QED
    BY <1>4, <2>1, <2>2, <2>3, RequestMoves
    DEF Move, Ended, CreateStarted, Named, GoesOn, ClaimStarted, PayPc
<1>5. ASSUME NEW c \in Call, call'[c].pc \in WaitPc
      PROVE  swaps'[call'[c].swap].min_funding_confs
               = quotes'[call'[c].quote].min_funding_confs
  <2>1. \A q \in QuoteId :
          quotes[q] # None =>
            quotes'[q].min_funding_confs = quotes[q].min_funding_confs
    BY QuotesAreFinal
  <2>2. ASSUME call[c].pc \in CreatePc
        PROVE  call[c].quote \in QuoteId /\ quotes[call[c].quote] # None
    BY <2>2 DEF LocalsInv
  <2>3. CASE call[c].pc \in WaitPc /\ Kept(c)
    BY <1>1, <1>3, <2>1, <2>2, <2>3 DEF Kept, DepthInv, WaitPc, CreatePc
  <2>4. CASE CreateInsert(c) /\ GoesOn(c, "create_insert", "create_link")
    <3>1. Inserted(c) /\ call[c].pc \in CreatePc
      BY <2>4, InsertEffect DEF TypeOK, GoesOn, CreatePc
    <3> QED
      BY <2>1, <2>2, <2>4, <3>1 DEF Inserted, GoesOn, SameLocals, Kept
  <2>5. Move(c)
    BY RequestMoves
  <2> QED
    BY <1>5, <2>3, <2>4, <2>5 DEF Move, Ended, CreateStarted, Named, GoesOn, SameLocals,
       PayStarted, ClaimStarted, WaitPc, Kept
<1>6. ASSUME NEW s \in Stored',
             swaps'[s].status \in {"Funded", "Paid", "Claimed"}
               \/ swaps'[s].ln_preimage_hex # None
      PROVE  s \in Stored /\ Deep(s)
  <2> DEFINE Ready(t) == swaps[t].status \in {"Funded", "Paid", "Claimed"}
                           \/ swaps[t].ln_preimage_hex # None
  <2>1. \A t \in Stored : Ready(t) => Deep(t)
    BY DEF DepthInv
  <2>2. ASSUME NEW c \in Call, CreateMarkFunded(c) \/ PayPersist(c) \/ ClaimPersist(c)
        PROVE  call[c].swap \in Stored /\ Deep(call[c].swap)
    <3>1. call[c].swap \in Stored
      BY <1>3, <2>2 DEF CreateMarkFunded, PayPersist, ClaimPersist, WaitPc, PayPc, ClaimPc
    <3>2. CASE CreateMarkFunded(c) \/ PayPersist(c)
      <4>1. At(c, "create_confirmed") \/ call[c].pc \in PayPc
        BY <3>2 DEF CreateMarkFunded, PayPersist, PayPc
      <4>2. Deep(call[c].swap)
        BY <4>1 DEF DepthInv
      <4> QED
        BY <3>1, <4>2
    <3>3. CASE ClaimPersist(c)
      BY <2>1, <3>1, <3>3 DEF ClaimPersist, PaymentInv, ClaimPc
    <3> QED
      BY <2>2, <3>1, <3>2, <3>3
  <2>3. \/ s \in Stored /\ swaps'[s] = swaps[s]
        \/ s \in Stored /\ StatusSet(s, "Refunded")
        \/ \E c \in Call : /\ CreateMarkFunded(c) \/ PayPersist(c) \/ ClaimPersist(c)
                           /\ s = call[c].swap
    BY <1>6, StoreStep
    DEF StoreMoves, CreateQuote, insert_quote, CreateLink, set_quote_swap_id, Inserted,
        StatusSet, PreimageSet, ClaimSet, Updated, Stored
  <2> QED
    BY <1>6, <2>1, <2>2, <2>3 DEF StatusSet
<1>7. /\ walletTip' <= tip'
      /\ \A s \in SwapId : height'[s] <= tip'
  BY DepthGrows
<1> QED
  BY <1>2, <1>4, <1>5, <1>6, <1>7 DEF DepthInv

\* TxidInv: ClaimPersist is the only writer of a claim txid.
LEMMA TxidStep ==
  ASSUME TypeOK, LocalsInv, TxidInv, Next
  PROVE  TxidInv'
<1> SUFFICES ASSUME NEW s \in SwapId, s \in Stored', swaps'[s].claim_txid # None
             PROVE  swaps'[s].claim_txid.path = "claim"
  BY DEF TxidInv, Stored
<1>1. CASE swaps' = swaps
  BY <1>1 DEF TxidInv, Stored
<1>2. ASSUME NEW c \in Call, Inserted(c)
      PROVE  swaps'[s].claim_txid.path = "claim"
  BY <1>2 DEF TxidInv, Inserted
<1>3. ASSUME NEW t, NEW status, StatusSet(t, status)
      PROVE  swaps'[s].claim_txid.path = "claim"
  BY <1>3 DEF TxidInv, StatusSet, Updated
<1>4. ASSUME NEW t, NEW i, PreimageSet(t, i)
      PROVE  swaps'[s].claim_txid.path = "claim"
  BY <1>4 DEF TxidInv, PreimageSet, Updated
<1>5. ASSUME NEW t, NEW c \in Call, ClaimSet(t, ClaimTxOf(c))
      PROVE  swaps'[s].claim_txid.path = "claim"
  <2>1. ClaimTxOf(c).path = "claim"
    BY DEF ClaimTxOf, ClaimTx
  <2> QED
    BY <1>5, <2>1 DEF TxidInv, ClaimSet, Updated
<1> QED
  BY <1>1, <1>2, <1>3, <1>4, <1>5, StoreStep
  DEF StoreMoves, CreateQuote, insert_quote, CreateLink, set_quote_swap_id

\* PaidOnlyIfConfirmed: a payment is sent for a swap that is deep enough, and
\* rows and depth never shrink.
LEMMA PaidStep ==
  ASSUME TypeOK, LocalsInv, PaymentInv, DepthInv, PaidOnlyIfConfirmed, Next, TypeOK'
  PROVE  PaidOnlyIfConfirmed'
<1> DEFINE Good(i, s) == /\ swaps[s].bolt11_invoice = i
                         /\ Depth(s) >= swaps[s].min_funding_confs
<1>1. ASSUME NEW i \in Invoice, NEW s \in Stored, Good(i, s)
      PROVE  s \in Stored' /\ Good(i, s)'
  <2>1. /\ s \in SwapId
        /\ s \in Stored'
        /\ swaps'[s].min_funding_confs = swaps[s].min_funding_confs
        /\ swaps'[s].bolt11_invoice = swaps[s].bolt11_invoice
        /\ swaps[s].min_funding_confs \in Nat
    BY RowsAreFinal
    DEF SameTerms, TypeOK, StoreTypeOK, Stored, SwapRecord, MAX_MIN_FUNDING_CONFS
  <2>2. /\ Depth(s) \in Nat
        /\ Depth(s) <= Depth(s)'
        /\ Depth(s)' \in Int
    BY <2>1, DepthGrows, MaxTipAssumption DEF Depth, TypeOK, ChainTypeOK
  <2> QED
    BY <1>1, <2>1, <2>2
<1>2. ASSUME NEW i \in Invoice, payment'[i] # "none"
      PROVE  \E s \in Stored : Good(i, s)
  <2>1. CASE payment[i] # "none"
    BY <2>1 DEF PaidOnlyIfConfirmed
  <2>2. ASSUME NEW c \in Call, PaySend(c) \/ PaySendError(c), payment[i] = "none"
        PROVE  \E s \in Stored : Good(i, s)
    <3>1. call[c].pc \in PayPc /\ call[c].invoice = i
      BY <1>2, <2>2 DEF PaySend, PaySendError, SetPayment, PayPc, TypeOK, LnTypeOK
    <3>2. /\ call[c].swap \in Stored
          /\ swaps[call[c].swap].bolt11_invoice = i
      BY <3>1 DEF PaymentInv
    <3>3. Deep(call[c].swap)
      BY <3>1 DEF DepthInv
    <3> QED
      BY <3>2, <3>3 DEF Deep
  <2>3. Lightning => payment[i] # "none"
    BY <1>2 DEF Lightning, PaymentSettles, PaymentFails, SetPayment, TypeOK, LnTypeOK
  <2> HIDE DEF Good
  <2> QED
    BY <1>2, <2>1, <2>2, <2>3, WhoWrites DEF Writers
<1> QED
  BY <1>1, <1>2 DEF PaidOnlyIfConfirmed

\* Both branches of a row's script open with what the row gives.
LEMMA RowsSpendable ==
  ASSUME TypeOK, RowsAreBacked, PreimageIsProof, DepthInv
  PROVE  RowsAreSpendable
<1> SUFFICES ASSUME NEW s \in Stored
             PROVE
        LET own == swaps[s].buyer_liquid_address = BuyerKey IN
        /\ (swaps[s].ln_preimage_hex # None /\ (swaps[s].direction = "LnToLiquid" => own))
              => ClaimPathValid(s, ClaimTx(ClaimKey(s), 0), swaps[s].ln_preimage_hex)
        /\ (Due(s) /\ (swaps[s].direction = "LiquidToLn" => own))
              => RefundPathValid(s, RefundTxOf(s))
  BY DEF RowsAreSpendable
<1>1. /\ htlc[s].payment_hash = swaps[s].bolt11_invoice
      /\ htlc[s].claimer = IF swaps[s].direction = "LnToLiquid"
                           THEN swaps[s].buyer_liquid_address ELSE SellerKey
      /\ htlc[s].refunder = IF swaps[s].direction = "LnToLiquid"
                            THEN SellerKey ELSE swaps[s].buyer_liquid_address
      /\ htlc[s].refund_lock_height = swaps[s].refund_lock_height
  <2>1. htlc[s] = HtlcSpecFor(swaps[s].direction, swaps[s].bolt11_invoice,
                              swaps[s].buyer_liquid_address, swaps[s].refund_lock_height)
    BY DEF RowsAreBacked
  <2> QED
    BY <2>1 DEF HtlcSpecFor
<1>2. swaps[s].direction \in Direction /\ swaps[s].refund_lock_height \in Nat
  BY DEF TypeOK, StoreTypeOK, Stored, SwapRecord
<1>3. swaps[s].ln_preimage_hex # None
        => swaps[s].ln_preimage_hex = swaps[s].bolt11_invoice
  BY DEF PreimageIsProof
<1>4. walletTip <= tip /\ walletTip \in Int /\ tip \in Int
  BY MaxTipAssumption DEF DepthInv, TypeOK, ChainTypeOK, WalletTypeOK
<1> QED
  BY <1>1, <1>2, <1>3, <1>4
  DEF ClaimPathValid, ClaimTx, ClaimKey, RefundPathValid, RefundTxOf, RefundTx,
      RefundKey, Due, Direction

\* StatusMoves: Funded is written only while no one else is on the row, Claimed
\* and Refunded each by who has spent the HTLC.
LEMMA StatusStep ==
  ASSUME TypeOK, LocalsInv, LinkInv, ClaimerInv, WorkerInv, WaitInv,
         StoreAgreesWithChain, TxidInv, Next
  PROVE  StatusMoves
<1> SUFFICES ASSUME NEW s \in Stored
             PROVE  LET old == swaps[s].status  new == swaps'[s].status IN
                    /\ new = "Funded" => old \notin {"Paid", "Claimed"}
                    /\ ~(old = "Claimed" /\ new = "Refunded")
                    /\ ~(old = "Refunded" /\ new = "Claimed")
  BY DEF StatusMoves
<1>1. CASE swaps'[s].status = swaps[s].status
  BY <1>1
<1>2. CASE \E c \in Call : CreateMarkFunded(c) /\ s = call[c].swap /\ StatusSet(s, "Funded")
  <2>1. swaps[s].status \in {"Created", "Refunded"}
    BY <1>2 DEF CreateMarkFunded, WaitInv, WaitPc
  <2> QED
    BY <1>2, <2>1 DEF StatusSet
<1>3. CASE PreimageSet(s, swaps'[s].ln_preimage_hex)
  BY <1>3 DEF PreimageSet
<1>4. CASE \E c \in Call : /\ ClaimPersist(c)
                           /\ s = call[c].swap
                           /\ ClaimSet(s, ClaimTxOf(c))
  <2>1. spend[s].path = "claim"
    BY <1>4 DEF ClaimPersist, ClaimerInv, ClaimTxOf, ClaimTx
  <2> QED
    BY <1>4, <2>1 DEF ClaimSet, StoreAgreesWithChain
<1>5. CASE RefundRecord(s) /\ StatusSet(s, "Refunded")
  <2>1. spend[s].path = "refund"
    <3>1. spend[s] = RefundTxOf(s)
      BY <1>5 DEF RefundRecord, WorkerInv, Stored
    <3>2. RefundTxOf(s).path = "refund"
      BY DEF RefundTxOf, RefundTx
    <3> QED
      BY <3>1, <3>2
  <2>2. swaps[s].status # "Claimed"
    <3>1. swaps[s].claim_txid # None => spend[s].path = "claim"
      BY DEF StoreAgreesWithChain, TxidInv
    <3> QED
      BY <2>1, <3>1 DEF StoreAgreesWithChain
  <2> QED
    BY <1>5, <2>2 DEF StatusSet
<1> QED
  BY <1>1, <1>2, <1>3, <1>4, <1>5, StoreStep
  DEF StoreMoves, CreateQuote, insert_quote, CreateLink, set_quote_swap_id, Inserted,
      StatusSet, PreimageSet, ClaimSet, Updated, Stored
=============================================================================
