--------------------------- MODULE SwapTypeProofs ---------------------------
(***************************************************************************)
(* Type correctness of the server, with the locals each handler may read.  *)
(***************************************************************************)
EXTENDS SwapEffects

USE DEF At, Goto, Start, Fail, Lock, Unlock, sync, LockAndSync,
        chainVars, lnVars, storeVars, walletVars

\* LocalsInv: each handler sets its locals before it reads them, and quotes and,
\* while a request lives, the offer do not change.
LEMMA LocalsStep ==
  ASSUME TypeOK, LocalsInv, Next
  PROVE  LocalsInv'
<1>1. \A q \in QuoteId :
        quotes[q] # None =>
          quotes'[q] # None /\ quotes'[q].offer_id = quotes[q].offer_id
  BY QuotesAreFinal
<1>2. cfg' = cfg \/ \A c \in Call : call'[c].pc = "idle"
  BY WhoWrites DEF Writers, CrashRestart, IdleCall
<1> SUFFICES ASSUME NEW c \in Call
             PROVE
        /\ call'[c].pc \in CreatePc =>
              /\ call'[c].quote \in QuoteId
              /\ quotes'[call'[c].quote] # None
              /\ call'[c].address \in BuyerAddress
        /\ call'[c].pc \in CreatePc \ {"create_validate"} => call'[c].swap \in SwapId
        /\ (call'[c].pc \in OwnPc \cup WaitPc /\ ~At(c, "create_invoice")')
              => call'[c].invoice \in Invoice
        /\ call'[c].pc \in OwnPc => quotes'[call'[c].quote].offer_id = cfg'
  BY DEF LocalsInv
<1> USE DEF OwnPc, WaitPc, CreatePc
<1>3. CASE call'[c] = call[c]
  BY <1>1, <1>2, <1>3 DEF LocalsInv
<1>4. CASE Ended(c)
  BY <1>4 DEF Ended
<1>5. CASE CreateStarted(c)
  BY <1>1, <1>5 DEF CreateStarted
<1>6. CASE Named(c)
  BY <1>1, <1>2, <1>6 DEF Named, LocalsInv, TypeOK, ServiceTypeOK, CallRecord
<1>7. CASE /\ At(c, "create_invoice")
           /\ call'[c].pc = "create_lock"
           /\ Kept(c)
           /\ call'[c].invoice = call[c].swap
  BY <1>1, <1>2, <1>7 DEF Kept, LocalsInv, Invoice
<1>8. CASE /\ call[c].pc \in (OwnPc \cup WaitPc) \ {"create_invoice"}
           /\ call'[c].pc \in (OwnPc \cup WaitPc) \ {"create_invoice"}
           /\ call'[c].pc \in OwnPc => call[c].pc \in OwnPc
           /\ Kept(c)
           /\ call'[c].invoice = call[c].invoice
  BY <1>1, <1>2, <1>8 DEF Kept, LocalsInv
<1>9. CASE call'[c].pc \in PayPc \cup ClaimPc
  BY <1>9 DEF PayPc, ClaimPc
<1> QED
  BY <1>3, <1>4, <1>5, <1>6, <1>7, <1>8, <1>9, RequestMoves
  DEF Move, GoesOn, SameLocals, PayStarted, ClaimStarted, PayPc, ClaimPc

\* The records that CreateStart, CreateInvoice and CreateLock leave in a slot.
LEMMA CallUpdates ==
  ASSUME NEW r \in CallRecord
  PROVE  /\ \A pc \in {"create_replay", "create_validate"}, s \in SwapId \cup {None},
               q \in QuoteId, a \in BuyerAddress, i \in Invoice \cup {None} :
              [r EXCEPT !.pc = pc, !.swap = s, !.quote = q, !.address = a, !.invoice = i]
                \in CallRecord
         /\ \A i \in Invoice : [r EXCEPT !.pc = "create_lock", !.invoice = i] \in CallRecord
         /\ \A n \in Nat : [r EXCEPT !.pc = "create_fund", !.lock = n] \in CallRecord
<1>1. ASSUME NEW pc \in {"create_replay", "create_validate"}, NEW s \in SwapId \cup {None},
             NEW q \in QuoteId, NEW a \in BuyerAddress, NEW i \in Invoice \cup {None}
      PROVE  [r EXCEPT !.pc = pc, !.swap = s, !.quote = q, !.address = a, !.invoice = i]
               \in CallRecord
  BY DEF CallRecord, CreatePc
<1>2. ASSUME NEW i \in Invoice
      PROVE  [r EXCEPT !.pc = "create_lock", !.invoice = i] \in CallRecord
  BY DEF CallRecord, CreatePc
<1>3. ASSUME NEW n \in Nat
      PROVE  [r EXCEPT !.pc = "create_fund", !.lock = n] \in CallRecord
  BY DEF CallRecord, CreatePc
<1> QED
  BY <1>1, <1>2, <1>3

\* Every handler, worker and world step leaves values of their types, the locals
\* that a handler has not set yet being None.
LEMMA TypeStep ==
  ASSUME TypeOK, LocalsInv, Next
  PROVE  TypeOK'
<1> USE DEF TypeOK, ChainTypeOK, LnTypeOK, StoreTypeOK, WalletTypeOK,
        ServiceTypeOK, WorkerTypeOK
<1>1. ASSUME NEW q \in QuoteId, NEW d \in Direction, NEW n \in MinConfs,
             CreateQuote(q, d, n), UNCHANGED <<worker, restarts>>
      PROVE  TypeOK'
  BY <1>1, ConfsAssumption DEF CreateQuote, insert_quote, QuoteRecord, CreatePc
<1>2. ASSUME NEW c \in Call, NEW q \in QuoteId, NEW a \in BuyerAddress,
             NEW i \in BuyerInvoice \cup {None}, CreateStart(c, q, a, i),
             UNCHANGED <<worker, restarts>>
      PROVE  TypeOK'
  <2>1. /\ IdleCall \in CallRecord
        /\ quotes[q].swap_id \in SwapId \cup {None}
        /\ i \in Invoice \cup {None}
    BY <1>2 DEF CreateStart, IdleCall, CallRecord, QuoteRecord, Invoice
  <2>2. call' \in [Call -> CallRecord]
    BY <1>2, <2>1, CallUpdates DEF CreateStart
  <2> QED
    BY <1>2, <2>2 DEF CreateStart
<1>3. ASSUME NEW c \in Call, CreateReplay(c), UNCHANGED <<worker, restarts>>
      PROVE  TypeOK'
  <2>1. CASE Reply(c, "created")
    BY <1>3, <2>1, ReplyEffect DEF CreateReplay, CallType
  <2>2. CASE Fail(c)
    BY <1>3, <2>2 DEF CreateReplay, CallRecord, IdleCall
  <2> QED
    BY <1>3, <2>1, <2>2 DEF CreateReplay
<1>4. ASSUME NEW c \in Call, NEW s \in SwapId, CreateValidate(c, s),
             UNCHANGED <<worker, restarts>>
      PROVE  TypeOK'
  BY <1>4 DEF CreateValidate, CallRecord, CreatePc
<1>5. ASSUME NEW c \in Call, CreateInvoice(c), UNCHANGED <<worker, restarts>>
      PROVE  TypeOK'
  <2> DEFINE r == [call[c] EXCEPT !.pc = "create_lock", !.invoice = call[c].swap]
  <2>1. call[c].swap \in Invoice
    BY <1>5 DEF CreateInvoice, CreatePc, LocalsInv, Invoice
  <2>2. r \in CallRecord
    BY <2>1, CallUpdates
  <2>3. call' = [call EXCEPT ![c] = r]
    BY <1>5 DEF CreateInvoice
  <2> HIDE DEF r
  <2> QED
    BY <1>5, <2>2, <2>3 DEF CreateInvoice
<1>6. ASSUME NEW c \in Call, CreateLock(c), UNCHANGED <<worker, restarts>>
      PROVE  TypeOK'
  <2> DEFINE r == [call[c] EXCEPT !.pc = "create_fund",
                                  !.lock = tip + cfg.refund_delta_blocks]
  <2>1. cfg \in [fee_subsidy_sats: Nat, refund_delta_blocks: Nat]
    BY OfferAssumption
  <2>2. tip + cfg.refund_delta_blocks \in Nat
    BY <2>1, MaxTipAssumption
  <2>3. r \in CallRecord
    BY <2>2, CallUpdates
  <2>4. call' = [call EXCEPT ![c] = r]
    BY <1>6 DEF CreateLock
  <2> HIDE DEF r
  <2> QED
    BY <1>6, <2>3, <2>4 DEF CreateLock
<1>7. ASSUME NEW c \in Call, CreateFund(c) \/ CreateFundError(c)
      PROVE  ChainTypeOK'
  <2>1. /\ call[c].swap \in SwapId
        /\ call[c].invoice \in Invoice
        /\ call[c].address \in BuyerAddress
        /\ call[c].lock \in Nat
    BY <1>7 DEF CreateFund, CreateFundError, LocalsInv, OwnPc, CreatePc, CallRecord
  <2>2. FundedSpec(c) \in HtlcSpec
    BY <2>1, AddressAssumption DEF FundedSpec, HtlcSpecFor, HtlcSpec, Key
  <2> QED
    BY <1>7, <2>1, <2>2 DEF CreateFund, CreateFundError, BroadcastFunding
<1>8. ASSUME NEW c \in Call, CreateFund(c) \/ CreateFundError(c),
             UNCHANGED <<worker, restarts>>
      PROVE  TypeOK'
  <2>1. CASE CreateFund(c)
    <3>1. call' \in [Call -> CallRecord]
      BY <2>1 DEF CreateFund, CallRecord, CreatePc
    <3> QED
      BY <1>7, <1>8, <2>1, <3>1 DEF CreateFund
  <2>2. CASE CreateFundError(c)
    <3>1. call' \in [Call -> CallRecord]
      BY <2>2 DEF CreateFundError, CallRecord, IdleCall
    <3> QED
      BY <1>7, <1>8, <2>2, <3>1 DEF CreateFundError
  <2> QED
    BY <1>8, <2>1, <2>2
<1>9. ASSUME NEW c \in Call, CreateInsert(c), UNCHANGED <<worker, restarts>>
      PROVE  TypeOK'
  <2>1. Inserted(c)
    BY <1>9, InsertEffect
  <2>2. swaps' = [swaps EXCEPT ![call[c].swap] = swaps'[call[c].swap]]
    BY <1>9, <2>1 DEF CreateInsert, insert_swap, Inserted
  <2>3. StoreTypeOK'
    BY <2>1, <2>2 DEF Inserted
  <2>4. call' \in [Call -> CallRecord]
    BY <1>9 DEF CreateInsert, CallRecord, CreatePc
  <2> QED
    BY <1>9, <2>3, <2>4 DEF CreateInsert
<1>10. ASSUME NEW c \in Call, CreateLink(c), UNCHANGED <<worker, restarts>>
      PROVE  TypeOK'
  <2>1. call' \in [Call -> CallRecord]
    BY <1>10 DEF CreateLink, CallRecord, CreatePc
  <2>2. StoreTypeOK'
    BY <1>10 DEF CreateLink, set_quote_swap_id, LocalsInv, QuoteRecord, CreatePc
  <2> QED
    BY <1>10, <2>1, <2>2 DEF CreateLink
<1>11. ASSUME NEW c \in Call, CreatePoll(c), UNCHANGED <<worker, restarts>>
      PROVE  TypeOK'
  BY <1>11 DEF CreatePoll, CallRecord, CreatePc
<1>12. ASSUME NEW c \in Call, CreateCheck(c), UNCHANGED <<worker, restarts>>
      PROVE  TypeOK'
  BY <1>12 DEF CreateCheck, CallRecord, CreatePc
<1>13. ASSUME NEW c \in Call, CreateMarkFunded(c),
             UNCHANGED <<worker, restarts>>
      PROVE  TypeOK'
  BY <1>13, ReplyEffect DEF CreateMarkFunded, update_swap_status, CallType, Stored,
     SwapRecord, SwapStatus
<1>14. ASSUME NEW c \in Call,
             CreateGiveUp(c) \/ PayGiveUp(c) \/ ClaimGiveUp(c) \/ Deliver(c),
             UNCHANGED <<worker, restarts>>
      PROVE  TypeOK'
  BY <1>14 DEF CreateGiveUp, PayGiveUp, ClaimGiveUp, Deliver, CallRecord, IdleCall,
     CreatePc, PayPc, ClaimPc
<1>15. ASSUME NEW c \in Call, NEW s \in SwapId, NEW r \in Role,
             PayStart(c, s, r), UNCHANGED <<worker, restarts>>
      PROVE  TypeOK'
  <2>1. /\ OnlySlot(c)
        /\ PayStarted(c) \/ (call'[c].pc = "replied" /\ call'[c].swap \in Stored)
    BY <1>15, PayStartEffect DEF CallType, TypeOK, ServiceTypeOK
  <2> QED
    BY <1>15, <2>1 DEF OnlySlot, PayStarted
<1>16. ASSUME NEW c \in Call, PaySend(c), UNCHANGED <<worker, restarts>>
      PROVE  TypeOK'
  <2>1. call' \in [Call -> CallRecord]
    BY <1>16 DEF PaySend, CallRecord, PayPc
  <2>2. LnTypeOK'
    BY <1>16 DEF PaySend, SetPayment, PaymentStatus
  <2> QED
    BY <1>16, <2>1, <2>2 DEF PaySend
<1>17. ASSUME NEW c \in Call, PaySendError(c), UNCHANGED <<worker, restarts>>
      PROVE  TypeOK'
  BY <1>17 DEF PaySendError, SetPayment, PaymentStatus, CallRecord, IdleCall, PayPc
<1>18. ASSUME NEW c \in Call, PayPreimage(c) \/ ClaimLock(c),
             UNCHANGED <<worker, restarts>>
      PROVE  TypeOK'
  BY <1>18 DEF PayPreimage, ClaimLock, CallRecord, PayPc, ClaimPc
<1>19. ASSUME NEW c \in Call, PayPersist(c), UNCHANGED <<worker, restarts>>
      PROVE  TypeOK'
  <2>1. call' \in [Call -> CallRecord]
    BY <1>19, ReplyEffect DEF PayPersist, CallType
  <2>2. StoreTypeOK'
    BY <1>19 DEF PayPersist, upsert_swap_payment, Stored, SwapRecord, SwapStatus,
       CallRecord
  <2> QED
    BY <1>19, <2>1, <2>2 DEF PayPersist
<1>20. ASSUME NEW c \in Call, NEW s \in SwapId, NEW r \in Role, NEW f \in ClaimFee,
             ClaimStart(c, s, r, f), UNCHANGED <<worker, restarts>>
      PROVE  TypeOK'
  <2>1. /\ OnlySlot(c)
        /\ ClaimStarted(c) \/ (call'[c].pc = "replied" /\ call'[c].swap \in Stored)
    BY <1>20, ClaimStartEffect DEF CallType, TypeOK, ServiceTypeOK
  <2> QED
    BY <1>20, <2>1 DEF OnlySlot, ClaimStarted
<1>21. ASSUME NEW c \in Call, ClaimBroadcast(c), UNCHANGED <<worker, restarts>>
      PROVE  TypeOK'
  <2>1. call' \in [Call -> CallRecord]
    BY <1>21 DEF ClaimBroadcast, CallRecord, ClaimPc
  <2>2. ChainTypeOK'
    BY <1>21 DEF ClaimBroadcast, BroadcastSpend, ClaimTxOf, ClaimTx, ClaimKey,
       SpendTx, Key, CallRecord
  <2> QED
    BY <1>21, <2>1, <2>2 DEF ClaimBroadcast
<1>22. ASSUME NEW c \in Call, ClaimBroadcastError(c),
             UNCHANGED <<worker, restarts>>
      PROVE  TypeOK'
  BY <1>22 DEF ClaimBroadcastError, BroadcastSpend, ClaimTxOf, ClaimTx, ClaimKey,
     SpendTx, Key, CallRecord, IdleCall, ClaimPc
<1>23. ASSUME NEW c \in Call, ClaimPersist(c), UNCHANGED <<worker, restarts>>
      PROVE  TypeOK'
  <2>1. call' \in [Call -> CallRecord]
    BY <1>23, ReplyEffect DEF ClaimPersist, CallType
  <2>2. StoreTypeOK'
    <3>1. ClaimTxOf(c) \in SpendTx
      BY DEF ClaimTxOf, ClaimTx, ClaimKey, SpendTx, Key, CallRecord
    <3> QED
      BY <1>23, <3>1 DEF ClaimPersist, upsert_swap_claim, Stored, SwapRecord, SwapStatus
  <2> QED
    BY <1>23, <2>1, <2>2 DEF ClaimPersist
<1>24. ASSUME RefundStart \/ RefundList \/ RefundAbort \/ RefundEnd,
             UNCHANGED <<lnVars, call, cfg, restarts>>
      PROVE  TypeOK'
  BY <1>24 DEF RefundStart, RefundList, RefundAbort, RefundEnd, WorkerRecord,
     IdleWorker
<1>25. ASSUME NEW s \in SwapId, RefundBroadcast(s) \/ RefundBroadcastError(s),
             UNCHANGED <<lnVars, call, cfg, restarts>>
      PROVE  TypeOK'
  BY <1>25, FeeAssumption DEF RefundBroadcast, RefundBroadcastError, BroadcastSpend,
     RefundTxOf, RefundTx, RefundKey, SpendTx, Key, WorkerRecord, IdleWorker
<1>26. ASSUME NEW s \in SwapId, RefundRefused(s),
             UNCHANGED <<lnVars, call, cfg, restarts>>
      PROVE  TypeOK'
  BY <1>26 DEF RefundRefused, WorkerRecord, IdleWorker
<1>27. ASSUME NEW s \in SwapId, RefundRecord(s),
             UNCHANGED <<lnVars, call, cfg, restarts>>
      PROVE  TypeOK'
  BY <1>27 DEF RefundRecord, update_swap_status, Stored, SwapRecord, SwapStatus,
     WorkerRecord, IdleWorker
<1>28. CASE CrashRestart
  BY <1>28, RestartAssumption DEF CrashRestart, IdleCall, IdleWorker, CallRecord,
     WorkerRecord
<1>29. CASE Lightning
  BY <1>29 DEF Lightning, PaymentSettles, PaymentFails, SetPayment, PaymentStatus
<1>30. CASE Block
  BY <1>30, MaxTipAssumption DEF Block, Mine
<1>31. ASSUME NEW s \in SwapId, BuyerSpends(s)
      PROVE  TypeOK'
  BY <1>31 DEF BuyerSpends, BroadcastSpend, ClaimTx, RefundTx, SpendTx, Key
<1> QED
  BY <1>1, <1>2, <1>3, <1>4, <1>5, <1>6, <1>7, <1>8, <1>9, <1>10, <1>11, <1>12,
     <1>13, <1>14, <1>15, <1>16, <1>17, <1>18, <1>19, <1>20, <1>21, <1>22, <1>23,
     <1>24, <1>25, <1>26, <1>27, <1>28, <1>29, <1>30, <1>31 DEF Next, Service,
     ServiceNext, CreateNext, PayNext, ClaimNext, Refunds, WorkerNext

\* The server starts in a state of its types.
LEMMA InitType == Init => TypeOK
<1> SUFFICES ASSUME Init PROVE TypeOK
  OBVIOUS
<1> USE DEF Init
<1>1. ChainTypeOK
  BY MaxTipAssumption DEF ChainInit, ChainTypeOK
<1>2. LnTypeOK
  BY DEF LnInit, LnTypeOK, PaymentStatus
<1>3. StoreTypeOK
  BY DEF StoreInit, StoreTypeOK
<1>4. WalletTypeOK
  BY MaxTipAssumption DEF WalletInit, WalletTypeOK
<1>5. ServiceTypeOK
  <2>1. IdleCall \in CallRecord
    BY DEF IdleCall, CallRecord
  <2> QED
    BY <2>1 DEF ServiceInit, ServiceTypeOK
<1>6. WorkerTypeOK
  BY DEF WorkerInit, WorkerTypeOK, WorkerRecord, IdleWorker
<1>7. restarts \in 0..MaxRestarts
  BY RestartAssumption
<1> QED
  BY <1>1, <1>2, <1>3, <1>4, <1>5, <1>6, <1>7 DEF TypeOK

\* A step that changes nothing keeps the types.
LEMMA StutterType == TypeOK /\ UNCHANGED vars => TypeOK'
BY DEF vars, TypeOK, ChainTypeOK, LnTypeOK, StoreTypeOK, WalletTypeOK, ServiceTypeOK,
       WorkerTypeOK

\* A request's locals are there when the code reads them.
LEMMA InitLocals == Init => LocalsInv
BY DEF Init, ServiceInit, IdleCall, LocalsInv, CreatePc, OwnPc, WaitPc

\* Rows, locals and heights stay in their types.
THEOREM TypeCorrect == Spec => []TypeOK
<1>1. TypeOK /\ LocalsInv /\ [Next]_vars => TypeOK' /\ LocalsInv'
  <2>1. TypeOK /\ LocalsInv /\ UNCHANGED vars => TypeOK' /\ LocalsInv'
    BY StutterType DEF vars, LocalsInv
  <2> QED
    BY <2>1, TypeStep, LocalsStep
<1> QED
  BY InitType, InitLocals, <1>1, PTL DEF Spec
=============================================================================
