-------------------------- MODULE SwapSafetyProofs --------------------------
(***************************************************************************)
(* The server's safety properties, and that it implements HtlcSwap, for any *)
(* numbers of swaps, quotes, requests, blocks and crashes.                 *)
(***************************************************************************)
EXTENDS SwapStepProofs

USE DEF At, Goto, Start, Fail, Lock, Unlock, sync, LockAndSync,
        chainVars, lnVars, storeVars, walletVars

\* The server starts with empty slots, an empty store and nothing on the chain.
LEMMA InitInv == Init => IInv
<1> SUFFICES ASSUME Init PROVE IInv
  OBVIOUS
<1> USE DEF Init, ChainInit, LnInit, StoreInit, WalletInit, ServiceInit, WorkerInit,
            IdleCall, IdleWorker, Stored
<1>1. \A c \in Call : call[c].pc = "idle"
  OBVIOUS
<1>2. Stored = {}
  OBVIOUS
<1>3. TypeOK
  BY InitType
<1>4. LocalsInv /\ FreshInv /\ LinkInv /\ PaymentInv /\ ClaimerInv /\ WaitInv
  BY <1>1
  DEF LocalsInv, FreshInv, LinkInv, PaymentInv, ClaimerInv, WaitInv, CreatePc, PayPc,
      ClaimPc, OwnPc, WaitPc
<1>5. /\ RowsAreBacked /\ QuotedTermsHonoured /\ PreimageIsProof
      /\ StoreAgreesWithChain /\ TxidInv
  BY <1>2 DEF RowsAreBacked, QuotedTermsHonoured, PreimageIsProof,
              StoreAgreesWithChain, TxidInv
<1>6. SpentInv /\ ClaimedOnlyIfPaid /\ PaidOnlyIfConfirmed
  BY DEF SpentInv, ClaimedOnlyIfPaid, PaidOnlyIfConfirmed
<1>7. WorkerInv
  BY DEF WorkerInv, WorkerAt
<1>8. DepthInv
  BY <1>1, <1>2 DEF DepthInv, PayPc, WaitPc
<1> QED
  BY <1>3, <1>4, <1>5, <1>6, <1>7, <1>8 DEF IInv

\* Every step of the server keeps the invariant.
LEMMA NextInv == IInv /\ Next => IInv'
<1> SUFFICES ASSUME IInv, Next PROVE IInv'
  OBVIOUS
<1> USE DEF IInv
<1>1. TypeOK'
  BY TypeStep
<1>2. LocalsInv' /\ FreshInv'
  BY LocalsStep, FreshStep
<1>3. LinkInv' /\ RowsAreBacked' /\ QuotedTermsHonoured'
  BY LinkStep, RowsStep, TermsStep
<1>4. PaymentInv' /\ PreimageIsProof'
  BY PaymentStep, PreimageStep
<1>5. SpentInv' /\ ClaimerInv' /\ WorkerInv'
  BY SpentStep, ClaimerStep, WorkerStep
<1>6. ClaimedOnlyIfPaid' /\ StoreAgreesWithChain' /\ TxidInv'
  BY ClaimedStep, AgreesStep, TxidStep
<1>7. WaitInv' /\ DepthInv' /\ PaidOnlyIfConfirmed'
  BY <1>1, WaitStep, DepthStep, PaidStep
<1> QED
  BY <1>1, <1>2, <1>3, <1>4, <1>5, <1>6, <1>7

\* So does a step that changes nothing of it.
LEMMA StutterInv == IInv /\ UNCHANGED vars => IInv'
<1> SUFFICES ASSUME IInv, UNCHANGED vars PROVE IInv'
  OBVIOUS
<1> USE DEF vars, Stored
<1>1. TypeOK'
  BY StutterType DEF IInv
<1>2. LocalsInv' /\ LinkInv' /\ WaitInv'
  BY DEF IInv, LocalsInv, LinkInv, WaitInv
<1>3. FreshInv'
  BY DEF IInv, FreshInv, FundedSpec
<1>4. RowsAreBacked' /\ QuotedTermsHonoured' /\ PreimageIsProof' /\ TxidInv'
  BY DEF IInv, RowsAreBacked, QuotedTermsHonoured, PreimageIsProof, TxidInv
<1>5. PaymentInv' /\ SpentInv' /\ ClaimedOnlyIfPaid' /\ StoreAgreesWithChain'
  BY DEF IInv, PaymentInv, SpentInv, ClaimedOnlyIfPaid, StoreAgreesWithChain
<1>6. ClaimerInv'
  BY DEF IInv, ClaimerInv, ClaimTxOf, ClaimKey
<1>7. WorkerInv'
  BY DEF IInv, WorkerInv, WorkerAt, IsNext, RefundTxOf, RefundKey
<1>8. DepthInv' /\ PaidOnlyIfConfirmed'
  BY DEF IInv, DepthInv, Deep, Depth, PaidOnlyIfConfirmed
<1> QED
  BY <1>1, <1>2, <1>3, <1>4, <1>5, <1>6, <1>7, <1>8 DEF IInv

\* The invariant holds throughout: in every order of requests, worker passes,
\* blocks, payments, lost replies and crashes.
THEOREM Invariance == Spec => []IInv
<1>1. IInv /\ [Next]_vars => IInv'
  BY NextInv, StutterInv
<1> QED
  BY InitInv, <1>1, PTL DEF Spec

\* A claim on the chain has its payment: create_asset_claim never gives the asset
\* away for a payment that failed or is still under way.
THEOREM ClaimsArePaid == Spec => []ClaimedOnlyIfPaid
<1>1. IInv => ClaimedOnlyIfPaid
  BY DEF IInv
<1> QED
  BY Invariance, <1>1, PTL

\* The store is right about how each HTLC ended, with the claim and the worker
\* racing for it and a crash after either broadcast.
THEOREM StoreIsRight == Spec => []StoreAgreesWithChain
<1>1. IInv => StoreAgreesWithChain
  BY DEF IInv
<1> QED
  BY Invariance, <1>1, PTL

\* Every row insert_swap wrote has the HTLC it describes on the network.
THEOREM RowsBacked == Spec => []RowsAreBacked
<1>1. IInv => RowsAreBacked
  BY DEF IInv
<1> QED
  BY Invariance, <1>1, PTL

\* What create_asset_claim and the refund worker build from a row opens its HTLC.
THEOREM RowsOpenTheirHtlc == Spec => []RowsAreSpendable
<1>1. IInv => RowsAreSpendable
  BY RowsSpendable DEF IInv
<1> QED
  BY Invariance, <1>1, PTL

\* create_lightning_payment pays only against funding as deep as was quoted.
THEOREM PaymentsAreConfirmed == Spec => []PaidOnlyIfConfirmed
<1>1. IInv => PaidOnlyIfConfirmed
  BY DEF IInv
<1> QED
  BY Invariance, <1>1, PTL

\* A swap has its quote's terms, over a restart with another offer too.
THEOREM TermsAreKept == Spec => []QuotedTermsHonoured
<1>1. IInv => QuotedTermsHonoured
  BY DEF IInv
<1> QED
  BY Invariance, <1>1, PTL

\* A preimage in the store is from a payment of its own invoice that went through.
THEOREM PreimagesAreProofs == Spec => []PreimageIsProof
<1>1. IInv => PreimageIsProof
  BY DEF IInv
<1> QED
  BY Invariance, <1>1, PTL

\* No write of a status undoes a payment, a claim or a refund.
THEOREM StatusIsMonotone == Spec => StatusNeverLosesPayment
<1>1. IInv /\ [Next]_vars => [StatusMoves]_vars
  BY StatusStep DEF IInv
<1> QED
  BY Invariance, <1>1, PTL DEF Spec, StatusNeverLosesPayment

\* HtlcSwap speaks of the same invoices and scripts as the server.
LEMMA SameTypes == Abstract!Invoice = Invoice /\ Abstract!HtlcSpec = HtlcSpec
BY DEF Invoice, HtlcSpec, Key, BuyerKey, OtherKey, SellerKey,
       Abstract!Invoice, Abstract!HtlcSpec, Abstract!Key,
       Abstract!BuyerKey, Abstract!OtherKey, Abstract!SellerKey

\* What a swap's end is, once it has one.
LEMMA OutcomeOf ==
  ASSUME TypeOK, NEW s \in SwapId
  PROVE  /\ Outcome(s) = "open" <=> spend[s] = None
         /\ Outcome(s) = "claimed" <=> (spend[s] # None /\ spend[s].path = "claim")
         /\ Outcome(s) = "refunded" <=> (spend[s] # None /\ spend[s].path = "refund")
<1>1. spend[s] # None => spend[s].path \in {"claim", "refund"}
  BY DEF TypeOK, ChainTypeOK, SpendTx
<1> QED
  BY <1>1 DEF Outcome

\* The funding broadcast of create_swap locks the asset.
LEMMA FundImplements ==
  ASSUME IInv, NEW c \in Call, CreateFund(c) \/ CreateFundError(c),
         UNCHANGED <<tip, spend, payment>>
  PROVE  Abstract!LockAsset(call[c].swap) /\ call[c].swap \in SwapId
<1>1. call[c].swap \in SwapId /\ htlc[call[c].swap] = None
  BY DEF IInv, CreateFund, CreateFundError, LocalsInv, FreshInv, OwnPc, CreatePc
<1>2. FundedSpec(c) \in HtlcSpec
  <2>1. /\ call[c].invoice \in Invoice
        /\ call[c].address \in BuyerAddress
        /\ call[c].lock \in Nat
    BY DEF IInv, CreateFund, CreateFundError, LocalsInv, OwnPc, CreatePc, TypeOK,
           ServiceTypeOK, CallRecord
  <2> QED
    BY <2>1, SpecType DEF FundedSpec
<1>3. htlc' = [htlc EXCEPT ![call[c].swap] = FundedSpec(c)]
  BY DEF CreateFund, CreateFundError, BroadcastFunding
<1>4. htlc'[call[c].swap] = FundedSpec(c)
  BY <1>1, <1>3 DEF IInv, TypeOK, ChainTypeOK
<1>5. [s \in SwapId |-> Outcome(s)]' = [s \in SwapId |-> Outcome(s)]
  BY DEF Outcome
<1>6. ASSUME NEW s \in SwapId, s = call[c].swap
      PROVE  Abstract!LockAsset(s)
  <2>1. htlc[s] = None
    BY <1>1, <1>6
  <2>2. htlc'[s] \in Abstract!HtlcSpec
    BY <1>2, <1>4, <1>6, SameTypes
  <2>3. htlc' = [htlc EXCEPT ![s] = htlc'[s]]
    BY <1>3, <1>4, <1>6
  <2> QED
    BY <2>1, <2>2, <2>3, <1>5 DEF Abstract!LockAsset
<1> QED
  BY <1>1, <1>6

\* A spend, of the server's or of a buyer's, is a claim, a refund, or one that
\* is in the mempool already.
LEMMA SpendImplements ==
  ASSUME IInv, IInv', Next,
         \/ \E c \in Call : ClaimBroadcast(c) \/ ClaimBroadcastError(c)
         \/ \E s \in SwapId : \/ RefundBroadcast(s) \/ RefundBroadcastError(s)
                              \/ BuyerSpends(s),
         UNCHANGED <<tip, htlc, payment>>
  PROVE  \/ \E s \in SwapId : Abstract!Claim(s) \/ Abstract!Refund(s)
         \/ UNCHANGED Abstract!abstractVars
<1> DEFINE before == [s \in SwapId |-> Outcome(s)]
           after == [s \in SwapId |-> Outcome(s)']
<1>1. PICK s \in SwapId : \A t \in SwapId : t # s => spend'[t] = spend[t]
  <2>1. \E s, tx : spend' = [spend EXCEPT ![s] = tx]
    BY DEF ClaimBroadcast, ClaimBroadcastError, RefundBroadcast, RefundBroadcastError,
           BuyerSpends, BroadcastSpend
  <2> QED
    BY <2>1 DEF IInv, TypeOK, ChainTypeOK
<1>2. \A t \in SwapId : t # s => after[t] = before[t]
  BY <1>1 DEF Outcome
<1>3. SpendStep(s)
  BY SpendsAreFinal DEF IInv
<1>4. CASE spend'[s] = spend[s]
  <2>1. after = before
    BY <1>2, <1>4 DEF Outcome
  <2> QED
    BY <2>1 DEF Abstract!abstractVars
<1>5. CASE spend'[s] # spend[s]
  <2>1. /\ spend[s] = None
        /\ htlc[s] # None
        /\ spend'[s] # None
    BY <1>3, <1>5 DEF SpendStep
  <2>2. before[s] = "open"
    BY <2>1, OutcomeOf DEF IInv
  <2>3. after = [before EXCEPT ![s] = Outcome(s)']
    BY <1>2
  <2>4. CASE spend'[s].path = "claim"
    <3>1. Outcome(s)' = "claimed"
      BY <2>1, <2>4 DEF Outcome
    <3>2. payment[htlc[s].payment_hash] = "succeeded"
      BY <2>1, <2>4 DEF IInv, ClaimedOnlyIfPaid
    <3> QED
      BY <2>1, <2>2, <2>3, <3>1, <3>2 DEF Abstract!Claim
  <2>5. CASE spend'[s].path # "claim"
    <3>1. Outcome(s)' = "refunded"
      BY <2>1, <2>5 DEF Outcome
    <3>2. tip >= htlc[s].refund_lock_height
      BY <1>3, <1>5, <2>5 DEF SpendStep, ClaimPathValid, RefundPathValid
    <3> QED
      BY <2>1, <2>2, <2>3, <3>1, <3>2 DEF Abstract!Refund
  <2> QED
    BY <2>4, <2>5
<1> QED
  BY <1>4, <1>5

\* A payment starts against the HTLC of the row it is for; how it ends is the
\* network's.
LEMMA PayImplements ==
  ASSUME IInv, Lightning \/ \E c \in Call : PaySend(c) \/ PaySendError(c),
         UNCHANGED <<tip, htlc, spend>>
  PROVE  \E i \in Invoice : Abstract!StartPayment(i) \/ Abstract!EndPayment(i)
<1>1. [s \in SwapId |-> Outcome(s)]' = [s \in SwapId |-> Outcome(s)]
  BY DEF Outcome
<1>2. CASE Lightning
  BY <1>1, <1>2 DEF Lightning, PaymentSettles, PaymentFails, SetPayment, Abstract!EndPayment
<1>3. ASSUME NEW c \in Call, PaySend(c) \/ PaySendError(c)
      PROVE  Abstract!StartPayment(call[c].invoice) /\ call[c].invoice \in Invoice
  <2> DEFINE s == call[c].swap
             i == call[c].invoice
  <2>1. /\ payment[i] \in {"none", "failed"}
        /\ payment' = [payment EXCEPT ![i] = "pending"]
        /\ call[c].pc \in PayPc
    BY <1>3 DEF PaySend, PaySendError, SetPayment, Sendable, PayPc
  <2>2. s \in Stored /\ i = swaps[s].bolt11_invoice
    BY <2>1 DEF IInv, PaymentInv
  <2>3. /\ s \in SwapId
        /\ i \in Invoice
        /\ swaps[s].buyer_liquid_address \in BuyerAddress
        /\ swaps[s].refund_lock_height \in Nat
    BY <2>2 DEF IInv, TypeOK, StoreTypeOK, Stored, SwapRecord
  <2>4. htlc[s] = HtlcSpecFor(swaps[s].direction, i, swaps[s].buyer_liquid_address,
                              swaps[s].refund_lock_height)
    BY <2>2 DEF IInv, RowsAreBacked
  <2>5. htlc[s] # None
    BY <2>3, <2>4, SpecType
  <2>6. htlc[s].payment_hash = i
    BY <2>4 DEF HtlcSpecFor
  <2> HIDE DEF s, i
  <2> QED
    BY <1>1, <2>1, <2>3, <2>5, <2>6 DEF Abstract!StartPayment, i
<1> QED
  BY <1>2, <1>3

\* Each step of the server is a step of HtlcSwap or changes nothing it speaks of.
LEMMA StepImplements ==
  ASSUME IInv, IInv', [Next]_vars
  PROVE  [Abstract!Next]_(Abstract!abstractVars)
<1>1. CASE UNCHANGED <<tip, htlc, spend, payment>>
  <2>1. [s \in SwapId |-> Outcome(s)]' = [s \in SwapId |-> Outcome(s)]
    BY <1>1 DEF Outcome
  <2> QED
    BY <1>1, <2>1 DEF Abstract!abstractVars
<1>2. ASSUME Next, NEW c \in Call, CreateFund(c) \/ CreateFundError(c),
             UNCHANGED <<tip, spend, payment>>
      PROVE  Abstract!Next
  BY <1>2, FundImplements DEF Abstract!Next
<1>3. ASSUME Next,
             \/ \E c \in Call : ClaimBroadcast(c) \/ ClaimBroadcastError(c)
             \/ \E s \in SwapId : \/ RefundBroadcast(s) \/ RefundBroadcastError(s)
                                  \/ BuyerSpends(s),
             UNCHANGED <<tip, htlc, payment>>
      PROVE  [Abstract!Next]_(Abstract!abstractVars)
  BY <1>3, SpendImplements DEF Abstract!Next
<1>4. ASSUME Next, Lightning \/ \E c \in Call : PaySend(c) \/ PaySendError(c),
             UNCHANGED <<tip, htlc, spend>>
      PROVE  Abstract!Next
  BY <1>4, PayImplements, SameTypes DEF Abstract!Next
<1>5. ASSUME Next, Block, UNCHANGED <<htlc, spend, payment>>
      PROVE  Abstract!Next
  <2>1. [s \in SwapId |-> Outcome(s)]' = [s \in SwapId |-> Outcome(s)]
    BY <1>5 DEF Outcome
  <2> QED
    BY <1>5, <2>1 DEF Block, Mine, Abstract!Next, Abstract!Tick
<1>6. CASE UNCHANGED vars
  BY <1>1, <1>6 DEF vars
<1> QED
  BY <1>1, <1>2, <1>3, <1>4, <1>5, <1>6, WhoWrites DEF Writers

\* The server implements the swap of HtlcSwap: each asset is locked once and
\* ends once, by a claim its payment went through for or by a refund at its
\* height, and payments start only against a lock.
THEOREM Implementation == Spec => ImplementsHtlcSwap
<1>1. Init => Abstract!Init
  BY SameTypes DEF Init, ChainInit, LnInit, Outcome, Abstract!Init
<1>2. IInv /\ IInv' /\ [Next]_vars => [Abstract!Next]_(Abstract!abstractVars)
  BY StepImplements
<1> QED
  BY <1>1, <1>2, Invariance, PTL DEF Spec, ImplementsHtlcSwap, Abstract!Spec
=============================================================================
