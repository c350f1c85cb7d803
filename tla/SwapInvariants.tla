--------------------------- MODULE SwapInvariants ---------------------------
(***************************************************************************)
(* The inductive invariant of the server: what the locals of a request, a  *)
(* row, an HTLC and a payment always have to do with each other.           *)
(***************************************************************************)
EXTENDS SwapRefinement

\* The requests that hold a swap id no one else knows, up to insert_swap.
OwnPc == {"create_invoice", "create_lock", "create_fund", "create_insert"}
\* CreateSwap between its row and the end of its wait.
WaitPc == {"create_link", "create_wait", "create_check", "create_confirmed"}

\* The locals a handler has read or chosen by now.
LocalsInv ==
    \A c \in Call :
        /\ call[c].pc \in CreatePc =>
              /\ call[c].quote \in QuoteId
              /\ quotes[call[c].quote] # None
              /\ call[c].address \in BuyerAddress
        /\ call[c].pc \in CreatePc \ {"create_validate"} => call[c].swap \in SwapId
        /\ (call[c].pc \in OwnPc \cup WaitPc /\ ~At(c, "create_invoice"))
              => call[c].invoice \in Invoice
        /\ call[c].pc \in OwnPc => quotes[call[c].quote].offer_id = cfg

\* A swap id is one request's own until its row is inserted; its HTLC is absent
\* before the funding broadcast and the one it asked for after it.
FreshInv ==
    \A c \in Call :
        call[c].pc \in OwnPc =>
            /\ call[c].swap \notin Stored
            /\ \A d \in Call : call[d].swap = call[c].swap => d = c
            /\ htlc[call[c].swap] = IF At(c, "create_insert") THEN FundedSpec(c) ELSE None

\* A request that waits for its funding has a row, made from its quote.
LinkInv ==
    \A c \in Call :
        call[c].pc \in WaitPc =>
            /\ call[c].swap \in Stored
            /\ swaps[call[c].swap].quote_id = call[c].quote

\* Payers and claimers work on a stored swap with its invoice; who holds a
\* preimage holds it from a payment that went through.
PaymentInv ==
    \A c \in Call :
        /\ call[c].pc \in PayPc \cup ClaimPc =>
              /\ call[c].swap \in Stored
              /\ call[c].invoice = swaps[call[c].swap].bolt11_invoice
        /\ (call[c].pc \in ClaimPc \/ At(c, "pay_persist"))
              => payment[call[c].invoice] = "succeeded"
        /\ call[c].pc \in ClaimPc => swaps[call[c].swap].ln_preimage_hex # None

\* Only what is on the chain is spent.
SpentInv == \A s \in SwapId : spend[s] # None => htlc[s] # None

\* A request about to record a claim has it on the chain.
ClaimerInv ==
    \A c \in Call :
        At(c, "claim_persist") =>
            /\ call[c].swap \in Stored
            /\ spend[call[c].swap] = ClaimTxOf(c)

\* The worker works on rows; what it is about to record is on the chain.
WorkerInv ==
    /\ worker.due \subseteq Stored
    /\ \A s \in SwapId :
          (WorkerAt("record") /\ IsNext(s)) => spend[s] = RefundTxOf(s)

\* The txid of a claim is a claim's, never the refund's.
TxidInv ==
    \A s \in Stored : swaps[s].claim_txid # None => swaps[s].claim_txid.path = "claim"

\* Until a request has waited for its funding, its swap is not Funded, so that
\* no one pays it and no one else waits for it.
WaitInv ==
    \A c \in Call :
        call[c].pc \in WaitPc =>
            /\ swaps[call[c].swap].status \in {"Created", "Refunded"}
            /\ swaps[call[c].swap].ln_preimage_hex = None
            /\ \A d \in Call :
                  (d # c /\ call[d].pc \in WaitPc \cup PayPc \cup ClaimPc)
                      => call[d].swap # call[c].swap

\* The wallet's tip and the heights never run ahead of the chain; a swap that
\* was found Funded is as deep as its quote asks.
Deep(s) == Depth(s) >= swaps[s].min_funding_confs
DepthInv ==
    /\ walletTip <= tip
    /\ \A s \in SwapId : height[s] <= tip
    /\ \A c \in Call :
          /\ (call[c].pc \in PayPc \/ At(c, "create_confirmed")) => Deep(call[c].swap)
          /\ call[c].pc \in WaitPc =>
                swaps[call[c].swap].min_funding_confs
                    = quotes[call[c].quote].min_funding_confs
    /\ \A s \in Stored :
          swaps[s].status \in {"Funded", "Paid", "Claimed"} \/ swaps[s].ln_preimage_hex # None
              => Deep(s)

\* The inductive invariant.
IInv ==
    /\ TypeOK
    /\ LocalsInv
    /\ FreshInv
    /\ LinkInv
    /\ RowsAreBacked
    /\ QuotedTermsHonoured
    /\ PaymentInv
    /\ PreimageIsProof
    /\ SpentInv
    /\ ClaimerInv
    /\ WorkerInv
    /\ ClaimedOnlyIfPaid
    /\ StoreAgreesWithChain
    /\ TxidInv
    /\ WaitInv
    /\ DepthInv
    /\ PaidOnlyIfConfirmed
=============================================================================
