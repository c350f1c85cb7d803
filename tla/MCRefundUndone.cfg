SPECIFICATION Spec
CONSTANTS
    SwapId = {1}
    QuoteId = {q1}
    BuyerInvoice = {i1}
    BuyerAddress <- WalletAddress
    Offer <- ShortOffer
    MinConfs = {1}
    ClaimFee = {1}
    RefundFee = 1
    None = None
    MaxTip = 2
    Call = {c1, c2}
    Worker = Worker
    MaxRestarts = 0
PROPERTIES
    RefundedStays
