SPECIFICATION FairSpec
CONSTANTS
    SwapId = {1, 2}
    QuoteId = {q1}
    BuyerInvoice = {i1}
    BuyerAddress <- BothAddresses
    Offer <- ShortOffer
    MinConfs = {1}
    ClaimFee = {1}
    RefundFee = 1
    None = None
    MaxTip = 2
    Call = {c1}
    Worker = Worker
    MaxRestarts = 0
PROPERTIES
    ExpiredIsRefunded
