SPECIFICATION Spec
CONSTANTS
    SwapId = {1}
    QuoteId = {q1}
    BuyerInvoice = {i1}
    BuyerAddress <- BothAddresses
    Offer <- TwoOffers
    MinConfs = {0, 1, 7}
    ClaimFee = {1, 2}
    RefundFee = 1
    None = None
    MaxTip = 3
    Call = {c1, c2}
    Worker = Worker
    MaxRestarts = 1
SYMMETRY Slots
INVARIANTS
    TypeOK
    StoreAgreesWithChain
    PaidOnlyIfConfirmed
    QuotedTermsHonoured
PROPERTIES
    StatusNeverLosesPayment
    ImplementsHtlcSwap
