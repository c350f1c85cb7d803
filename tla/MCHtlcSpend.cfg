SPECIFICATION FairSpec
CONSTANTS
    SwapId = {1}
    QuoteId = {}
    BuyerInvoice = {i1}
    BuyerAddress <- Foreign
    Offer <- Offers
    MinConfs = {}
    ClaimFee = {1, 3}
    RefundFee = 1
    None = None
    Byte = 4
    MaxPushNum = 1
    NoSpec = NoSpec
    SellAsset <- WithLbtc
    StartTip = {1, 2}
    MaxTip = 4
    LockTimeThreshold = 6
    AssetAmount = 5
    Order <- Orders
    sha256 <- Sha256
    hash160 <- Hash160
CHECK_DEADLOCK FALSE
PROPERTIES
    HtlcIsSpent
INVARIANTS
    TypeOK
    VerdictIsChainRule
    NoRefundBeforeDelta
    RowFindsHtlc
    ParseInvertsBuild
    ParseIsExact
