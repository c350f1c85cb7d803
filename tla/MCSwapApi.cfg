SPECIFICATION Spec
CONSTANTS
    QuoteId = {q1}
    SwapId = {s1}
    BadId = BadId
    EmptyId = EmptyId
    Token = {Blank, t1, t2}
    Blank = Blank
    Offer <- Offers
    Asset = {"token", "other"}
    Amount = {0, 1, 3, 6}
    Confs = {1, 7}
    InvoiceMsat = {2}
    Fee = {0, 1}
    Stock = 3
    U64Max = 15
    I64Max = 7
    None = None
SYMMETRY Tokens
INVARIANTS
    TypeOK
    AnswersAgree
    PricesAreExact
    QuotesAreServed
PROPERTIES
    EffectsOnlyByRole
