SPECIFICATION FairSpec
CONSTANTS
    Call = {c1, c2}
    Invoice = {i1, i2}
    PageSize = 2
    MaxOthers = 1
    Other = other
    None = None
INVARIANTS
    TypeOK
    TimedOutUnseen
    StoredIsPaid
PROPERTIES
    WaitsEnd
