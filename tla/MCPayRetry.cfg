SPECIFICATION Spec
CONSTANTS
    Call = {c1}
    Invoice = {i1}
    PageSize = 2
    MaxOthers = 0
    Other = other
    None = None
PROPERTIES
    PaidIsReturned
