SPECIFICATION FairSpec
CONSTANTS
    Opener = {p1, p2}
    OldSwaps <- SwapsVersions
    OldQuotes <- QuotesVersions
    MaxCrashes = 2
    None = None
CHECK_DEADLOCK FALSE
INVARIANTS
    TypeOK
    OpenedIsComplete
    OldRowsKeepMeaning
PROPERTIES
    NothingLost
    OpensInTheEnd
