CONSTANTS
    Block <- MCBlock
    Height <- MCHeight
    Parent <- MCParent
    NoParent = "none"
    Txs <- MCTxs
    Genesis <- MCGenesis
    Template <- MCTemplate
    FeeTree = "F"
    RentPeriod = 2
    Rank <- MCRank
    GidxSpace = 100
    ActivityScanLimit = 2
    TokenCap = 1
    CandidateCap = 5
    BoxSize <- MCBoxSize
    RentPerByte = 5
    IntHalf = 16
    Reemission = "gt"
    HourBlocks = 1
    ScanLimit = 2
    BatchScanLimit = 4
    RentScanCap = 2
    RentPage = 2

    MaxHeight = 3
    Query <- MCQuery
    PageLimit = {1, 2, 3}

SPECIFICATION PagingSpec

INVARIANTS
    PagesExact
    PagesAdvance

PROPERTY
    ExpiresOnlyWhenChanged
