CONSTANTS
    Block <- MCBlock
    Height <- MCHeight
    Parent <- MCParent
    NoParent = "none"
    Txs <- MCTxs
    Genesis <- MCGenesis
    Template <- MCTemplate
    FeeTree = "F"
    RentPeriod = 2
    Window = 1
    Batch <- MCBatch
    Ceiling = 4
    Rank <- MCRank
    GidxSpace = 100
    PageSize <- MCPageSize
    ActivityScanLimit = 2
    TokenCap = 6
    CandidateCap = 5
    BoxSize <- MCBoxSize
    RentPerByte = 5
    IntHalf = 16
    Reemission = "gt"
    HourBlocks = 1
    ScanLimit = 2
    BatchScanLimit = 4
    RentScanCap = 2
    RentPage = 2
    RentWindow <- MCRentWindow
    RentFilter <- MCRentFilter

SPECIFICATION Spec

INVARIANTS
    TablesExact
    RollbackRestores
    CapacityRespected
    ReadersExact
    HistoryExact
    RentViewsExact
    SweepClean

PROPERTY
    ImplementsChainStore
