CONSTANTS
    Block <- MCBlock
    Height <- MCHeight
    Parent <- MCParent
    NoParent = "none"
    Branch <- MCBranch
    Window = 2
    Batch <- MCBatch
    Faults = {}
    Tips = {"a1", "a2", "d2"}
    Siblings = {}
    Withholdable = {}
    Endpoints = {}
    BulkBatch = 2
    BulkConcurrency = 2
    DurableEvery = 2
    TipLagForBulk = 1
    MismatchLimit = 2
    MaxChanges = 2
    MaxCrashes = 0

SPECIFICATION FairIngest

PROPERTY ForkAtGenesisHalts

CHECK_DEADLOCK FALSE
