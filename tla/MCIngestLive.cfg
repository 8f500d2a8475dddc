CONSTANTS
    Block <- MCBlock
    Height <- MCHeight
    Parent <- MCParent
    NoParent = "none"
    Branch <- MCBranch
    Window = 2
    Batch <- MCBatch
    Faults = {}
    Tips = {"a2", "a3", "b3", "b4"}
    Siblings = {"c3", "b2"}
    Withholdable = {"a2"}
    Endpoints = {"header", "info"}
    BulkBatch = 2
    BulkConcurrency = 2
    DurableEvery = 2
    TipLagForBulk = 1
    MismatchLimit = 2
    MaxChanges = 4
    MaxCrashes = 0

SPECIFICATION FairIngest

PROPERTIES
    Converges
    NoSilentFreeze
    OutageShown

CHECK_DEADLOCK FALSE
