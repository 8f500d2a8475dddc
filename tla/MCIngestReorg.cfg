CONSTANTS
    Block <- MCBlock
    Height <- MCHeight
    Parent <- MCParent
    NoParent = "none"
    Branch <- MCBranch
    Window = 2
    Batch <- MCBatch
    Faults = {"Redb", "Corrupt", "RegisterCapacity"}
    Tips = {"none", "a2", "a4", "b3", "b4", "c3"}
    Siblings = {"c3", "b2"}
    Withholdable = {"a4"}
    Endpoints = {"genesis", "info", "header", "body", "decode"}
    BulkBatch = 2
    BulkConcurrency = 2
    DurableEvery = 3
    TipLagForBulk = 1
    MismatchLimit = 2
    MaxChanges = 4
    MaxCrashes = 1

SPECIFICATION SpecIngest

INVARIANTS
    CrashLossBound
    ReindexOnlyBelowFloor
    StatusFresh
    StallAhead

CHECK_DEADLOCK FALSE
