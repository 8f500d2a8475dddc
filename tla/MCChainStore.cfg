CONSTANTS
    Block <- MCBlock
    Height <- MCHeight
    Parent <- MCParent
    NoParent = "none"
    Window = 2
    Batch <- MCBatch
    Faults = {"Corrupt", "RegisterCapacity", "Redb"}

SPECIFICATION Spec

INVARIANTS
    ChainLinked
    UndoRetention
    RollbackExact
    CrashOnlyTruncates

PROPERTY
    SettledKept
