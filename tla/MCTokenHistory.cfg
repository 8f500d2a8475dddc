CONSTANTS
    Block <- MCBlock
    Height <- MCHeight
    Parent <- MCParent
    NoParent = "none"
    Window = 1
    Batch <- MCBatch
    Faults = {}
    Token = {1, 2}
    Txs <- MCTxs
    TokensOf <- MCTokensOf
    GenesisBoxes = {5}
    Oversized = {6}
    MaxRows = 2

SPECIFICATION FairHistorySpec

INVARIANTS
    RebuildSound

PROPERTIES
    ProgressKept
    Rebuilt
