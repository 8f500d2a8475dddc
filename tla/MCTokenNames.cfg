CONSTANTS
    Block <- MCBlock
    Height <- MCHeight
    Parent <- MCParent
    NoParent = "none"
    Window = 1
    Batch <- MCBatch
    Faults = {}
    Mint <- MCMint
    Fold <- MCFold
    Oversized = {6}
    MaxRows = 2
    SearchFor <- MCSearchFor

SPECIFICATION NamesSpec

INVARIANTS
    NamesExact
    SearchExact

PROPERTY
    NamesBuilt
