CONSTANTS
    Connection = {r1, r2}
    Tx = {t1, t2}
    NoTx = NoTx
    Block = {b1}
    NoBlock = NoBlock
    Wide = {t2}
    Object = {1, 2, 3}
    NoObject = 0
    MaxEntries = 1
    Permits = 1
    CacheTime = 1
    Backoff = 1
    Retention = 1

SYMMETRY MCSymmetry
SPECIFICATION StatusSpec

INVARIANTS
    FlightsSound
    AnswerTrue
    DoubleSpendNoticed
    FreshAfterConfirmed
