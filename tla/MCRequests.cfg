CONSTANTS
    Request = {r1, r2}
    Budget <- MCBudget
    Observer = {o1, o2}
    MaxPool = 1

SPECIFICATION RequestsSpec

INVARIANT
    ReadsBounded

PROPERTY
    MempoolFresh

CHECK_DEADLOCK FALSE
