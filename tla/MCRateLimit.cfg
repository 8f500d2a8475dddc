CONSTANTS
    Caller = {r1, r2}
    Key = {k1, k2, k3}
    NoKey = NoKey
    Cost = 3
    Burst = 1
    Second = 2
    MaxBuckets = 2
    SweepEvery = 2
    IdleFor = 1
    MaxDelay = 2
    MaxTime = 6

SYMMETRY MCSymmetry
SPECIFICATION LimitSpec
CHECK_DEADLOCK FALSE

INVARIANTS
    NeverStricter
    RetryHonoured
