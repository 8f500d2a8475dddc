CONSTANTS
    Request = {r1}
    Budget <- MCBudget

SPECIFICATION ProcessSpec

INVARIANT
    ExitSound

PROPERTIES
    ShutdownEnds

CHECK_DEADLOCK FALSE
