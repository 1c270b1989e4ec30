SPECIFICATION Spec
CONSTANTS
    Requests = {r1, r2, r3}
    MaxKeys = 3
INVARIANTS
    RotationLeavesKey
CHECK_DEADLOCK FALSE
