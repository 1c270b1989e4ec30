SPECIFICATION Spec
CONSTANTS
    t1 = t1
    t2 = t2
    r1 = r1
    r2 = r2
    single = single
    Nobody = Nobody
SYMMETRY Interchangeable
INVARIANTS
    TypeOK
    FinishedIsAggregate
    PatchBudget
    CanaryFirst
    DeadlineIsBoundary
CHECK_DEADLOCK FALSE
