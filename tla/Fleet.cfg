SPECIFICATION Spec
CONSTANTS
    e1 = e1
    e2 = e2
    x1 = x1
    x2 = x2
    x3 = x3
    None = None
INVARIANTS
    TypeOK
    OneOpenAlert
    FindingToldOnce
    PolicyIsTrue
    RecordsAreWhole

    
CHECK_DEADLOCK FALSE
