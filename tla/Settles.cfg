SPECIFICATION FairSpec
CONSTANTS
    r1 = r1
    asker = asker
    u1 = u1
    u2 = u2
    None = None
PROPERTIES
    WorkSettles
CHECK_DEADLOCK FALSE
