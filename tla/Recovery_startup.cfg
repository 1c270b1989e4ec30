SPECIFICATION AllSpec
CONSTANTS
    r1 = r1
    r2 = r2
    x1 = x1
    x2 = x2
    x3 = x3
    Dead = Dead
    None = None
    Targets <- OneTarget
    MaxAttempt = 1
    Copies = {1}
    Threads <- TwoThreads
    Timed <- OneTarget
    MaxFaults = 1
    Settings = {"startup"}
INVARIANTS
    MigrationsApply
CHECK_DEADLOCK FALSE
