SPECIFICATION Spec
CONSTANTS
    Targets = {t1}
    Workers = {w1, w2}
    MaxRetries = 0
    BatchLimit = 2
    OutboxBatch = 1
    Producers = {"durable","api","patch","approval","device"}
    AckStatuses = {"accepted"}
    ResultStatuses = {"succeeded"}
    MaxOperatorRetries = 1
    MaxAttempt = 2
    Nobody = Nobody
SYMMETRY Interchangeable
INVARIANTS
    TypeOK
    PublishedRowWasSent
    
    CancelIsDurable
PROPERTY
    ImplementsOutcomes
CHECK_DEADLOCK FALSE
