SPECIFICATION FairSpec
CONSTANTS
    Targets = {t1}
    Workers = {w1}
    MaxRetries = 1
    BatchLimit = 2
    OutboxBatch = 2
    Producers = {"durable", "approval"}
    AckStatuses = {}
    ResultStatuses = {"succeeded"}
    MaxOperatorRetries = 0
    MaxAttempt = 3
    Nobody = Nobody
INVARIANTS
    RetryBudget
    SuccessHasEvidence
PROPERTIES
    
    CancelIsSent
CHECK_DEADLOCK FALSE
