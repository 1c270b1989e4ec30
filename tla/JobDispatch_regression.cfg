SPECIFICATION Spec
CONSTANTS
    Targets = {t1}
    Workers = {w1}
    MaxRetries = 2
    BatchLimit = 2
    OutboxBatch = 1
    Producers = {"durable"}
    AckStatuses = {}
    ResultStatuses = {}
    MaxOperatorRetries = 0
    MaxAttempt = 4
    Nobody = Nobody
PROPERTY
    AttemptNeverRegresses
CHECK_DEADLOCK FALSE
