SPECIFICATION FairSpec
CONSTANTS
    Jobs <- OneJob
    Workers = {w1, w2, w3}
    None = None
    MaxAttempts = 3
    Lease = 3
    ReclaimRunning = TRUE
    MaxFaults = 2
INVARIANTS UniqueAttempt LeaseExclusion SoleWorker
PROPERTIES RefinesLedger RefinesBoard EventuallySettles
CHECK_DEADLOCK FALSE
