CONSTANTS
    QueueCapacity = 3
    CriticalReserve = 1
    BatchSize = 2
    MaxAttempts = 2
    MaxRecords = 4
    STOP = STOP
SPECIFICATION Spec
INVARIANTS AcceptedInOrder AdmissionAccounted LedgerFaithful CleanCloseDrains
PROPERTY EveryRecordSettled
