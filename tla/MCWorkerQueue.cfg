SPECIFICATION FairSpec
CONSTANTS
    Workers = {w1, w2}
    Jobs = {j1, j2}
    NoJob = NoJob
    Nobody = Nobody
    InitCapacity = 2
    MaxCapacity = 4
INVARIANTS
    TypeOK
    CallbacksExclude
    RingConsistent
    NoLostWakeup
PROPERTIES
    PayloadStable
    ImplementsJobQueue
    DispatchReturns
    DeleteReturns
