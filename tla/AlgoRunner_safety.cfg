SPECIFICATION Spec
CONSTANTS
    IntMax = 3
    Char <- MCChar
    ConcatLimit = 2
    NsPerMs = 2
    MsPerSec = 2
    Requests <- MCRequests
    MaxJobs = 3
    MaxThreads = 2
INVARIANTS
    TypeOK
    ExactlyOnePlace
    HeldOutcomesIntact
    NoLostWakeup
    NoWorkerAfterFree
PROPERTY
    ImplementsJobStore
