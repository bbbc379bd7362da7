SPECIFICATION FairSpec
CONSTANTS
    IntMax = 3
    Char <- MCChar
    ConcatLimit = 2
    NsPerMs = 2
    MsPerSec = 2
    Requests <- MCAddOnly
    MaxJobs = 1
    MaxThreads = 2
PROPERTY
    DeinitReturns
