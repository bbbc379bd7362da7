SPECIFICATION Spec
CONSTANTS
    IntMax = 3
    Char <- MCChar
    ConcatLimit = 2
    NsPerMs = 2
    MsPerSec = 2
    Requests <- MCRequests
    c1 = c1
    c2 = c2
    c3 = c3
    Clients <- Alone
    Announced <- MCAnnounced
    Unknown = Unknown
    MaxJobs = 4
    MaxCommands <- FourEach
    MaxRestarts = 1
INVARIANT
    GetReadsItsOwnAnswer
