SPECIFICATION FairSpec
CONSTANTS
    IntMax = 3
    Char <- MCChar
    ConcatLimit = 2
    NsPerMs = 2
    MsPerSec = 2
    Requests <- MCRequests
    c1 = c1
    c2 = c2
    c3 = c3
    Clients <- Pair
    Announced <- MCAnnounced
    Unknown = Unknown
    MaxJobs = 3
    MaxCommands <- TwoOne
    MaxRestarts = 1
PROPERTY
    RequestsAnswered
