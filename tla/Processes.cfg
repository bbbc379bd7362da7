SPECIFICATION FairSpec
CONSTANTS
    ThreadCounts <- MCThreadCounts
    MaxServerSignals = 2
    MaxClientSignals = 2
    MaxRequests = 3
INVARIANTS
    TypeOK
    OneMoreMessage
    ServesOnlyWhenReady
    CleanEnd
    OneMoreRequest
    ClosedBeforeUnload
PROPERTIES
    StopNoticed
    ClientStopNoticed
