SPECIFICATION FairSpec
CONSTANTS
    ThreadCounts <- MCThreadCounts
    MaxServerSignals = 2
    MaxClientSignals = 2
    MaxRequests = 3
PROPERTY
    SignalStopsServer
