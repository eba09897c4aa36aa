SPECIFICATION Spec
CONSTANTS
    SystemMode = ""
    DefaultTTL = 1
    HourTTL = 2
    PruneInterval = 2
    MaxScopes = 1
    MaxEntries = 2
    MinTokens = 3
    RatioUnit <- MCRatioUnit
    Requests <- MCRequests
    Workloads <- MCWorkloads
    Reports <- MCReports
    MaxRetries = 1
    MaxToolSearchRounds = 3
    MaxThinkingRounds = 2
    UpstreamReads = {0, 2}
    MaxTime = 2
INVARIANTS
    TypeOK
    PayloadWellFormed
    TextKept
    ReportConsistent
    
PROPERTIES
    ReadsBacked
    WorkRunsOut
CHECK_DEADLOCK FALSE
