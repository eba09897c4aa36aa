SPECIFICATION Spec
CONSTANTS
    None = None
    k1 = k1
    k2 = k2
    s1 = s1
    s2 = s2
    r1 = r1
    r2 = r2
    KeyIds <- MCKeyIds
    Secrets <- MCSecrets
    Initial <- MCInitial
    Requests <- MCRequests
    Answers <- MCAnswers
    EarlyReturns = {"invalid_request"}
    Quotas = {0, 2}
    Expiries = {1}
    RingSize = 2
    BufferSize = 1
    LegacyKey = TRUE
    MaxTokens = 1
    MaxTraces = 3
    MaxTime = 1
    MaxEdits = 1
    MaxFaults = 1
    MaxEvents = 3
INVARIANTS
    TypeOK
    SettingsSurvive
    ChargesAddUp
    OvershootBounded
    ShutdownDrains
    
    
    
    
SYMMETRY Symmetry
CHECK_DEADLOCK FALSE
