\* One process, one account with one slot, two requests for it; rejected tokens,
\* other failures, failing Redis calls and clients that leave.
SPECIFICATION FairSpec
CONSTANTS
    None = None
    c1 = c1
    c2 = c2
    m1 = m1
    m2 = m2
    p1 = p1
    p2 = p2
    q1 = q1
    q2 = q2
    r1 = r1
    r2 = r2
    s1 = s1
    Creds <- OneCred
    Models = {m1}
    NoModel = NoModel
    Reservations = {r1, r2}
    MaxInFlight <- CapOne
    LeaseTTL = 2
    CooldownTTL = 1
    Procs = {p1}
    Requests = {q1, q2}
    ProcOf <- SameProc
    ModelFor <- SameModel
    SessionOf <- NoSession
    Sessions = {}
    IdsOf <- SameProcIds
    Priority <- Prio
    Strategy = "least-inflight"
    NoCooling = {}
    Outcomes = {"authError", "other"}
    Faults = {"client", "redis"}
PROPERTIES
    GrantedRequestEnds
    QuietMeansDrained
