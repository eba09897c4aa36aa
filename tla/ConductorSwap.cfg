\* docs/pgredis-complete-migration-audit.zh-CN.md, item 8, on long requests: one
\* process, one account with two slots, two requests for the same model.
SPECIFICATION Spec
CONSTANTS
    None = None
    c1 = c1
    c2 = c2
    m1 = m1
    m2 = m2
    p1 = p1
    p2 = p2
    q1 = q1
    q2 = q2
    r1 = r1
    r2 = r2
    s1 = s1
    Creds <- OneCred
    Models = {m1}
    NoModel = NoModel
    Reservations = {r1, r2}
    MaxInFlight <- CapTwo
    LeaseTTL = 2
    CooldownTTL = 1
    Procs = {p1}
    Requests = {q1, q2}
    ProcOf <- SameProc
    ModelFor <- SameModel
    SessionOf <- NoSession
    Sessions = {}
    IdsOf <- SameProcIds
    Priority <- Prio
    Strategy = "fill-first"
    NoCooling = {}
    Outcomes = {"other"}
    Faults = {}
INVARIANTS
    LongRequestKeepsLease
