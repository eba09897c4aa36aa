\* Two processes, two accounts with one slot each, a request in each process,
\* one of them of a session: rate limits, successes and expiring bindings.
SPECIFICATION Spec
CONSTANTS
    None = None
    c1 = c1
    c2 = c2
    m1 = m1
    m2 = m2
    p1 = p1
    p2 = p2
    q1 = q1
    q2 = q2
    r1 = r1
    r2 = r2
    s1 = s1
    Creds <- TwoCreds
    Models = {m1}
    NoModel = NoModel
    Reservations = {r1, r2}
    MaxInFlight <- CapOne
    LeaseTTL = 2
    CooldownTTL = 1
    Procs = {p1, p2}
    Requests = {q1, q2}
    ProcOf <- OwnProc
    ModelFor <- SameModel
    SessionOf <- OneSession
    Sessions = {s1}
    IdsOf <- OwnProcIds
    Priority <- Prio
    Strategy = "fill-first"
    NoCooling = {c2}
    Outcomes = {"success", "rateLimit"}
    Faults = {"expiry"}
INVARIANTS
    NoOrphanLeases
    LongRequestKeepsLease
PROPERTIES
    BindingSticky
