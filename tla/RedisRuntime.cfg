\* Safety, refinement and liveness: an account with one slot and one with two,
\* two requests, with and without a model.
SPECIFICATION FairSpec
CONSTANTS
    c1 = c1
    c2 = c2
    Creds <- TwoCreds
    Models = {m1}
    NoModel = NoModel
    Reservations = {r1, r2}
    MaxInFlight <- TwoCaps
    LeaseTTL = 2
    CooldownTTL = 1
INVARIANTS
    RuntimeInv
    CapRespected
    ModelCountsWithinAccount
PROPERTIES
    LimiterSpec
    QuietAccountDrains
