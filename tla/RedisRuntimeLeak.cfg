\* README.md, Scheduling, on crashed requests: one account, two slots.
SPECIFICATION FairSpec
CONSTANTS
    c1 = c1
    c2 = c2
    Creds <- OneCred
    Models = {m1}
    NoModel = NoModel
    Reservations = {r1, r2}
    MaxInFlight <- OneCap
    LeaseTTL = 2
    CooldownTTL = 0
PROPERTIES
    CrashedCapacityReturns
