CONSTANTS
    None = None
    a1 = a1
    a2 = a2
    poller = poller
    server = server
    Ids = {a1, a2}
    Initial = {a1}
    Rotating = {a1}
    Workers = {poller, server}
    Duties <- MCDuties
    Imports <- MCImports
    MaxObjs = 4
    MaxToken = 1
    MaxSaves = 2
    MaxEdits = 1
    MaxFaults = 1
    MaxEvents = 3
    Faults = {"store", "lost", "net", "crash", "ban"}
SPECIFICATION Spec
INVARIANT TypeOK
 
INVARIANT NewestTokenKept
PROPERTY DisabledSticks
PROPERTY BannedGetsDisabled
