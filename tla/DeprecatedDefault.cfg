\* The Default is deprecated by hand and its Module keeps pointing at it.
SPECIFICATION Spec
CONSTANTS
    a1 = a1
    rc = rc
    b2 = b2
    c3 = c3
    Versions = {a1, rc, b2, c3}
    Precedence <- Ordered
    Prereleases = {rc}
    Legacy = {}
    NoVersion = NoVersion
    Reservations = {r1}
    Clients = {}
    NoCommand = NoCommand
    MaxRevision = 5
    MaxModuleRev = 4
CHECK_DEADLOCK FALSE
INVARIANT
    PointerNamesDefault
