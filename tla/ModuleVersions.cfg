\* Versions published, promoted, restored and withdrawn by prompt and slow clients.
SPECIFICATION Spec
CONSTANTS
    a1 = a1
    rc = rc
    b2 = b2
    c3 = c3
    Versions = {a1, rc, b2, c3}
    Precedence <- Ordered
    Prereleases = {rc}
    Legacy = {}
    NoVersion = NoVersion
    Reservations = {r1}
    Clients = {k1}
    NoCommand = NoCommand
    MaxRevision = 5
    MaxModuleRev = 6
CHECK_DEADLOCK FALSE
INVARIANTS
    TypeOK
    DefaultIsCurrent
    ArchivedIsUnreserved
PROPERTIES
    PromotionAdvances
    RestoredHasServed
    AppliesToWhatWasRead
