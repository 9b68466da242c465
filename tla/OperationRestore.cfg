\* A restoration after somebody else promoted the operation's target.
SPECIFICATION OpSpec
CONSTANTS
    a1 = a1
    b2 = b2
    o1 = o1
    u1 = u1
    Versions = {a1, b2}
    Precedence <- Ordered
    Prereleases = {}
    Legacy = {}
    NoVersion = NoVersion
    Reservations <- TwoFences
    UserReservations = {u1}
    Clients = {k1}
    NoCommand = NoCommand
    Operations = {o1}
    TargetOf <- Second
    MaxRevision = 4
    MaxModuleRev = 4
    MaxFence = 2
    MaxGrant = 3
CHECK_DEADLOCK FALSE
PROPERTY
    RestoresOwnPromotion
