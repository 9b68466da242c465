\* Grants of an organization and of the installation; an effect and a sweep.
SPECIFICATION Spec
CONSTANTS
    o1 = o1
    a1 = a1
    a2 = a2
    w1 = w1
    Organizations = {o1}
    Wide = Wide
    Grants = {a1, a2, w1}
    ScopeOf <- Scope
    Sequence <- Order
    NotBefore <- Begins
    ExpiresAt <- Expires
    GraceUntil <- Graces
    Covers = {a1, w1}
    Effects = {e1}
    None = None
    MaxTime = 2
    MaxSnapshot = 1
    MaxFailures = 1
INVARIANTS
    WorksUnderCoveringGrant
    ExpiredStaysExpired
PROPERTIES
    ExpiryIsRecorded
