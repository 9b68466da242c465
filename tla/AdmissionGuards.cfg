\* Ordinary admissions, a destroy and a dispatch, against a Pin and its evidence.
SPECIFICATION Spec
CONSTANTS
    v1 = v1
    v2 = v2
    a1 = a1
    a2 = a2
    a3 = a3
    d1 = d1
    d2 = d2
    d3 = d3
    o1 = o1
    q1 = q1
    q2 = q2
    h1 = h1
    h2 = h2
    Versions = {v1, v2}
    NoVersion = NoVersion
    Admissions = {a2, a3}
    Intent <- OrdinaryIntent
    Dispatches = {d1}
    OperationOf <- OneOperation
    DispatchMode <- ForwardThenRollback
    ForwardOf <- FirstForward
    Operations = {o1}
    TargetOf <- SecondVersion
    NoOperation = NoOperation
    Pins = {q1}
    Readers = {h1}
    Earlier = Earlier
    InitialVersion = v1
    InitialLifecycle <- ProposedBesideDefault
    Archived = FALSE
    CatalogueChanges <- NoChange
    MaxRevision = 3
    MaxEvents = 3
CHECK_DEADLOCK FALSE
INVARIANTS
    OneExecution
    ResolvedIsOver
    NoOrphanGuard
    EvidencedPinsProtect
    ApprovalsCurrent
