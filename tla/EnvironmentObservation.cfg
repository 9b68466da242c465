\* An observation and a redeployment; a Core process with closures and an older one.
SPECIFICATION Spec
CONSTANTS
    x1 = x1
    d1 = d1
    b1 = b1
    b2 = b2
    Observations = {x1}
    Redeployments = {d1}
    ObservationOf <- Baseline
    Bodies = {b1, b2}
    BodiesOf <- Sent
    RevisionIn <- Named
    Submitters = {p1, p2}
    Older = {p2}
    Resolvers = {q1}
    None = None
    MaxRevision = 2
    MaxFailures = 1
\* The grant revisions are bounded: after the last one nothing may be allowed any more.
CHECK_DEADLOCK FALSE
INVARIANTS
    TerminalIsTrue
    SendsUnderCurrentGrant
PROPERTIES
    ClosuresResolve
