\* Operators of a plugin: beside effects in one organization, or beside new organizations.
SPECIFICATION Spec
CONSTANTS
    Packages = {1, 2}
    Installations = {i1, i2}
    Organizations = {o1, o2}
    Replicas = {r1}
    Refreshers = {ticker}
    Tickers = {ticker}
    Effects = {e1, e2}
    Limits = {0, 1}
    None = None
    MaxRevision = 9
    MaxRestarts = 0
CONSTRAINT OneOrganizationOrPackage
SYMMETRY Identities
CHECK_DEADLOCK FALSE
INVARIANTS
    TypeOK
    EffectsAreCurrent
    WorkKeepsItsInstallation
    AllServesEveryOrganization
PROPERTIES
    ServesWhatItProved
    EnablesWithinLimit
