\* IAM follows the packages that Core serves; no effects and no replicas.
SPECIFICATION CapSpec
CONSTANTS
    Packages = {1, 2}
    Installations = {i1}
    Organizations = {o1}
    Replicas = {}
    Refreshers = {}
    Tickers = {}
    Effects = {}
    Limits = {0}
    None = None
    MaxRevision = 5
    MaxRestarts = 0
    Reconcilers = {every, after}
    Periodic = {every}
    MaxFaults = 2
CHECK_DEADLOCK FALSE
PROPERTIES
    RegistrationNeverGoesBack
    CapabilitiesFollow
