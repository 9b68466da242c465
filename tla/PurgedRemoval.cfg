\* A plugin that was purged and installed again; an enablement removed through the old one.
SPECIFICATION Spec
CONSTANTS
    Packages = {1}
    Installations = {i1, i2}
    Organizations = {o1}
    Replicas = {}
    Refreshers = {}
    Tickers = {}
    Effects = {}
    Limits = {0}
    None = None
    MaxRevision = 7
    MaxRestarts = 0
CHECK_DEADLOCK FALSE
PROPERTY
    AllKeepsEnablements
