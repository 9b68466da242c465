\* Replicas follow the Plugin Manager; no effects.
SPECIFICATION Spec
CONSTANTS
    Packages = {1, 2}
    Installations = {i1}
    Organizations = {o1}
    Replicas = {r1}
    Refreshers = {ticker, command}
    Tickers = {ticker}
    Effects = {}
    Limits = {0}
    None = None
    MaxRevision = 5
    MaxRestarts = 1
CHECK_DEADLOCK FALSE
PROPERTIES
    ShowsOneRevision
    ReplicasCatchUp
