\* A fleet in which one replica runs without the plugin host.
SPECIFICATION Spec
CONSTANTS
    r1 = r1
    r2 = r2
    p1 = p1
    p2 = p2
    o1 = o1
    o2 = o2
    s1 = s1
    s2 = s2
    Replicas = {r1, r2}
    Plugins = {p1, p2}
    Operations = {o1}
    Scopes = {s1, s2}
    PluginOf <- OnePluginOf
    ScopeOf <- NarrowScope
    PageLimit = 1
    Batch = 2
    MaxEntries = 1
    MaxChanges = 2
    MaxHead = 3
    LegacyHead = 0
    MaxAged = 0
    MixedFleet = TRUE
CHECK_DEADLOCK FALSE
PROPERTY
    ReadResumesJournaling
