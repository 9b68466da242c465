\* A consumer that takes its cursor before the inventory, under retention, pauses and restarts.
SPECIFICATION ConsumerSpec
CONSTANTS
    r1 = r1
    r2 = r2
    p1 = p1
    o1 = o1
    s1 = s1
    s2 = s2
    Replicas = {r1}
    Plugins = {p1}
    Operations = {o1}
    Scopes = {s1}
    PluginOf <- OnePluginOf
    ScopeOf <- NarrowScope
    PageLimit = 1
    Batch = 2
    MaxEntries = 2
    MaxChanges = 2
    MaxHead = 4
    LegacyHead = 1
    MaxAged = 3
    MixedFleet = FALSE
    CursorFirst = TRUE
CHECK_DEADLOCK FALSE
INVARIANTS
    NothingSilentlyMissed
    TypeOK
PROPERTY RetentionKeepsHolders
