\* Two recorders of one tenant, refusals, give-ups, failed lookups and plan changes.
SPECIFICATION IngestFairSpec
CONSTANTS
    t1 = t1
    c1 = c1
    c2 = c2
    a = a
    b = b
    x = x
    TenantIDs = {t1}
    SeriesKeys = {a, b, x}
    SeriesTTL = 1
    Caps = {1, 2}
    MaxTime = 1
    Clients = {c1, c2}
    TenantOf <- MCTenantOf
    Uploads <- MCUploads
    Slots <- MCSlots
    Unreliable = {c1}
    Limits <- MCLimits
    Subscribed <- MCSubscribed
    SkewTolerance = 0
    MaxFaults = 2
CHECK_DEADLOCK FALSE
INVARIANTS ExistingKeepFlowing AckedAccounted CopiesExplained
PROPERTIES LimitsHeld Delivery
