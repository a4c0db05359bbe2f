\* Two concurrent calls, keys issued and revoked under them.
SPECIFICATION ResolverSpec
CONSTANTS
    t1 = t1
    t1origin = t1origin
    t2 = t2
    junk = junk
    d1 = d1
    d2 = d2
    orgA = orgA
    c1 = c1
    c2 = c2
    Tokens = {t1, t1origin, t2, junk}
    Digests = {d1, d2}
    DigestOf <- MCDigestOf
    Tenants = {orgA}
    TenantOf <- MCTenantOf
    None = None
    Resolves = {c1, c2}
    positiveTTL = 2
    negativeTTL = 1
    Latency = 1
    SweepThreshold = 1
    LastInstant = 4
CHECK_DEADLOCK FALSE
INVARIANTS StalenessBounded
PROPERTIES FreshNeverEvicted
