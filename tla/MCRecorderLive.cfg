\* A host that shuts its server down first: recovery from collector outages and panics, and Shutdown.
SPECIFICATION FairSpec
CONSTANTS
    o1 = o1
    o2 = o2
    o3 = o3
    o4 = o4
    s1 = s1
    s2 = s2
    Obs = {o1, o2, o3}
    Series <- MCSeries
    SeriesOf <- MCSeriesOf
    NumShards = 2
    ShardOf <- MCShardOf
    Cap = 2
    BaseBackoff = 1
    MaxBackoff = 3
    Loop = loop
    Callers = {c1}
    HostQuiesces = TRUE
    SerialShutdowns = TRUE
    LoopMayPanic = TRUE
INVARIANTS NilShutdownShipped DropsAccounted
PROPERTIES EventuallySettled ShutdownReturns
