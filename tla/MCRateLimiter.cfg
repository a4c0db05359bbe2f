\* Plan changes and database errors under overlapping calls.
SPECIFICATION LimiterSpec
CONSTANTS
    c1 = c1
    c2 = c2
    c3 = c3
    free = free
    suspended = suspended
    Calls = {c1, c2}
    Plans = {free, suspended}
    Rps <- MCRps
    Burst <- MCBurst
    Default = free
    Unresolved = Unresolved
    PositiveTTL = 2
    NegativeTTL = 1
    Span = 1
    MaxTime = 5
    MaxChanges = 2
CHECK_DEADLOCK FALSE
INVARIANTS SuspensionTakesEffect NoTokenMinted
