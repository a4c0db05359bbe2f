SPECIFICATION RollupsSpec
CONSTANTS
    Traffic <- MCTraffic
    Width <- MCWidth
    TTL <- MCTTL
    MaxSpan <- MCMaxSpan
    Skew = 1
    MaxTime = 5
    MaxRows = 2
INVARIANTS AnswersExact PanelsAgree
CHECK_DEADLOCK FALSE
