\* Failed starts, then traffic, failing inserts and a shutdown that may run out of time.
SPECIFICATION ServerFairSpec
CONSTANTS
    w1 = w1
    w2 = w2
    w3 = w3
    job = job
    Rows = {w1, w2, w3}
    StreamOf <- MCStreamOf
    Untenanted = {}
    FlushRows = 2
    FinalAttempts = 2
    Statements = 2
    MaxRestarts = 1
    Asking = {w1}
    Jobs = {job}
CHECK_DEADLOCK FALSE
INVARIANTS OnceWhileRunning CloseSettles StartsCleanly DrainedInOrder
PROPERTIES RowsSettle SignalEnds
