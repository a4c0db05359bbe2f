\* An Enqueue racing Close.
SPECIFICATION Spec
CONSTANTS
    r1 = r1
    r2 = r2
    r3 = r3
    w1 = w1
    w2 = w2
    z = z
    Rows = {r1, r2, w1, z}
    StreamOf <- MCStreamOf
    Untenanted = {z}
    FlushRows = 2
    FinalAttempts = 2
CHECK_DEADLOCK FALSE
INVARIANTS NothingLeftBehind
