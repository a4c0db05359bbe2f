\* The window after a sample.
SPECIFICATION Spec
CONSTANTS
    Requests = {q1, q2, q3}
INVARIANTS NoFalseDip
