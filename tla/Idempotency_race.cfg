CONSTANTS
    Requests = {a1, a2}
    Payloads = {p1}
    MaxAttempts = 2
    MaxCrashes = 0
    MaxExpiries = 0
    MaxLate = 0
SPECIFICATION Spec
INVARIANTS RunOnce
CHECK_DEADLOCK FALSE
