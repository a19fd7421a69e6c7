CONSTANTS
    Readers = {r1}
    Writers = {w1}
    Changes = {"product"}
    MaxChanges = 1
    MaxExpiries = 0
    MaxCrashes = 0
SPECIFICATION Spec
INVARIANTS ServedIsCurrent
CHECK_DEADLOCK FALSE
