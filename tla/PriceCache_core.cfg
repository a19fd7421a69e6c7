CONSTANTS
    Readers = {r1, r2}
    Writers = {w1, w2}
    Changes = {"product", "create", "delete", "update", "window"}
    MaxChanges = 2
    MaxExpiries = 1
    MaxCrashes = 1
SPECIFICATION FairSpec
INVARIANTS TypeOK
PROPERTIES ImplementsReadThrough EntryHeals
CHECK_DEADLOCK FALSE
