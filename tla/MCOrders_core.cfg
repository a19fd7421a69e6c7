CONSTANTS
    Requests = {r1, r2}
    NoRequest = NoRequest
    Does <- DoesAll
    Amounts = {0, 1}
    MaxRows = 5
    MaxCrashes = 1
SPECIFICATION FairSpec
INVARIANTS TypeOK LockedOrderFrozen ColumnInTrail
PROPERTIES CancelIsTruthful ImplementsLedger RequestsFinish
CHECK_DEADLOCK FALSE
