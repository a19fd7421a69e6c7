CONSTANTS
    s1 = s1
    d1 = d1
    d2 = d2
    l1 = l1
    l2 = l2
    Requests = {s1, d1, d2}
    NoRequest = NoRequest
    Does <- DispatchAndCancel
    Serves <- DesksAll
    Lines = {l1}
    LineBase <- TwoLines
    GrandTotal <- Total
    Amounts = {0, 1, 2}
    Fees = {0, 3}
    Asks = {4}
    Resolutions = {"refund"}
    MaxPerLine = 2
    MaxActs = 7
    MaxRows = 7
    MaxCrashes = 1
SPECIFICATION ReturnsSpec
INVARIANTS ReturnsTypeOK OneLivePerLine LockedReturnFrozen
PROPERTIES RefundIsTruthful
CHECK_DEADLOCK FALSE
