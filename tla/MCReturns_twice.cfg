CONSTANTS
    s1 = s1
    d1 = d1
    d2 = d2
    l1 = l1
    l2 = l2
    Requests = {s1, d1, d2}
    NoRequest = NoRequest
    Does <- Dispatch
    Serves <- DesksNoClose
    Lines = {l1}
    LineBase <- TwoLines
    GrandTotal <- Total
    Amounts = {0, 1, 2}
    Fees = {0}
    Asks = {4}
    Resolutions = {"refund"}
    MaxPerLine = 1
    MaxActs = 6
    MaxRows = 8
    MaxCrashes = 0
SPECIFICATION ReturnsSpec
INVARIANTS OneRefundEach
CHECK_DEADLOCK FALSE
