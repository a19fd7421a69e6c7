CONSTANTS
    s1 = s1
    d1 = d1
    d2 = d2
    l1 = l1
    l2 = l2
    Requests = {s1, d1, d2}
    NoRequest = NoRequest
    Does <- Dispatch
    Serves <- OneDesk
    Lines = {l1, l2}
    LineBase <- TwoLines
    GrandTotal <- Total
    Amounts = {0, 1, 2}
    Fees = {0}
    Asks = {1, 4}
    Resolutions = {"refund"}
    MaxPerLine = 1
    MaxActs = 8
    MaxRows = 8
    MaxCrashes = 1
SPECIFICATION FairReturnsSpec
INVARIANTS OneRefundEach TerminalIsCovered
 
CHECK_DEADLOCK FALSE
