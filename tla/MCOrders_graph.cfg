CONSTANTS
    Requests = {r1, r2}
    NoRequest = NoRequest
    Does <- DoesAll
    Amounts = {0}
    MaxRows = 4
    MaxCrashes = 0
SPECIFICATION Spec
PROPERTIES ChangesAllowed
CHECK_DEADLOCK FALSE
