CONSTANTS
    Requests = {a1, a2}
    Payloads = {p1, p2}
    MaxAttempts = 4
    MaxCrashes = 1
    MaxExpiries = 1
    MaxLate = 1
SPECIFICATION FairSpec
INVARIANTS TypeOK OneAtATime AnswersMatch AnsweredIsStored
PROPERTIES LockGoesAway
CHECK_DEADLOCK FALSE
