CONSTANTS
    Worker = {w1,w2}
    Celery = celery
    None = none
    Visitor = {v1,v2}
    Process = {gunicorn1,gunicorn2}
    Retention = 1
    MaxTicks = 4
    MaxViews = 2
    MaxViewerCrashes = 1
SPECIFICATION ViewersSpec
INVARIANTS NoViewerLost
CHECK_DEADLOCK FALSE
