CONSTANTS
    p1 = p1
    p2 = p2
    anna = anna
    ben = ben
    Worker = {w1, w2}
    Celery = celery
    None = none
    Photo = {p1, p2}
    PhotoReview = {r1, r2}
    Owner = {anna, ben}
    PhotoOwner <- TwoSessions
    MaxUnattached = 1
    MaxPhotoCrashes = 1
SPECIFICATION PhotosSpec
PROPERTIES  OrphansSwept
CHECK_DEADLOCK FALSE
