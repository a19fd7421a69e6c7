CONSTANTS
    Worker = {w1, w2}
    Celery = celery
    None = none
    ReviewId = {r1, r2}
    Contact = {anna, guest}
    Account = {anna}
    Purchase = {o1}
    Buyer <- GuestBuyer
    MaxReviewCrashes = 1
    Photo = {p1, p2}
    PhotoReview = {r1, r2}
    Owner = {session}
    PhotoOwner <- OneSession
    MaxUnattached = 1
    MaxPhotoCrashes = 1
    Ticket = {k1}
    Agent = {a1, a2}
    MaxMessages = 2
    Product = {p1}
    Bundle = {b1}
    MaxQuantity = 2
    MaxLines = 2
    LogId = {n1, n2}
    SendKey = {key}
    SendLimit = 1
    MaxSmsCrashes = 1
    Image = {i1, i2}
    MaxFiles = 2
    MaxVariantLosses = 1
    Customer = {anna}
    Limit = {1}
    Unlimited = unlimited
    MaxRedemptions = 2
    Price = {0, 5, 333}
    Percent = {0, 15, 50, 100}
    Rate = {0, 16}
    OverPercent = 150
    Token = {t1, t2}
    MaxPasswords = 2
    MaxAccountCrashes = 1
    Address = {a1, a2}
    Area = {x1}
    MaxDirectoryCrashes = 1
    Inquiry = {i1, i2}
    MaxIntakes = 2
    Record = {r1}
    Group = {g1, g2}
    MaxWrites = 2
    Namespaces = {"categories", "product_list"}
    MaxVersions = 2
    MaxBumps = 2
    MaxLosses = 1
    Column = {flag, name}
    Flag = flag
    MaxEdits = 2
    MaxConfigCrashes = 1
    Item = {p1, p2}
    MaxMemberEdits = 2
    MaxRuleChanges = 1
    MaxFailures = 1
    Visitor = {v1, v2}
    Process = {gunicorn1, gunicorn2}
    Retention = 1
    MaxTicks = 4
    MaxViews = 2
    MaxViewerCrashes = 1
    BundleId = {b1, b2}
    BundleSlug = {s1, s2}
    MaxBundleChanges = 3
    MaxBundleCrashes = 1
    Entry = {e1, e2}
    Slug = {s1, s2}
    MaxContentEdits = 3
    MaxContentCrashes = 1
    Numbers = {5, 7}
    Strings = {}
    MaxProduct = 3
    Category = {c1, c2, c3}
    MaxTreeEdits = 4
SPECIFICATION ShopSpec
INVARIANTS ShopTypesOK  PostingExclusive   OneSendPerKey  MoneyAddsUp LastPasswordStays    OneProcessKeepsViewers
PROPERTIES PagesReadThrough   
CHECK_DEADLOCK FALSE
