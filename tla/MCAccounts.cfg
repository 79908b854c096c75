SPECIFICATION AccountsSpec
CONSTANTS
    User = {n1, n2}
    Device = {d1}
    Place = {home}
    Request = {q1, q2}
    Zones <- SomeZones
    Choices <- SomeChoices
    MaxHour = 1
    MaxPushes = 1
    NoUser = NoUser
    NoZone = NoZone
    Account = {u1, u2}
    Subject = {u1}
    Purpose = {product_analytics}
    analytics = product_analytics
    MaxTime = 1
    MaxRows = 5
    max_events = 1
    Nobody = Nobody
    u1 = u1
    u2 = u2
    p1 = p1
    p2 = p2
    e1 = e1
    e2 = e2
    apple = apple
    google = google
    Purchase = {p1, p2}
    Event = {e1, e2}
    Product = {apple, google}
    Catalog = {apple, google}
    ProductOf <- OneEach
    EnvironmentOf <- Sandbox
    Deployment = "staging"
    Evidence <- Answers
    MaxClock = 2
    Never = Never
    Page = {g1, g2}
    MaxFaults = 1
    MaxChanges = 1
    MaxStops = 1
SYMMETRY Interchangeable
CHECK_DEADLOCK FALSE
INVARIANTS
    ClaimInv
    AlertsAreExplained
    ErasureIsComplete
    ExportsAreComplete
    EventsAreConsented
    NewestEvidenceWins
    OwnersExist
    PremiumIsEarned
    StreamsAreExplained
    
PROPERTY
    ConsentNeverGoesBack
