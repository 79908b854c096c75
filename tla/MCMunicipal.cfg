SPECIFICATION MunicipalSpec
CONSTANTS
    Zones <- SomeZones
    Inputs <- SomeInputs
    Times <- SomeTimes
    Offset <- SomeOffsets
    ImproperKeys <- SomeImproperKeys
    Request = {q1}
    Never = Never
    NoZone = NoZone
    Naive = Naive
    MaxImports = 2
    Id = {a, b}
    Features <- SomeFeatures
    FacilityRows <- SomeFacilities
    MAX_RECORDS = 4
    None = None
    a = a
    b = b
    c = c
    r1 = r1
    r2 = r2
    Source = {s1}
    Payload = {a, b, c}
    Record = {r1, r2}
    Importer = {q1, q2, q3}
    Accepted <- Feeds
    Quarantined <- Rejections
    MaxBatches = 4
    NoSource = NoSource
    NoPayload = NoPayload
CHECK_DEADLOCK FALSE
INVARIANTS
    FeedIsAccounted
    ImportsAreIdempotent
    AnswersFollowEvidence
    RulesDecideConservatively
PROPERTIES
    ImportsFinish
    OfficialEvidenceWins
    ImplementsImportLog
