SPECIFICATION Spec
CONSTANTS
    Zones <- SomeZones
    Inputs <- SomeInputs
    Times <- SomeTimes
    Offset <- SomeOffsets
    ImproperKeys <- SomeImproperKeys
    Request = {q1}
    Never = Never
    NoZone = NoZone
    Naive = Naive
    MaxImports = 3
CHECK_DEADLOCK FALSE
INVARIANT
    RestrictedZonesRefuse
