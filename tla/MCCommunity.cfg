SPECIFICATION CommunitySpec
CONSTANTS
    User = {u1}
    Request = {q1, q2}
    NoUser = NoUser
    MaxReports = 2
    ReportId = {r1, r2}
    Appeal = {a1, a2}
    Moderator = {q1, q2, q3}
    ReporterOf <- SameReporter
    NoAppeal = NoAppeal
    NoReport = NoReport
    MaxDecisions = 4
    Admin = {u1}
    Operator = {q1, q2}
    Secret = {r1, r2}
    MaxSequence = 4
    NoSecret = NoSecret
    Nobody = Nobody
SYMMETRY Alike
CHECK_DEADLOCK FALSE
INVARIANTS
    DeletedEvidenceIsGone
    MissingEvidenceIsExplained
    OrphansAreExplained
    ReputationFollowsDecisions
    NoLockCycle
    SecondAppealNeedsOverlap
    ChainIsTheLog
    DamageIsDetected
PROPERTIES
    DeletedOnce
    NewerEnrolmentLostByOverlap
