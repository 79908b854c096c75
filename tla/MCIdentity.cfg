SPECIFICATION IdentitySpec
CONSTANTS
    User = {u1}
    Request = {r1, r2, r3}
    Token = {t1, t2, t3}
    NoUser = NoUser
    NoToken = NoToken
    MaxFailures = 2
    Window = 2
    Lock = 2
    FailuresCommit = TRUE
    MaxTime = 6
    Credential = {x1, x2}
    Call = {c1, c2}
    Root = {w1, w2}
    None = None
    NoCall = NoCall
    Raises = FALSE
    MaxFaults = 1
SYMMETRY IdentitySymmetry
CHECK_DEADLOCK FALSE
INVARIANTS
    OneLivePerFamily
    SessionsHaveAccounts
    SurvivorsNeedOverlap
    RowKeepsTheLimit
    GuessesAreLimited
    RefreshesAreSerialized
    PairsMatch
    SessionsAreHeld
PROPERTY
    ImplementsLedger
