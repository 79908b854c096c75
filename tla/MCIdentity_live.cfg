SPECIFICATION FairIdentitySpec
CONSTANTS
    User = {u1}
    Request = {r1, r2}
    Token = {t1, t2}
    NoUser = NoUser
    NoToken = NoToken
    MaxFailures = 1
    Window = 2
    Lock = 2
    FailuresCommit = TRUE
    MaxTime = 1
    Credential = {x1}
    Call = {c1, c2}
    Root = {w1, w2}
    None = None
    NoCall = NoCall
    Raises = FALSE
    MaxFaults = 1
CHECK_DEADLOCK FALSE
PROPERTY
    SessionsFinish
