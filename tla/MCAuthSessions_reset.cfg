SPECIFICATION Spec
CONSTANTS
    User = {u1}
    Request = {r1, r2}
    Token = {t1, t2, t3}
    NoUser = NoUser
    NoToken = NoToken
CHECK_DEADLOCK FALSE
INVARIANT
    ResetRevokesExistingSessions
