SPECIFICATION Spec
CONSTANTS
    User = {u1}
    Request = {q1, q2}
    NoUser = NoUser
    MaxReports = 1
CHECK_DEADLOCK FALSE
PROPERTY
    ErasureDeletesEvidence
