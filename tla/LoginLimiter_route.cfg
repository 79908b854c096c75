SPECIFICATION Spec
CONSTANTS
    Request = {q1, q2}
    MaxFailures = 2
    Window = 2
    Lock = 2
    FailuresCommit = FALSE
    MaxTime = 2
CHECK_DEADLOCK FALSE
INVARIANT
    GuessesAreLimited
