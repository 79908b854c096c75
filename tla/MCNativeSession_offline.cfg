SPECIFICATION FairClient
CONSTANTS
    Credential = {x1, x2}
    Call = {c1, c2}
    Root = {w1}
    None = None
    NoCall = NoCall
    Raises = TRUE
    MaxFaults = 1
CHECK_DEADLOCK FALSE
INVARIANT
    LogoutForgets
