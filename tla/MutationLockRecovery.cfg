SPECIFICATION FairSpec
CONSTANTS
    None = None
    Proc = {p1, p2, p3}
    StaleElapses = TRUE
    IdentityProbe = TRUE
    MaxIoErrors = 2
    CanTimeOut = FALSE
INVARIANT NothingLeftBehind
PROPERTY EveryCallResolves
CHECK_DEADLOCK FALSE
