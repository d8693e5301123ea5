SPECIFICATION Spec
CONSTANTS
    None = None
    Proc = {p1, p2}
    StaleElapses = TRUE
    IdentityProbe = TRUE
    MaxIoErrors = 0
    CanTimeOut = TRUE
INVARIANT MutualExclusion
SYMMETRY Symmetry
CHECK_DEADLOCK FALSE
