SPECIFICATION Spec
CONSTANTS
    None = None
    Proc = {p1, p2, p3}
    StaleElapses = FALSE
    IdentityProbe = FALSE
    MaxIoErrors = 2
    CanTimeOut = TRUE
INVARIANTS
    TypeOK
    MutualExclusion
    LiveHolderKeepsRecord
PROPERTIES
    OwnershipSpec
CHECK_DEADLOCK FALSE
