SPECIFICATION Spec
CONSTANTS
    Proc = {p1, p2, p3}
    CanGiveUp = FALSE
    CanCrash = FALSE
    None = None
INVARIANT OneOwner
CHECK_DEADLOCK FALSE
