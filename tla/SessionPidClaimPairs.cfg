SPECIFICATION Spec
CONSTANTS
    Proc = {p1, p2, p3}
    CanGiveUp = TRUE
    CanCrash = TRUE
    None = None
CONSTRAINT AtMostTwo
INVARIANTS
    IInv
    FilesInv
    ClaimInv
    OneOwner
    OwnerNamed
CHECK_DEADLOCK FALSE
