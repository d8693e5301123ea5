SPECIFICATION FairSpec
CONSTANTS
    None = None
    Proc = {p1, p2}
    CanGiveUp = TRUE
    CanCrash = TRUE
INVARIANTS
    TypeOK
    OneOwner
    OwnerNamed
PROPERTY NextClaimantWins
CHECK_DEADLOCK FALSE
