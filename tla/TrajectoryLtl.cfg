SPECIFICATION Spec
CONSTANTS
    x = x
    y = y
    Atom <- MCAtom
    Rules <- MCRules
    MaxEvents = 4
    MaxLoop = 2
INVARIANTS
    VerdictSound
    DecidedWithinBounds
    NegationCommutes
    OnsetsExact
    LeaningNamesStrong
    ObligationsMerged
CHECK_DEADLOCK FALSE
