SPECIFICATION Spec
CONSTANTS
    r1 = r1
    r2 = r2
    r3 = r3
    d1 = d1
    d2 = d2
    None = None
    SessionOf <- Sessions
    Req = {r1, r3}
    Drain = {d1}
    MaxKills = 0
    LegacyLeft = TRUE
    SlowDrains = TRUE
INVARIANTS
    NothingDropped
CHECK_DEADLOCK FALSE
