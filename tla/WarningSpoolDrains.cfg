SPECIFICATION FairSpec
CONSTANTS
    r1 = r1
    r2 = r2
    r3 = r3
    d1 = d1
    d2 = d2
    None = None
    SessionOf <- Sessions
    Req = {r1}
    Drain = {d1, d2}
    MaxKills = 2
    LegacyLeft = FALSE
    SlowDrains = FALSE
INVARIANTS
    TypeOK
    AtMostOnce
    NothingDropped
    LiveMarkerStays
PROPERTIES
    FirstDelivery
    EventuallyShown
CHECK_DEADLOCK FALSE
