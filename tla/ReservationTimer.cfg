SPECIFICATION Spec
CONSTANTS
    a1 = a1
    a2 = a2
    b = b
    r = r
    f = f
    g = g
    glob = glob
    Path = {f}
    Pattern = {f}
    Covers <- CoversOf
    Local = {a1}
    Canon <- CanonOf
    Remote = {r}
    Known = {a1}
    Lineage <- NoLineage
    Server = FALSE
    LongCalls = TRUE
    MaxGrants = 2
    MaxRemote = 0
    MaxFaults = 0
    None = None
INVARIANT TimerSparesLaterGrant
CHECK_DEADLOCK FALSE
