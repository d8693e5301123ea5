SPECIFICATION Spec
CONSTANTS
    a1 = a1
    a2 = a2
    b = b
    r = r
    f = f
    g = g
    glob = glob
    Path = {f}
    Pattern = {f}
    Covers <- CoversOf
    Local = {a1}
    Canon <- CanonOf
    Remote = {r}
    Known = {a1}
    Lineage <- NoLineage
    Server = TRUE
    LongCalls = FALSE
    MaxGrants = 1
    MaxRemote = 1
    MaxFaults = 1
    None = None
PROPERTY FailedRefreshKeepsRemote
CHECK_DEADLOCK FALSE
