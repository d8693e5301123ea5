SPECIFICATION FairSpec
CONSTANTS
    a1 = a1
    a2 = a2
    b = b
    r = r
    f = f
    g = g
    glob = glob
    Path = {f}
    Pattern = {f, glob}
    Covers <- CoversOf
    Local = {a1}
    Canon <- CanonOf
    Remote = {r}
    Known = {a1}
    Lineage <- NoLineage
    Server = TRUE
    LongCalls = FALSE
    MaxGrants = 2
    MaxRemote = 1
    MaxFaults = 2
    None = None
PROPERTIES
    GhostsEvicted
    RemoteHoldSeen
CHECK_DEADLOCK FALSE
