SPECIFICATION Spec
CONSTANTS
    a1 = a1
    a2 = a2
    b = b
    r = r
    f = f
    g = g
    glob = glob
    Path = {f, g}
    Pattern = {f, g}
    Covers <- CoversOf
    Local = {a1, a2, b}
    Canon <- CanonOf
    Remote = {r}
    Known = {a1, a2, b}
    Lineage <- NoLineage
    Server = FALSE
    LongCalls = FALSE
    MaxGrants = 3
    MaxRemote = 0
    MaxFaults = 0
    None = None
INVARIANTS
    TypeOK
    WriteExclusion
    TimerSparesLaterGrant
    GrantLastsThroughWrite
CHECK_DEADLOCK FALSE
