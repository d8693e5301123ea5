SPECIFICATION Spec
CONSTANTS
    a1 = a1
    a2 = a2
    b = b
    r = r
    f = f
    g = g
    glob = glob
    Path = {f}
    Pattern = {f}
    Covers <- CoversOf
    Local = {a1, b}
    Canon <- CanonOf
    Remote = {r}
    Known = {a1, b}
    Lineage <- NoLineage
    Server = FALSE
    LongCalls = FALSE
    MaxGrants = 2
    MaxRemote = 0
    MaxFaults = 0
    None = None
INVARIANT NoInterleavedWrites
CHECK_DEADLOCK FALSE
