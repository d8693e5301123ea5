SPECIFICATION Spec
CONSTANTS
    c1 = c1
    c2 = c2
    s1 = s1
    Compactor = {c1, c2}
    Syncer = {}
    FirstRows = 3
    MaxRows = 7
    Chained = {2, 5, 7}
    KeepRecent = 0
    TailRows = 1
    AuditRows = 2
    PageRows = 1
    MaxKills = 1
    Overlap = TRUE
    KillAlone = TRUE
    Cleans = TRUE
    Tears = FALSE
    None = None
SYMMETRY Interchangeable
INVARIANTS
    ChainUnbroken
CHECK_DEADLOCK FALSE
