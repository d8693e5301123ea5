SPECIFICATION Spec
CONSTANTS
    c1 = c1
    c2 = c2
    s1 = s1
    Compactor = {c1, c2}
    Syncer = {}
    FirstRows = 2
    MaxRows = 3
    Chained = {2, 3}
    KeepRecent = 0
    TailRows = 1
    AuditRows = 1
    PageRows = 1
    MaxKills = 1
    Overlap = TRUE
    KillAlone = FALSE
    Cleans = FALSE
    Tears = FALSE
    None = None
SYMMETRY Interchangeable
INVARIANT ClaimRecoverable
CHECK_DEADLOCK FALSE
