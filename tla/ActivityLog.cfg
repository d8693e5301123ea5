SPECIFICATION Spec
CONSTANTS
    c1 = c1
    c2 = c2
    s1 = s1
    Compactor = {c1, c2}
    Syncer = {s1}
    FirstRows = 2
    MaxRows = 3
    Chained = {2, 3}
    KeepRecent = 0
    TailRows = 1
    AuditRows = 1
    PageRows = 2
    MaxKills = 1
    Overlap = TRUE
    KillAlone = TRUE
    Cleans = TRUE
    Tears = FALSE
    None = None
SYMMETRY Interchangeable
INVARIANTS
    TypeOK
    Lossless
    ChainUnbroken
    NoRowPassedOver
    ClaimRecoverable
CHECK_DEADLOCK FALSE
