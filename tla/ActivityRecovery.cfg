SPECIFICATION FairSpec
CONSTANTS
    c1 = c1
    c2 = c2
    s1 = s1
    Compactor = {c1, c2}
    Syncer = {s1}
    FirstRows = 2
    MaxRows = 3
    Chained = {2, 3}
    KeepRecent = 0
    TailRows = 1
    AuditRows = 1
    PageRows = 1
    MaxKills = 1
    Overlap = FALSE
    KillAlone = TRUE
    Cleans = FALSE
    Tears = TRUE
    None = None
PROPERTIES
    RotationCompletes
    EverythingUploaded
CHECK_DEADLOCK FALSE
