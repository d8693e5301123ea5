SPECIFICATION Spec
CONSTANTS
    Txn = {"t1", "t2"}
    File = {"a", "b"}
    Content <- Contents
    Target <- Targets
    New <- Proposals
    MaxEdits = 1
    MaxKills = 1
    None = None
INVARIANTS
    TypeOK
    HolderNamed
    FailureReported
PROPERTY
    AtomicSpec
CHECK_DEADLOCK FALSE
