\* Two jobs, or two attempts of one; tenant-hot moves with the width of the operator.
CONSTANTS
    Parallelism = 2
    Owner <- Owners
    MaxJobs = 2
    MaxAttempts = 2
    MaxRecords = 2
SPECIFICATION Spec
INVARIANTS
    TypeOK
    PassNamesTheOwner
    EvidenceIsOfOneJob
    DominatedJobPasses
CHECK_DEADLOCK FALSE
