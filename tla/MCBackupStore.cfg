\* Four seconds, three backups of which two are kept, one decay, one crash.
SPECIFICATION Spec
CHECK_DEADLOCK FALSE
CONSTANTS
    None = None
    LogsOnly = LogsOnly
    Damaged = Damaged
    Behind = Behind
    Keep = 2
    MaxTime = 3
    MaxVersion = 2
    MaxRot = 1
    MaxCrashes = 1
INVARIANTS
    Recoverable
    RecoveryPossible
PROPERTIES
    RollbacksStand
    LedgerTrue
