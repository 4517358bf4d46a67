SPECIFICATION Spec
CONSTANTS
    Runs = {r1, r2, r3}
    Modes = {"full", "files", "dry"}
    Timestamps = {t1, t2}
    Manual = {before_migration}
    Keep = 1
    SharedDirs = FALSE
    ClockSteps = TRUE
    None = None
    Torn = Torn
SYMMETRY Symmetry
INVARIANTS TypeOK NewestAreRestorable RetentionBound
PROPERTY ImplementsCatalog
CHECK_DEADLOCK FALSE
