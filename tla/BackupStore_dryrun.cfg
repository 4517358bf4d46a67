SPECIFICATION Spec
CONSTANTS
    Runs = {r1, r2}
    Modes = {"full", "dry"}
    Timestamps = {t1, t2}
    Manual = {}
    Keep = 1
    SharedDirs = FALSE
    ClockSteps = FALSE
    None = None
    Torn = Torn
PROPERTY DryRunRemovesNothing
CHECK_DEADLOCK FALSE
