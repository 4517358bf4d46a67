SPECIFICATION RSpec
CONSTANTS
    r1 = r1
    r2 = r2
    Runs = {r1, r2}
    Modes = {"full", "files"}
    Timestamps = {t1, t2}
    Manual = {}
    Keep = 1
    SharedDirs = FALSE
    ClockSteps = FALSE
    None = None
    Torn = Torn
    Restorers = {x}
    Away = {}
    Copies = {downloaded}
    EngineOf <- Engines
    LocalEngine = "postgres"
    Local = Local
INVARIANTS RTypeOK StaysRepeatable
PROPERTY ImplementsLocalDatabase
CHECK_DEADLOCK FALSE
