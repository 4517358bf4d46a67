SPECIFICATION RSpec
CONSTANTS
    r1 = r1
    r2 = r2
    Runs = {r1}
    Modes = {"full"}
    Timestamps = {t1, t2}
    Manual = {}
    Keep = 1
    SharedDirs = FALSE
    ClockSteps = FALSE
    None = None
    Torn = Torn
    Restorers = {x}
    Away = {x}
    Copies = {downloaded}
    EngineOf <- OneEngine
    LocalEngine = "postgres"
    Local = Local
INVARIANT AcceptsDownloadedBackup
CHECK_DEADLOCK FALSE
