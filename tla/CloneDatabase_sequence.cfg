SPECIFICATION Spec
CONSTANTS
    r1 = r1
    r2 = r2
    r3 = r3
    home = home
    away = away
    tmp_dump = tmp_dump
    Runs = {r1, r2, r3}
    RemotePaths = {tmp_dump}
    Places = {home}
    RemoteOf <- OneServer
    PlaceOf <- OneMachine
    SizeOf <- Sizes
    Overlap = FALSE
    Orphans = FALSE
    None = None
    Hole = Hole
    Backups = {}
    Projects <- AllProjects
    Composed = {home}
    Attempts = 2
    Local = Local
    Missing = Missing
INVARIANTS TypeOK FileIsWhole
PROPERTIES ClonesItsOwnDump RecoversFromStoppedRuns ImplementsLocalDatabase
CHECK_DEADLOCK FALSE
