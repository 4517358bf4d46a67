SPECIFICATION FairSpec
CONSTANTS
    r1 = r1
    r2 = r2
    r3 = r3
    home = home
    away = away
    tmp_dump = tmp_dump
    Runs = {r1, r2}
    RemotePaths = {tmp_dump}
    Places = {home, away}
    RemoteOf <- OneServer
    PlaceOf <- TwoMachines
    SizeOf <- Sizes
    Overlap = FALSE
    Orphans = TRUE
    None = None
    Hole = Hole
    Backups = {r1}
    Projects <- PostgresResets
    Composed = {home, away}
    Attempts = 2
    Local = Local
    Missing = Missing
INVARIANT NoOlderData
PROPERTY RunsEnd
CHECK_DEADLOCK FALSE
