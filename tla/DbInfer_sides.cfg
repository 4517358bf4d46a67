SPECIFICATION MCSpec
CONSTANTS
    cache = cache
    db = db
    postgres = postgres
    mysql = mysql
    Order <- InOrder
    Names <- TwoNames
    WellKnown = {db}
    Descriptions <- Few
    Targets = {"host", "compose", "kubernetes"}
    Gone = Gone
    None = None
INVARIANTS TypeOK EngineFitsService FilesOfTheService ServiceDecides
CHECK_DEADLOCK FALSE
