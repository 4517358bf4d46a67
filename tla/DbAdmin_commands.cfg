SPECIFICATION Spec
CONSTANTS
    c1 = c1
    c2 = c2
    Commands = {c1, c2}
    Engines = {"postgres", "mysql", "mongo"}
    Databases = {"app", "template1"}
    System = {"template1"}
    Owners = {app}
    Passwords = {secret}
    Actions = {"create", "reset", "drop", "migrate"}
    Switches = {"no-drop", "no-create", "migrate", "hstore", "dry-run"}
    Composed = TRUE
    Pings = 1
    None = None
SYMMETRY Symmetry
INVARIANT TypeOK
PROPERTIES CreateDelivers CreateKeepsExisting FailsOnlyWhenMissing
CHECK_DEADLOCK FALSE
