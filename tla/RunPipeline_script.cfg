SPECIFICATION Spec
CONSTANTS
    RunModes = {"clone", "backup", "validate"}
    Hooks = {"beforeRestore", "afterRestore", "afterFiles", "extension"}
    Executes = {TRUE, FALSE}
    MaxEntries = 2
    MaxCalls = 2
INVARIANTS TypeOK ScriptNeverPanics FollowsTheDiagram ManifestIsOfThisRun
PROPERTY MigratesWhatWasRestored
CHECK_DEADLOCK FALSE
