SPECIFICATION Spec
CONSTANTS
    Period = 5
    Deadline = 4
    BackoffLimit = 2
    MaxClock = 9
    None = None
INVARIANTS TypeOK UploadsWholeDumps CompleteIsUploaded NoNightIsSkipped
PROPERTY NeverOverwrites
CHECK_DEADLOCK FALSE
