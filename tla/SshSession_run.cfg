SPECIFICATION Spec
CONSTANTS
    Keys = {k1, k2}
    Limit = 2
    None = None
INVARIANTS TypeOK DumpsOnWhatItRead
PROPERTIES ConnectsWhenItCan RunsEnd
CHECK_DEADLOCK FALSE
