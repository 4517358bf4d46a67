SPECIFICATION MCSpec
CONSTANTS
    photo = photo
    dir = dir
    nested = nested
    cache = cache
    Paths = {photo, dir, nested, cache}
    Root = Root
    ParentOf <- Parents
    KindsOf <- Kinds
    Allowed = {photo, dir, nested}
    Delete = TRUE
    Follow = FALSE
    MaxSize = 2
    SizeOf <- Lengths
    LinkSize = 1
    Gap = 2
    MaxWrites = 3
    MaxSyncs = 2
INVARIANTS TypeOK UpToDate UndisturbedSucceeds
PROPERTIES KeepsWhatIsThere
CHECK_DEADLOCK FALSE
