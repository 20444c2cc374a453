\* A clip is composed before the first hello of an ephemeral room.
CONSTANTS
    ITEMS_CAP = 2
    QUOTA = 2
    ORDERED = TRUE
    CALM = TRUE
    MaxItems = 1
    MaxSaves = 2
    MaxReloads = 0
SPECIFICATION Spec
INVARIANTS NothingWritten
CHECK_DEADLOCK FALSE
