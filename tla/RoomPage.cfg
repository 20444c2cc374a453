\* Both kinds of room; a list of two, a quota of one short of it, overlapping saves.
CONSTANTS
    ITEMS_CAP = 2
    QUOTA = 1
    ORDERED = TRUE
    CALM = TRUE
    MaxItems = 3
    MaxSaves = 2
    MaxReloads = 1
SPECIFICATION FairSpec
INVARIANTS TypeOK SameList DiskCatchesUp PinnedKept
PROPERTIES DeliveredExpires
CHECK_DEADLOCK FALSE
