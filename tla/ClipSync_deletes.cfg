\* The ring and the ReplaySet at their bound, deletes with one tombstone to spare.
CONSTANTS
    Devices = {a, b}
    NoDevice = none
    MaxClips = 3
    MaxDeletes = 2
    MAX_QUEUE = 2
    REPLAY_CAP = 3
    RECENT_CAP = 2
    TOMBSTONE_CAP = 1
    FRAME_LIMIT = 4
    BACKFILL = TRUE
    P2P = FALSE
    EARLY = FALSE
    PROMPT = TRUE
    FaultKinds = {"net", "reload", "restart"}
    MaxFaults = 1
SPECIFICATION Spec
INVARIANTS ForeignClipOnce DeleteReachesAll AllHaveAll
SYMMETRY Symmetric
CHECK_DEADLOCK FALSE
