\* Two devices, a data channel, and one fault; every capacity is reached, and the
\* offline queue empties.
CONSTANTS
    Devices = {a, b}
    NoDevice = none
    MaxClips = 2
    MaxDeletes = 1
    MAX_QUEUE = 1
    REPLAY_CAP = 2
    RECENT_CAP = 1
    TOMBSTONE_CAP = 1
    FRAME_LIMIT = 2
    BACKFILL = TRUE
    P2P = TRUE
    EARLY = FALSE
    PROMPT = FALSE
    FaultKinds = {"net", "reload", "restart", "channel"}
    MaxFaults = 1
SPECIFICATION FairSpec
INVARIANTS TypeOK RingShown RingClean
PROPERTIES QueueDrains
CHECK_DEADLOCK FALSE
