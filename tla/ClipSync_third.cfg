\* Two of three devices have a data channel.
CONSTANTS
    Devices = {a, b, c}
    NoDevice = none
    MaxClips = 1
    MaxDeletes = 0
    MAX_QUEUE = 3
    REPLAY_CAP = 3
    RECENT_CAP = 3
    TOMBSTONE_CAP = 3
    FRAME_LIMIT = 9
    BACKFILL = TRUE
    P2P = TRUE
    EARLY = FALSE
    PROMPT = TRUE
    FaultKinds = {"net", "reload", "restart", "channel"}
    MaxFaults = 0
SPECIFICATION Spec
INVARIANTS AllHaveAll
CHECK_DEADLOCK FALSE
