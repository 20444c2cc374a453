\* An id that is used again after its room has expired; two sockets; one restart;
\* limits of two calls that the callers reach; two releases.
CONSTANTS
    RoomIds = {x}
    Sockets = {p, q}
    None = none
    maxAgeMs = 2
    idleTimeoutMs = 0
    GC_INTERVAL = 1
    FRESH = TRUE
    MaxRooms = 2
    MaxTime = 4
    MaxRestarts = 1
    Ips = {ip}
    ROOM_IP_LIMIT = 2
    ROOM_WINDOW = 2
    WS_CONNECT_IP_LIMIT = 2
    WS_WINDOW = 1
    MaxReleases = 2
SPECIFICATION ApiSpec
INVARIANTS TypeOK MembersReachable RoomsIsolated UrlLasts HardCeiling ExactlyTheLimit
PROPERTIES ReleaseKept
CHECK_DEADLOCK FALSE
