\* Two devices; a window of three frames; a room for three sockets, so that ghosts
\* can fill it.  A unit is about eight seconds.
CONSTANTS
    Devices = {a, b}
    heartbeatMs = 1
    sweepMs = 1
    ttlMs = 2
    pruneDelayMs = 1
    maxPeers = 3
    frameLimit = 3
    frameWindowMs = 1
    MaxEvents = 1
SPECIFICATION FairSpec
INVARIANTS TypeOK NobodyMissing
PROPERTIES RosterSettles
CHECK_DEADLOCK FALSE
