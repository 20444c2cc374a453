\* The flow-control wedge: ACK_INTERVAL and CREDIT_WINDOW in the code's ratio.
CONSTANTS
    Receivers = {r1}
    Sender = s
    NoLink = none
    ChunkCount = 7
    ACK_INTERVAL = 2
    CREDIT_WINDOW = 4
    BUFFERED_AMOUNT_MAX = 8
    INLINE = TRUE
    PATIENT = TRUE
    P2P = FALSE
    MaxFaults = 0
SPECIFICATION Spec
INVARIANTS StallMeansSilent
CHECK_DEADLOCK FALSE
