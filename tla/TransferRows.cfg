\* The engine and its rows, web page or terminal at either end: one receiver;
\* reordered decryptions; a data channel that opens and closes; a relay that skips a
\* receiver with two chunks waiting.
CONSTANTS
    Receivers = {r1}
    Sender = s
    NoLink = none
    ChunkCount = 5
    ACK_INTERVAL = 2
    CREDIT_WINDOW = 3
    BUFFERED_AMOUNT_MAX = 1
    INLINE = FALSE
    PATIENT = FALSE
    P2P = TRUE
    MaxFaults = 2
SPECIFICATION RowsFairSpec
INVARIANTS TypeOK OnePump NoLostWakeup CountedOnce AckedWasReceived RowsTrue
PROPERTIES EndedStaysEnded StreamSpec StartedEnds
CHECK_DEADLOCK FALSE
