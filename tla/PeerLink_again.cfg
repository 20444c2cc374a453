\* The instance of PeerLink.cfg: what the hardening spec claims of reconnects.
CONSTANTS
    Devices = {a, b}
    Froms = {1, 2, 3, 4, 5}
    NoLink = none
    MaxFaults = 1
SPECIFICATION FairSpec
PROPERTIES SelfHeals
CHECK_DEADLOCK FALSE
