\* Two devices, one fault, disconnects and the end of the room.
CONSTANTS
    Devices = {a, b}
    Froms = {1, 2, 3, 4, 5}
    NoLink = none
    MaxFaults = 1
SPECIFICATION FairSpec
INVARIANTS TypeOK DirectMeansOpen EndedStaysDown LinkIffCompany
PROPERTIES LinksForm
CHECK_DEADLOCK FALSE
