SPECIFICATION FairSpec
CONSTANTS
    Devices = {d1, d2}
    Controls = {"surround"}
    Enumerators = {0, 1, 2}
    SurroundCodes = {0, 1}
    Volumes = {}
    Positions = {}
    StatusOrder <- MCStatusOrder
    ReadLimit = 3
    Limit <- MCConnectLimit
CHECK_DEADLOCK FALSE
INVARIANTS TypeOK WindowAgrees ChosenPeer
PROPERTIES Settles ChosenIsReached
