SPECIFICATION Spec
CONSTANTS
    Devices = {d1}
    Controls = {"volume", "mode", "mute", "drc"}
    Enumerators = {0}
    SurroundCodes = {0}
    Volumes = {2, 111}
    Positions = {1}
    StatusOrder <- MCStatusOrder
    ReadLimit = 2
    Limit <- MCWindowLimit
CHECK_DEADLOCK FALSE
INVARIANT WindowAgrees
