SPECIFICATION Spec
CONSTANTS
    Devices = {d1}
    Controls = {"volume"}
    Enumerators = {0}
    SurroundCodes = {}
    Volumes = {11, 111}
    Positions = {}
    StatusOrder <- MCStatusOrder
    ReadLimit = 2
    Limit <- MCWindowLimit
CHECK_DEADLOCK FALSE
INVARIANT VolumeAsReported
