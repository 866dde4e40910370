SPECIFICATION Spec
CONSTANTS
    e1 = e1
    e2 = e2
    wrong = wrong
    default = default
    other = other
    r1 = r1
    r2 = r2
    Run = {r1, r2}
    Itf = {e1, e2}
    SocketName = {default, other}
    DefaultSocket = default
    Unset = Unset
    Garbage = Garbage
    None = None
    Commands <- MCCommands
    Homes <- MCHomes
    MaxStarts = 3
CHECK_DEADLOCK FALSE
SYMMETRY Symmetry
INVARIANTS TypeOK
PROPERTIES BridgeUsesChosen
