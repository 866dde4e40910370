SPECIFICATION FairSpec
CONSTANTS
    connectionManager = connectionManager
    renderingControl = renderingControl
    uris <- MCuris
    Period = 1
    Malformed = {0}
    Peers = {first, second}
    Nobody = Nobody
    Headers <- MCDeviceHeaders
    Bodies = {0, 1}
    ChecksMethod = TRUE
    BufferSize = 5
    MaxPackets = 2
CHECK_DEADLOCK FALSE
INVARIANTS TypeOK PacketsInOrder NothingHeldBack LapsesOnlyWhileRenewing
PROPERTIES AllReturned EverySubscribed
