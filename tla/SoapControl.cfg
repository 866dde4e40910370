SPECIFICATION FairSpec
CONSTANTS
    Device = Device
    Calls <- MCCalls
    MaxCalls = 3
    MaxFailures = 1
    Peers = {Device}
    Nobody = Nobody
    Headers <- MCDeviceHeaders
    Bodies = {1}
    ChecksMethod = FALSE
    BufferSize = 7
    MaxPackets = 3
CHECK_DEADLOCK FALSE
INVARIANTS TypeOK AnswerBelongs NeverMisread SentAsAsked
PROPERTIES CallReturns
