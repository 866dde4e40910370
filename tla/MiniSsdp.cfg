SPECIFICATION FairSpec
CONSTANTS
    c1 = c1
    c2 = c2
    Clients = {c1, c2}
    None = None
    Septet = 5
    VersionText <- MCVersionText
    Wanted <- MCWanted
    Submits <- MCSubmits
    Caches <- MCCaches
    Lengths <- MCLengths
    RxSize = 2
    Pieces = {7}
    Pipe = 16
    MaxRequests <- MCMaxRequests
    MaxReceives = 2
CHECK_DEADLOCK FALSE
INVARIANTS TypeOK ReadsExactly AnswerSuffices BridgeAtWork
PROPERTIES Answered
