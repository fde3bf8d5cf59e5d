CONSTANTS
    PidMax = 1
    SUBSCRIBE_MAXIMUM = 1
    RECEIVE_MAXIMUM = 1
    SEND_MAXIMUM = 1
    MaxOutages = 2
    MaxQueue = 1
    ReceiveMaxima = {1}
    Limits = {TRUE}

SPECIFICATION OpenSpec

INVARIANTS
    OpenTypeOK
    AwaitedAnswersAreOwed

PROPERTIES
    FaultedSendsOnlyDisconnect
    NoResendOnSameConnection
    
    

CHECK_DEADLOCK FALSE
