CONSTANTS
    PidMax = 2
    SUBSCRIBE_MAXIMUM = 1
    RECEIVE_MAXIMUM = 1
    SEND_MAXIMUM = 2

SPECIFICATION Spec

INVARIANTS
    TypeOK
    UniqueIdentifiers
    
    ResumeAcceptsRetransmission

PROPERTIES
    ImplementsHandshakes
