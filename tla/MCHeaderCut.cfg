CONSTANTS
    Base = 2
    Reserved = {0, 1}
    MaxUnread = 1
    CutsHeaders = TRUE

SPECIFICATION HeaderSpec

INVARIANTS
    HeadersAsSent
