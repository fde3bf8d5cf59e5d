CONSTANTS
    Base = 2
    Reserved = {0, 1}
    MaxUnread = 2
    CutsHeaders = FALSE

SPECIFICATION HeaderSpec

INVARIANTS
    HeaderTypeOK
    HeadersAsSent
