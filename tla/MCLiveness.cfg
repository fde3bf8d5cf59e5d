CONSTANTS
    PidMax = 2
    SUBSCRIBE_MAXIMUM = 0
    RECEIVE_MAXIMUM = 2
    SEND_MAXIMUM = 2
    MaxOutages = 2
    OutMsgs = {m1}
    InMsgs = {m2}
    ExactlyOnce = {m1, m2}
    ReceiveMaxima = {2}
    MayReject = FALSE
    MayExpire = FALSE
    UnknownPubrelCode = "Success"
    QuotaSurvives = TRUE
    OutModes = {"Automatic", "Manual"}
    InModes = {"Automatic", "Manual"}
    UserCodes = {"Success"}
    CleanStarts = {FALSE}
    MaxRequests = 0
    MayRestart = FALSE
    m1 = m1
    m2 = m2
    m3 = m3

SPECIFICATION FairSystem

PROPERTIES
    EventuallyConfirmed
    EventuallySettled

CHECK_DEADLOCK FALSE
