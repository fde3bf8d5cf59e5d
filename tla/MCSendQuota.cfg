CONSTANTS
    PidMax = 3
    SUBSCRIBE_MAXIMUM = 0
    RECEIVE_MAXIMUM = 1
    SEND_MAXIMUM = 3
    MaxOutages = 1
    OutMsgs = {m1, m2, m3}
    InMsgs = {}
    ExactlyOnce = {}
    ReceiveMaxima = {1, 3}
    MayReject = FALSE
    MayExpire = FALSE
    UnknownPubrelCode = "Success"
    QuotaSurvives = TRUE
    OutModes = {"Automatic"}
    InModes = {"Automatic"}
    UserCodes = {"Success"}
    CleanStarts = {FALSE}
    MaxRequests = 0
    MayRestart = FALSE
    m1 = m1
    m2 = m2
    m3 = m3

SPECIFICATION SystemSpec

PROPERTIES
    PublishWithinReceiveMaximum

CHECK_DEADLOCK FALSE
