CONSTANTS
    PidMax = 2
    SUBSCRIBE_MAXIMUM = 0
    RECEIVE_MAXIMUM = 1
    SEND_MAXIMUM = 1
    MaxOutages = 2
    OutMsgs = {}
    InMsgs = {m1}
    ExactlyOnce = {m1}
    ReceiveMaxima = {2}
    MayReject = FALSE
    MayExpire = FALSE
    UnknownPubrelCode = "Success"
    QuotaSurvives = TRUE
    OutModes = {"Automatic"}
    InModes = {"Automatic"}
    UserCodes = {"Success"}
    CleanStarts = {FALSE}
    MaxRequests = 0
    MayRestart = FALSE
    m1 = m1
    m2 = m2
    m3 = m3

SPECIFICATION SystemSpec

INVARIANTS
    FinishedMeansHandedOver

CHECK_DEADLOCK FALSE
