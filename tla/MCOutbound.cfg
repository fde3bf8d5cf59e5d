CONSTANTS
    PidMax = 2
    SUBSCRIBE_MAXIMUM = 1
    RECEIVE_MAXIMUM = 1
    SEND_MAXIMUM = 2
    MaxOutages = 3
    OutMsgs = {m1, m2}
    InMsgs = {}
    ExactlyOnce = {m1, m2}
    ReceiveMaxima = {2}
    MayReject = TRUE
    MayExpire = TRUE
    UnknownPubrelCode = "Success"
    QuotaSurvives = TRUE
    OutModes = {"Automatic", "Manual"}
    InModes = {"Automatic"}
    UserCodes = {"Success"}
    CleanStarts = {TRUE, FALSE}
    MaxRequests = 2
    MayRestart = TRUE
    m1 = m1
    m2 = m2
    m3 = m3

SPECIFICATION SystemSpec

INVARIANTS
    PassedOnAtMostOnce
    ConfirmedMeansPassedOn
    NoBreach
    NoFault
    

CHECK_DEADLOCK FALSE
