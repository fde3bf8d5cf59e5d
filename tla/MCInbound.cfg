CONSTANTS
    PidMax = 2
    SUBSCRIBE_MAXIMUM = 0
    RECEIVE_MAXIMUM = 2
    SEND_MAXIMUM = 1
    MaxOutages = 2
    OutMsgs = {}
    InMsgs = {m1, m2, m3}
    ExactlyOnce = {m1, m2}
    ReceiveMaxima = {2}
    MayReject = FALSE
    MayExpire = FALSE
    UnknownPubrelCode = "Success"
    QuotaSurvives = TRUE
    OutModes = {"Automatic"}
    InModes = {"Manual"}
    UserCodes = {"Success", "UnspecifiedError"}
    CleanStarts = {FALSE}
    MaxRequests = 0
    MayRestart = TRUE
    m1 = m1
    m2 = m2
    m3 = m3

SPECIFICATION SystemSpec

INVARIANTS
    HandedOverAtMostOnce
    FinishedMeansHandedOver
    NoBreach
    
    

CHECK_DEADLOCK FALSE
