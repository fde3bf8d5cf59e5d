SPECIFICATION OutgoingSpec
CONSTANTS
    MAX_USER_PROPERTIES = 1
    UserLen = 2
    Texts <- SomeTexts
    Messages <- SomeMessages
    Identifiers <- SomeIdentifiers
    RECEIVE_MAXIMA = {65534, 65535}
    Connacks <- SomeConnacks
    FilterChars = 5
INVARIANTS OutgoingTypeOK  Encodable WithinServerLimit NothingUnsupported TornIsAbandoned 
