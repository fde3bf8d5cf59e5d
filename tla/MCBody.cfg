SPECIFICATION FairBody
CONSTANTS
    Capacity = 5
    MAX_USER_PROPERTIES = 1
    Lens <- SomeLens
    StrLens = {0, 1}
    PropLens = {0, 3, 5, 10}
    VarLens = {1, 2}
    Names = {"ReasonString", "UserProperty", "TopicAlias", "ResponseTopic",
             "SubscriptionIdentifier", "SessionExpiryInterval", "AuthenticationData",
             "ResponseInformation"}
    Limits <- SomeLimits
INVARIANTS
    BodyTypeOK  ListEndsOnTime BufferSuffices LimitKept AcceptedUsable
PROPERTY BodyEnds
CHECK_DEADLOCK FALSE
