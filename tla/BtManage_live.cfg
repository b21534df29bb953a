SPECIFICATION FairSpec
CONSTANTS
    p = p
    q = q
    r = r
    NoPhone = NoPhone
    InquiryAlways = FALSE
    Macs = {}
    AutoCount = 1
    RetryCount = 1
    MaxSurprises = 1
    TellsFailure = {TRUE, FALSE}
    LossReasons = {"timeout", "other"}
    Phones = {p}
    Paired <- MCPaired
    MaxAg = 1
    Profiles = {"A2DP", "AVRCP"}
    SdpResults <- SdpMusic
    Refused = {}
    MayFail = {"AVRCP"}
    ByPhone = {"late", "button"}
PROPERTIES AttemptEnds PhoneIsServed
