SPECIFICATION Spec
CONSTANTS
    p = p
    q = q
    r = r
    NoPhone = NoPhone
    InquiryAlways = FALSE
    Macs = {}
    AutoCount = 1
    RetryCount = 1
    MaxSurprises = 2
    TellsFailure = {TRUE, FALSE}
    LossReasons = {"timeout", "other"}
    Phones = {p, q, r}
    Paired <- MCPaired
    MaxAg = 2
    Profiles = {"HFP", "A2DP", "AVRCP"}
    SdpResults <- SdpAny
    Refused = {"page", "auth", "encrypt"}
    MayFail = {"auth", "encrypt", "sdp", "HFP", "A2DP", "AVRCP", "missing", "resources"}
    ByPhone = {"call", "encrypt", "connect", "disconnect", "play", "button"}
INVARIANTS TypeOK LinkHasEntity WaiterIsAnswered OneWaits RetryIsFresh
PROPERTY LinkIsLive
