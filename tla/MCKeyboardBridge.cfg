SPECIFICATION FairSpec
CONSTANTS
    s1 = s1
    s2 = s2
    Sources <- MCSources
    Keys <- TwoKeys
    ToggleKeys = {}
    FrontendKeyIds <- TwoKeys
    LeftShift = "LeftShift"
    RightShift = "RightShift"
    Frontend <- TwoFrontend
    NoKey = "none"
    MaxActiveSources = 1
    Capacity = 2
    Batch = 2
    MaxCalls = 2
    MaxRearms = 1
INVARIANTS NoStuckKey GuestAgrees
PROPERTIES OverflowRecovered
CHECK_DEADLOCK FALSE
