SPECIFICATION Spec
CONSTANTS
    Calls = {1, 2}
    ProfileCalls = {1}
    Me = 0
    Sessions = {1, 2}
    MustChange = {2}
    NoTokens = NoTokens
    Nobody = Nobody
    MaxExpiries = 2
    MaxCallFaults = 1
    LastSocket = 4
    MaxOpening = 2
    MaxDelay = 2
    MaxBreaks = 4
    Events = {e1, e2}
    Silent = {e2}
    LastRow = 2
    Marks = {1, 2}
    MaxReturns = 1
    MaxLosses = 1
    MaxLoads = 2
    NoEvent = NoEvent
    Toasts = {t1, t2, t3, t4}
    NoToast = NoToast
    Window = 3
    MaxQueued = 2
    MaxTicks = 9
    Links = {1, 2, 3}
    NoSub = NoSub
    Bearer <- MCBearer
    Fans = {1}
    For <- MCFor
    MaxHitches = 2
    Emails = {"a", "b"}
    Accounts = {"a"}
    Forced = {"b"}
    Submits = {1, 2, 3}
    NoEmail = NoEmail
    NoChallenge = NoChallenge
    Unheard = Unheard
CHECK_DEADLOCK FALSE
INVARIANTS
    SessionHonest
    TabStaysLive
    InboxHonest
    ToastsServe
    TabsHear
    AuthPagesHonest
