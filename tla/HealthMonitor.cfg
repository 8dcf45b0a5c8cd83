SPECIFICATION FairSpec
CONSTANTS
    a = a
    b = b
    Services = {a, b}
    Order <- TwoServices
    AutoStarted = {a}
    Clock <- MCClock
    Horizon = 3
    OperatorCalls = 1
    Threshold = 2
    OnUnhealthy = TRUE
    OnCritical = FALSE
    MaxRestarts = 1
    Window = 2
    Backoff = 1
    Grace = 1
    Cooldown = 3
    EventCapacity = 1
    NoTime = NoTime
    NoService = NoService
INVARIANTS
    NeverUpIsLeftAlone
PROPERTIES
    WantedIsRetried
    PolicyIsKept
