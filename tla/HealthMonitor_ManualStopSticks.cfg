SPECIFICATION Spec
CONSTANTS
    a = a
    b = b
    Services = {a}
    Order <- OneService
    AutoStarted = {}
    Clock <- MCClock
    Horizon = 2
    OperatorCalls = 2
    Threshold = 2
    OnUnhealthy = TRUE
    OnCritical = FALSE
    MaxRestarts = 1
    Window = 2
    Backoff = 1
    Grace = 1
    Cooldown = 3
    EventCapacity = 1
    NoTime = NoTime
    NoService = NoService
PROPERTY ManualStopSticks
