SPECIFICATION FairLifeSpec
CONSTANTS
    a = a
    b = b
    Services = {a, b}
    Order <- TwoServices
    AutoStarted = {a}
    Clock <- MCClock
    Horizon = 1
    OperatorCalls = 1
    Threshold = 2
    OnUnhealthy = TRUE
    OnCritical = FALSE
    MaxRestarts = 1
    Window = 1
    Backoff = 1
    Grace = 1
    Cooldown = 3
    EventCapacity = 1
    NoTime = NoTime
    NoService = NoService
INVARIANTS
    NothingIsLeftRunning
PROPERTIES
    SignalEndsAgent
CHECK_DEADLOCK FALSE
