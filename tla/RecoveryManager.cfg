SPECIFICATION PolicySpec
CONSTANTS
    Clock <- MCClock
    Services = {a, b}
    AutoStarted = {}
    OnUnhealthy = TRUE
    OnCritical = TRUE
    MaxRestarts = 2
    Window = 2
    Backoff = 1
    Grace = 1
    Cooldown = 2
    EventCapacity = 2
    NoTime = NoTime
    NoService = NoService
SYMMETRY Symmetry
INVARIANTS
    BudgetHolds
    AttemptsSpaced
    JournalPairs
PROPERTY OutcomeIsJournalled
