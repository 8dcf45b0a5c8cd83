SPECIFICATION Spec
CONSTANTS
    Threads = {t1, t2}
    Pids = {p1, p2}
    NoThread = NoThread
    NoPid = NoPid
    AutoStart = TRUE
SYMMETRY Symmetry
INVARIANTS
    LeaderAccounted
    SoleReaper
    StatusCoherent
    CleanupSparesNextLaunch
    GroupAccounted
    DestructorReaps
PROPERTIES
    StopOkLeavesNothing
    ExitKeepsIntent
    LifecycleImplemented
