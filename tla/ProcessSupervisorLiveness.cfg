SPECIFICATION FairSpec
CONSTANTS
    Threads = {t1}
    Pids = {p1, p2}
    NoThread = NoThread
    NoPid = NoPid
    AutoStart = FALSE
PROPERTIES
    OperationsReturn
    ExitIsPublished
