SPECIFICATION Spec
CONSTANTS
    Threads = {t1}
    Pids = {p1}
    NoThread = NoThread
    NoPid = NoPid
    AutoStart = FALSE
PROPERTY StopOkIsStopped
