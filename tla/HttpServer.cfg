SPECIFICATION Spec
CONSTANTS
    Thread = {a, b}
    Session = {s1, s2}
    MaxConnections = 1
    Capacity = 1
    MaxStarts = 2
    CallsOverlap = FALSE
    IoMayThrow = FALSE
SYMMETRY Symmetry
INVARIANTS
    StoppedIsQuiet
    RunningAccepts
    DrainReachesAll
    AcceptedIsAnswered
    CompletionIsFinal
