SPECIFICATION FairSpec
CONSTANTS
    Thread = {a, b}
    Session = {s1}
    MaxConnections = 1
    Capacity = 1
    MaxStarts = 1
    CallsOverlap = FALSE
    IoMayThrow = TRUE
PROPERTIES
    CallsReturn
