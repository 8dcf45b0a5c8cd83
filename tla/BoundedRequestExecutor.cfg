SPECIFICATION FairSpec
CONSTANTS
    Worker = {w1, w2, w3}
    Caller = {c1, c2}
    Task = {k1, k2, k3}
    Capacity = 2
    Owner = owner
    NoTask = NoTask
INVARIANTS
    NoIdleBacklog
PROPERTIES
    IsRequestGate
    AcceptedIsRun
    OwnerReturns
