SPECIFICATION FairSpec
CONSTANTS
    sustained = sustained
    RuleOrder <- OneRule
    Duration <- OneDuration
    Pids = {1}
    MaxProcesses = 2
    HistoryCapacity = 2
    ResolvedCapacity = 2
    Horizon = 1
    MaxSetBack = 1
    NoProcess = NoProcess
    NoTime = NoTime
    NoAlert = NoAlert
INVARIANTS
    LoadIsOfOneProcess
    FiresAfterDuration
    AcknowledgedAsAsked
PROPERTIES
    LossNeedsClockBack
    StoppedIsResolved
