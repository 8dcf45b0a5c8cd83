SPECIFICATION FairSpec
CONSTANTS
    s1 = s1
    s2 = s2
    Service = {s1, s2}
    NoService = NoService
    Configurations = {{s1, s2}, {s2}}
    WindowArea = {}
    PanelArea = {"alerts"}
    Outcomes = {"running"}
    Changes = {"busy"}
    MaxClicks = 2
    MaxFaults = 1
INVARIANTS
    ShownIsOfSelected
    FlagsAreAnswered
    ButtonsFit
PROPERTIES
    OutcomeStays
    ScreenCatchesUp
