CONSTANTS
    p1 = p1
    p2 = p2
    w1 = w1
    w2 = w2
    v1 = v1
    v2 = v2
    None = None
    Fires <- MCFires
    Kind <- MCKind
    Schedules = {"hourly", "never", "bad"}
    Malformed = {"bad"}
    Minute = 1
    Hour = 2
    Day = 3
    Prs = {p1}
    Workloads = {w1, w2}
    Targets <- Shared
    Specs <- Mixed
    Values = {v1, v2}
    Workers = 1
    Prompt = FALSE
    MaxClock = 3
    MaxFaults = 1
    MaxEdits = 1
SYMMETRY Symmetric
SPECIFICATION SpecSeen
CHECK_DEADLOCK FALSE
INVARIANTS
    TypeOK
    OnlyRecommended
    CopiesAgree
    NeverForgotten
PROPERTIES
    OneAnalysisPerSlot
    ImplementsSlots
    UpdatesHoldNewest
