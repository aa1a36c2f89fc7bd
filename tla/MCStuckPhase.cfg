CONSTANTS
    p1 = p1
    p2 = p2
    w1 = w1
    w2 = w2
    v1 = v1
    v2 = v2
    None = None
    Fires <- MCFires
    Kind <- MCKind
    Schedules = {"often"}
    Malformed = {}
    Minute = 1
    Hour = 2
    Day = 3
    Prs = {p1}
    Workloads = {w1}
    Targets <- Shared
    Specs <- OftenOrDry
    Values = {v1}
    Workers = 1
    Prompt = TRUE
    MaxClock = 3
    MaxFaults = 0
    MaxEdits = 1
SPECIFICATION Spec
CHECK_DEADLOCK FALSE
INVARIANT PhaseSettles
