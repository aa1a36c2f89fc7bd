CONSTANTS
    p1 = p1
    p2 = p2
    w1 = w1
    w2 = w2
    v1 = v1
    v2 = v2
    None = None
    Fires <- MCFires
    Kind <- MCKind
    Schedules = {"often"}
    Malformed = {}
    Minute = 1
    Hour = 2
    Day = 3
    Prs = {p1}
    Workloads = {w1}
    Targets <- Shared
    Specs <- Often
    Values = {v1}
    Workers = 1
    Prompt = FALSE
    MaxClock = 4
    MaxFaults = 1
    MaxEdits = 0
SPECIFICATION SpecPunctual
CHECK_DEADLOCK FALSE
INVARIANT NoSlotMissed
