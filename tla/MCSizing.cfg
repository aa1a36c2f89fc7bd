CONSTANTS
    p1 = p1
    p2 = p2
    MinDataPoints = 2
    Lossy = {150, 600, 200}
    Pods = {p1, p2}
    Containers = 1
    Histories <- MCHistories
    Thresholds <- MCThresholds
    Starts <- MCStarts
    MaxEdits = 1
SPECIFICATION FairSpec
CHECK_DEADLOCK FALSE
INVARIANTS
    WithinBounds
    CoversSamples
PROPERTIES
    Settles
    RestKept
