CONSTANTS
    p1 = p1
    p2 = p2
    MinDataPoints = 2
    Lossy = {150, 600, 200}
    Pods = {p1, p2}
    Containers = 2
    Histories <- MCHistories
    Thresholds <- MCThresholds
    Starts <- MCStarts
    MaxEdits = 0
SPECIFICATION Spec
CHECK_DEADLOCK FALSE
PROPERTY MinChangeHeld
