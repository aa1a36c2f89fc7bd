CONSTANTS
    MinDataPoints = 3
    Lossy = {}
    MinSamples = 4
    TrendSamples = 3
    MinSeries = 5
    Pods = {"web-1", "web-2", "other", "rep"}
    Owner <- MCOwner
    App <- MCApp
    Has <- MCHas
    MockPods = {"mock-0"}
    Usages <- MCBursts
    Thresholds <- MCThresholds
    Windows = {9}
    DefaultWindow = 5
    Hour = 3
    MaxPoints = 6
    Startup <- MCStartup
    Warmup = 6
    MaxClock = 9
    MaxEdits = 1
SPECIFICATION Spec
INVARIANT BurstsAreBursty
