CONSTANTS
    MinDataPoints = 3
    Lossy = {}
    MinSamples = 4
    TrendSamples = 3
    MinSeries = 5
    Pods = {"web-1", "web-2", "other", "rep"}
    Owner <- MCOwner
    App <- MCApp
    Has <- MCHas
    MockPods = {"mock-0", "mock-1"}
    Usages <- MCUsages
    Thresholds <- MCThresholds
    Windows <- MCWindows
    DefaultWindow = 5
    Hour = 3
    MaxPoints = 6
    Startup <- MCStartup
    Warmup = 6
    MaxClock = 8
    MaxEdits = 1
SPECIFICATION Spec
INVARIANT OwnSamples
