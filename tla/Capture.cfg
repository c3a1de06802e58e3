SPECIFICATION Spec
CONSTANTS
    Poll = 5
    Threshold = 10
    Debounce = 3
    Cap = 2
    SigCap = 2
    Lag = 4
    Far = 20
    Lengths = {1, 12, 16}
    Service = TRUE
    MaxPowerSleeps = 3
    a = a
    b = b
    App <- MCApp
    Pulse = 2
    CommitAfter = 3
    IdleLimit = 2
    ChanCap = 2
    MaxTime = 5
    MaxSleeps = 1
SYMMETRY AppSymmetry
INVARIANTS TypeOK TimeIsCounted AwayIsNotCounted
PROPERTY SleepsAreTold
