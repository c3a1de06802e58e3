SPECIFICATION FairSpec
CONSTANTS
    d1 = d1
    d2 = d2
    u1 = u1
    Device = {d1}
    User = {u1}
    Owner <- MCOwner
    None = none
    Threshold = 3
    Window = 3
    IdleAfter = 1
    OfflineAfter = 2
    MaxFaults = 0
PROPERTIES PresenceConverges
CHECK_DEADLOCK FALSE
