SPECIFICATION FairSpec
CONSTANTS
    MaxWrites = 2
    MaxHops = 2
    MaxFaults = 1
INVARIANT ShowsOwnWrites
PROPERTY PollCatchesUp
CHECK_DEADLOCK FALSE
