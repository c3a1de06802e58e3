SPECIFICATION Spec
CONSTANTS
    MaxRequests = 3
    MaxInFlight = 2
    Email = {3}
    Roles = {"employee"}
    Employee = {1}
    StartTime = {27, 28}
    Zone = {1}
    Named = {27}
    MaxClockRequests = 4
    Kind = {"project", "task", "milestone", "comment", "geofence", "rule", "endpoint", "delivery", "slack", "notice", "organization"}
    MaxEvents = 3
    MaxBillingRequests = 4
    MaxSockets = 2
    MaxFrames = 3
    Cap = 2
    MaxFaults = 1
    Viewer = {"v1", "v2"}
    Device = {"d1", "d2"}
    TTL = 4
    MaxOpens = 2
    MaxCalls = 3
    MaxPeriods = 3
    Replica = {"a", "b"}
    Screenshot = {1, 2, 3}
    Batch = 2
    MaxNights = 2
    MaxErrors = 1
INVARIANTS SecretsAreUsedOnce SessionsEnd SessionsAreCounted StatusFollowsStripe AgentIsReachable LiveViewsEnd  ImagesHaveRows
PROPERTIES AccountsKeepWrites TimesheetsAreFinal RecordsKeepWrites
CHECK_DEADLOCK FALSE
