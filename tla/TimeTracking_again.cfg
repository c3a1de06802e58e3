SPECIFICATION Spec
CONSTANTS
    MaxRequests = 4
    MaxInFlight = 2
    Employee = {1}
    StartTime = {27, 28}
    Zone = {0, 1}
    Named = {}
PROPERTY RefusedIsClockedIn
CHECK_DEADLOCK FALSE
