SPECIFICATION FairSpec
CONSTANTS
    Body = {events}
    Worker = {api1, api2}
    ReadLimit = 2
    MaxSent = 2
INVARIANT SharedOnlyAfterTimeout
PROPERTIES AcknowledgedIsStored StoredLeavesQueue NeverLosesAMessage
