SPECIFICATION FairSpec
CONSTANTS
    e1 = e1
    e2 = e2
    e3 = e3
    tick = tick
    resume = resume
    None = none
    Tick = tick
    Event <- MCEvents3
    Resumes <- MCResumes
    MaxBatch = 2
    BatchSize = 2
    MaxRows = 1
    MaxCrashes = 1
    MaxCalls = 2
INVARIANTS HeldOnce DeletesOnlyAccepted
PROPERTIES ObservedIsSettled IsAtLeastOnce OldestGoFirst CleanExitLosesNothing
