SPECIFICATION FairSpec
CONSTANTS
    loop = loop
    rows1 = rows1
    shots1 = shots1
    Main = loop
    SyncWorkers <- MCSyncWorkers
    SyncKind <- MCSyncKind
    ResumeWorkers = {}
    LiveView = FALSE
    Threshold = 2
    ResetAfter = 1
    FailureCap = 4
PROPERTY RecoversWithServer
