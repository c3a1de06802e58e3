SPECIFICATION FairSpec
CONSTANTS
    loop = loop
    resume = resume
    Loop = loop
    Resumes = {resume}
    Store = "supabase"
    Limit = 2
    MaxShots = 2
    MaxFaults = 1
INVARIANTS NothingLost SavedIsIntact
PROPERTY FilesGoAway
