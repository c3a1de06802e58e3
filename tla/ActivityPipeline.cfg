SPECIFICATION PipelineSpec
CONSTANTS
    tick = tick
    resume = resume
    None = none
    Event = {e1, e2}
    Tick = tick
    Resumes = {resume}
    MaxBatch = 2
    BatchSize = 1
    MaxRows = 1
    MaxCrashes = 1
    MaxCalls = 1
    Worker = {api1}
    ReadLimit = 1
    MaxSent = 2
SYMMETRY EventSymmetry
PROPERTY EndToEndAtLeastOnce
