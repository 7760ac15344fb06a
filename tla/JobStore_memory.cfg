SPECIFICATION Spec
CONSTANTS
    p1 = p1
    p2 = p2
    job = job
    landing = landing
    blank = blank
    note = note
    Procs <- MCProcs
    Jobs <- MCJobs
    Concrete <- MCConcrete
    Profile = Profile
    Reflection = Reflection
    Texts <- MCTexts
    Blank = blank
    Choices <- MCChoices
    None = None
    Qdrant = TRUE
    MaxRequests = 3
    MaxFaults = 1
SYMMETRY Symmetry
INVARIANTS TypeOK LogExplains MemoryMatches RebuildRepairs UserDecisionKept PointsMatch
CHECK_DEADLOCK FALSE
