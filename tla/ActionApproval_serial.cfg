SPECIFICATION FairSpec
CONSTANTS
    p1 = p1
    p2 = p2
    Procs = {p1}
    MaxRequests = 5
    MaxPlans = 2
    MaxPatches = 2
    MaxRepeats = 1
    MaxProposals = 1
    Decisions <- FinalDecisions
    PlanTemplates <- SerialTemplates
    CrawlCounts <- TwoCounts
    Faults = {}
INVARIANT ResolvedPlanIsDone
PROPERTY QueueDrains
CHECK_DEADLOCK FALSE
