SPECIFICATION Spec
CONSTANTS
    p1 = p1
    p2 = p2
    Procs = {p1, p2}
    MaxRequests = 2
    MaxPlans = 2
    MaxPatches = 2
    MaxRepeats = 2
    MaxProposals = 1
    Decisions <- AllDecisions
    PlanTemplates <- RaceTemplates
    CrawlCounts <- OneCount
    Faults = {"db", "tool", "crash"}
SYMMETRY Symmetry
INVARIANTS ApprovalGate ReceiptEarned PlanStatusDerived StepsEarned
CHECK_DEADLOCK FALSE
