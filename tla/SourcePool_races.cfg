SPECIFICATION Spec
CONSTANTS
    cron = cron
    u1 = u1
    u2 = u2
    Procs = {cron, u1, u2}
    Cron = cron
    Urls = {"acme.com", "jobs.acme.com", "board.com"}
    Labels = {"Acme Jobs discovery", "Acme discovery", "board"}
    Names = {"Acme Jobs", "Acme", "board"}
    Companies = {"Acme", "acme", "board"}
    Trimmed <- TrimmedLabels
    CompanyOf <- CompanyNames
    Folded <- LowerCase
    Rules <- OneRule
    WebResults <- NoResults
    Recommended <- SeedAcme
    Configured <- NoInputs
    Typed <- TypedBoard
    Pages <- SomePages
    ValidateLimit = 1
    MaxChecks = 0
    MaxSwitches = 1
    MaxFaults = 0
    MaxCrashes = 0
SYMMETRY Users
INVARIANTS TypeOK AcceptedHasSource
PROPERTIES SwitchReachesPages UserEnables
CHECK_DEADLOCK FALSE
