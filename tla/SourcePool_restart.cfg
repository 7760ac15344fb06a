SPECIFICATION FairSpec
CONSTANTS
    cron = cron
    u1 = u1
    u2 = u2
    Procs = {cron, u1}
    Cron = cron
    Urls = {"acme.com", "jobs.acme.com", "board.com"}
    Labels = {"Acme Jobs discovery", "Acme discovery", "board"}
    Names = {"Acme Jobs", "Acme", "board"}
    Companies = {"Acme", "acme", "board"}
    Trimmed <- TrimmedLabels
    CompanyOf <- CompanyNames
    Folded <- LowerCase
    Rules <- OneRule
    WebResults <- RenamedResults
    Recommended <- NoInputs
    Configured <- StartBoard
    Typed <- NoTyped
    Pages <- SomePages
    ValidateLimit = 1
    MaxChecks = 1
    MaxSwitches = 0
    MaxFaults = 1
    MaxCrashes = 1
INVARIANTS VerdictBacked
PROPERTIES DecidedIsKept ProposalsListed
CHECK_DEADLOCK FALSE
