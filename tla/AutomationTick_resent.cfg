SPECIFICATION Spec
CONSTANTS
    Procs = {p1}
    None = None
    DayLength = 3
    DutyTime = 1
    Offset = 1
    Interval = 2
    Choices <- MCChoices
    DefaultChoice <- MCDefaultChoice
    Prefs = {"a", "b"}
    Fallback = FALSE
    StartTime = 1
    MaxTime = 5
    MaxRequests = 1
    MaxFaults = 0
    MaxEvents = 2
INVARIANTS OncePerDay
CHECK_DEADLOCK FALSE
