SPECIFICATION Spec
CONSTANTS
    p1 = p1
    p2 = p2
    Procs = {p1}
    Jobs = {"go"}
    Strong = {"go"}
    Gaps = {}
    Sources = {}
    None = None
    DayLength = 3
    SLA = 3
    SnoozeFor = 3
    FollowUpDays = 7
    Ops = {"refresh", "escalate"}
    JobMoves = {"interested", "ignored"}
    UserStatuses = {"open", "snoozed", "done"}
    DueDates = {None}
    MaxTime = 6
    MaxWork = 2
    MaxChanges = 0
    MaxEdits = 0
    MaxFaults = 0
INVARIANTS OverdueMarked
CHECK_DEADLOCK FALSE
