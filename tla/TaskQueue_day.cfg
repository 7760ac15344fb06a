SPECIFICATION Spec
CONSTANTS
    p1 = p1
    p2 = p2
    Procs = {p1, p2}
    Jobs = {"go"}
    Strong = {"go"}
    Gaps = {}
    Sources = {"meituan"}
    None = None
    DayLength = 2
    SLA = 1
    SnoozeFor = 1
    FollowUpDays = 1
    Ops = {"plans", "refresh", "escalate"}
    JobMoves = {"new", "interested"}
    UserStatuses = {"snoozed", "done"}
    DueDates = {1}
    MaxTime = 2
    MaxWork = 2
    MaxChanges = 1
    MaxEdits = 1
    MaxFaults = 1
SYMMETRY Goroutines
INVARIANTS TypeOK SyncCovers
PROPERTIES ObsoleteWhenClosed UserDecides
CHECK_DEADLOCK FALSE
