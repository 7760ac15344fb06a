---------------------------- MODULE AutomationTick ----------------------------
(***************************************************************************)
(* The automation of the process: every minute cron starts a goroutine     *)
(* that may discover sources, make the day's work plan and send the duty   *)
(* report, while requests save the settings from the form, from a command  *)
(* or after a report sent by hand.  The settings are one row that everyone *)
(* reads and writes as a whole.  Every statement and every POST is one     *)
(* action.                                                                 *)
(***************************************************************************)
EXTENDS Integers, FiniteSets

CONSTANTS
    Procs,       \* goroutines: ticks and requests at work at the same time
    None,        \* no row, no date
    DayLength,   \* a day in minutes
    DutyTime,    \* duty_report_time, in minutes after local midnight
    Offset,      \* local time is UTC and Offset minutes
    Interval,    \* source_discovery_interval_hours, in minutes
    Choices,     \* what the user may save in the form
    DefaultChoice, \* what DefaultSettings has instead
    Prefs,       \* the preferences a command may set: cities and directions
    Fallback,    \* the environment has a webhook
    StartTime,   \* when the process is started
    MaxTime,     \* bound: the clock
    MaxRequests, \* bound: requests of the user
    MaxFaults,   \* bound: failing statements and POSTs, crashes and signals
    MaxEvents    \* bound: requests and faults together

Choice == [prefs : Prefs, report : BOOLEAN, discovery : BOOLEAN, hook : BOOLEAN]

ASSUME TickAssumption ==
    /\ None \notin Nat
    /\ {DayLength, Interval} \subseteq Nat \ {0} /\ DutyTime \in 0..(DayLength - 1)
    /\ Offset \in Nat
    /\ Choices \subseteq Choice /\ DefaultChoice \in Choice
    /\ ~DefaultChoice.report /\ DefaultChoice.discovery /\ ~DefaultChoice.hook
    /\ Fallback \in BOOLEAN
    /\ {StartTime, MaxTime, MaxRequests, MaxFaults, MaxEvents} \subseteq Nat

VARIABLES
    now,       \* the clock, UTC
    life,      \* of the process and its scheduler
    settings,  \* the row app_settings, None before the first save
    plans,     \* agent_plans of source automation, by created_at
    procs,     \* local variables of the goroutines
    chosen,    \* history: what the user asked for last
    sent,      \* history: ticks whose report was delivered, by their time
    byHand,    \* history: days on which a request delivered a report
    late,      \* history: marks a request made on a day after its delivery
    lapsed,    \* history: days whose mark was lost or never made
    overlaps,  \* history: ticks at work together with another, by their time
    excused,   \* history: days on which a report was not wanted or not possible
    struck,    \* history: ticks that a failing statement or POST ended or misled
    stale,     \* history: goroutines whose copy of the settings is out of date
    clobbered, \* history: a copy out of date undid what the user had chosen
    spent      \* bounds: requests and faults so far

vars == <<now, life, settings, plans, procs, chosen, sent, byHand, late, lapsed, overlaps,
          excused, struck, stale, clobbered, spent>>
deliveries == <<sent, byHand, late>>

Settings == [choice : Choice, reported : Nat \cup {None}, discovered : Nat \cup {None}]
\* The absent row is none of the rows.
ASSUME RowAssumption == None \notin Settings
DefaultSettings == [choice |-> DefaultChoice, reported |-> None, discovered |-> None]
Proc ==
    [op : {"none", "tick", "report", "command"},
     pc : {"idle", "read", "discover", "discovered", "plan", "insert", "webhook", "send",
           "mark", "save"},
     at : Nat,       \* the time a tick is given
     prefs : Prefs,  \* what a command asks for
     day : Nat,      \* history: the day on which a request delivered its report
     copy : Settings]
Spent == [requests : 0..MaxRequests, faults : 0..MaxFaults]

Idle == [op |-> "none", pc |-> "idle", at |-> 0, prefs |-> DefaultChoice.prefs, day |-> 0,
         copy |-> DefaultSettings]

\* What GetSettings answers when its statement does not fail.
Row == IF settings = None THEN DefaultSettings ELSE settings

\* The local date of a time; the date of a plan is the UTC one.
Day(t) == (t + Offset) \div DayLength
PlanDay(t) == t \div DayLength
Due(t) == (t + Offset) % DayLength >= DutyTime
Marked(s, d) == s.reported # None /\ Day(s.reported) = d
Hook(s) == s.choice.hook \/ Fallback
Wanted(s) == s.choice.report /\ Hook(s)

ShouldSendDutyReport(s, t) == s.choice.report /\ Due(t) /\ ~Marked(s, Day(t))
ShouldRunSourceDiscovery(s, t) ==
    /\ s.choice.discovery
    /\ s.discovered = None \/ s.discovered + Interval <= t

\* Mutant: the dates are the zero time instead of nil.
FormZero(choice) == [choice |-> choice, reported |-> -1, discovered |-> -1]
\* The form does not send the dates the row has, so that a save erases them.
Form(choice) == [choice |-> choice, reported |-> None, discovered |-> None]

Init ==
    /\ now = StartTime /\ life = "running"
    /\ settings \in {None} \cup {Form(c) : c \in Choices}
    /\ plans = {}
    /\ procs = [p \in Procs |-> Idle]
    /\ chosen = Row.choice
    /\ sent = {} /\ byHand = {} /\ late = {} /\ lapsed = {} /\ overlaps = {}
    /\ excused = {} /\ struck = {}
    /\ stale = [p \in Procs |-> FALSE] /\ clobbered = FALSE
    /\ spent = [requests |-> 0, faults |-> 0]

At(p, pc) == procs[p].pc = pc
Runs(p, op, pc) == procs[p].op = op /\ At(p, pc)
Goto(p, l) == procs' = [procs EXCEPT ![p] = IF l.pc = "idle" THEN Idle ELSE l]
Ticks == {p \in Procs : procs[p].op = "tick"}
\* Every statement of a tick fails once a signal has cancelled its context.
Alive(p) == procs[p].op = "tick" => life = "running"
Spendable == spent.requests + spent.faults < MaxEvents
Fails ==
    /\ spent.faults < MaxFaults /\ Spendable
    /\ spent' = [spent EXCEPT !.faults = @ + 1]
Asks ==
    /\ spent.requests < MaxRequests /\ Spendable
    /\ spent' = [spent EXCEPT !.requests = @ + 1]

\* History: what a change at time t concerns, that moment and the ticks at work.
DueDays(t) == {Day(u) : u \in {u \in {t} \cup {procs[p].at : p \in Ticks} : Due(u)}}
Excuse(possible, t) == excused' = excused \cup (IF possible THEN {} ELSE DueDays(t))
\* History: a failure meets the goroutine p.
Strike(p) == struck' = struck \cup {procs[q].at : q \in {p} \cap Ticks}

-----------------------------------------------------------------------------
(* SaveSettings: the row is replaced as a whole by a copy read before.     *)

\* by: the goroutine whose copy the new row is made from, if any; asked: what
\* the user wants the row to say.
Save(by, new, asked) ==
    /\ settings' = new
    /\ chosen' = asked
    /\ stale' = [p \in Procs |-> p \notin by /\ procs[p].pc \notin {"idle", "read"}]
    /\ clobbered' = (clobbered \/ (new.choice # asked /\ \E p \in by : stale[p]))
    /\ lapsed' = lapsed \cup
        {d \in {Day(t) : t \in {Row.reported} \ {None}} : ~Marked(new, d)}
    /\ Excuse(Wanted(new), now)

\* Where a goroutine goes on; its copy is forgotten with it.
Continue(p, l) ==
    /\ Goto(p, l)
    /\ stale' = [stale EXCEPT ![p] = l.pc # "idle" /\ @]

\* UpdateSettings
UpdateSettings ==
    /\ life # "down" /\ Asks
    /\ \E c \in Choices : Save({}, Form(c), c)
    /\ UNCHANGED <<now, life, plans, procs, deliveries, overlaps, struck>>

-----------------------------------------------------------------------------
(* Tick                                                                    *)

\* What a tick goes on with, given the settings it holds.
Report(l) == IF ShouldSendDutyReport(l.copy, l.at) THEN "plan" ELSE "idle"
Discovery(l) == IF ShouldRunSourceDiscovery(l.copy, l.at) THEN "discover" ELSE Report(l)
Delivery(l) == IF Hook(l.copy) THEN "send" ELSE "idle"

\* Cron does not wait for the ticks before: they overlap, a report that takes
\* more than a minute with the next tick.
Minute ==
    /\ now < MaxTime /\ now' = now + 1
    /\ IF life = "running"
       THEN \E p \in Procs :
              /\ At(p, "idle")
              /\ Goto(p, [Idle EXCEPT !.op = "tick", !.pc = "read", !.at = now + 1])
       ELSE UNCHANGED procs
    /\ overlaps' = overlaps \cup
        (IF Ticks = {} THEN {} ELSE {now + 1} \cup {procs[p].at : p \in Ticks})
    /\ Excuse(Wanted(Row) /\ life = "running", now + 1)
    /\ UNCHANGED <<life, settings, plans, chosen, deliveries, lapsed, struck, stale,
                   clobbered, spent>>

Begin(p, op, prefs) ==
    /\ life # "down" /\ At(p, "idle") /\ Asks
    /\ Goto(p, [Idle EXCEPT !.op = op, !.pc = "read", !.prefs = prefs])
    /\ UNCHANGED <<now, life, settings, plans, chosen, deliveries, lapsed, overlaps, struck,
                   excused, stale, clobbered>>

\* The handler of a report wants it enabled; a command saves what it changes.
Onward(l) ==
    CASE l.op = "tick" -> Discovery(l)
      [] l.op = "report" -> IF l.copy.choice.report THEN "webhook" ELSE "idle"
      [] l.op = "command" -> IF l.copy.choice.prefs # l.prefs THEN "save" ELSE "idle"

\* GetSettings answers the defaults when its statement fails.
GetSettings(p) ==
    /\ At(p, "read") /\ Alive(p)
    /\ \E fails \in BOOLEAN :
        LET l == [procs[p] EXCEPT !.copy = IF fails THEN DefaultSettings ELSE Row]
            pc == Onward(l)
        IN  /\ IF fails THEN Fails /\ Strike(p) ELSE UNCHANGED <<struck, spent>>
            /\ Goto(p, [l EXCEPT !.pc = pc])
            /\ stale' = [stale EXCEPT ![p] = fails /\ pc # "idle"]
    /\ UNCHANGED <<now, life, settings, plans, chosen, deliveries, lapsed, overlaps,
                   excused, clobbered>>

DiscoverSourceCandidates(p) ==
    /\ At(p, "discover") /\ Alive(p)
    /\ Goto(p, [procs[p] EXCEPT !.pc = "discovered"])
    /\ UNCHANGED <<now, life, settings, plans, chosen, deliveries, lapsed, overlaps, struck,
                   excused, stale, clobbered, spent>>

SaveDiscovery(p) ==
    /\ At(p, "discovered") /\ Alive(p)
    /\ LET l == [procs[p] EXCEPT !.copy.discovered = procs[p].at]
       IN  /\ Save({p}, l.copy, chosen)
           /\ Goto(p, [l EXCEPT !.pc = Report(l)])
    /\ UNCHANGED <<now, life, plans, deliveries, overlaps, struck, spent>>

\* Mutant: every tick makes a plan.
NoDedupe(t) == FALSE
HasAgentPlanForDay(t) == \E u \in plans : PlanDay(u) = PlanDay(t)

\* Mutant: a tick that finds the day's plan is over.
PlanEndsTick(p) ==
    /\ At(p, "plan") /\ Alive(p)
    /\ IF HasAgentPlanForDay(procs[p].at)
       THEN Continue(p, Idle)
       ELSE Continue(p, [procs[p] EXCEPT !.pc = "insert"])
    /\ UNCHANGED <<now, life, settings, plans, chosen, deliveries, lapsed, overlaps, struck,
                   excused, clobbered, spent>>
\* ensureDailyWorkPlan: the review may have nothing to propose.
LookForPlan(p) ==
    /\ At(p, "plan") /\ Alive(p)
    /\ \/ Continue(p, [procs[p] EXCEPT !.pc = Delivery(procs[p])])
       \/ /\ ~HasAgentPlanForDay(procs[p].at)
          /\ Continue(p, [procs[p] EXCEPT !.pc = "insert"])
    /\ UNCHANGED <<now, life, settings, plans, chosen, deliveries, lapsed, overlaps, struck,
                   excused, clobbered, spent>>

\* The proposals of the plan may fail after the plan was inserted.
CreateAgentPlan(p) ==
    /\ At(p, "insert") /\ Alive(p)
    /\ plans' = plans \cup {procs[p].at}
    /\ \/ /\ Continue(p, [procs[p] EXCEPT !.pc = Delivery(procs[p])])
          /\ UNCHANGED <<struck, spent>>
       \/ Continue(p, Idle) /\ Fails /\ Strike(p)
    /\ UNCHANGED <<now, life, settings, chosen, deliveries, lapsed, overlaps, excused,
                   clobbered>>

\* EscalateAgentTasks and buildDutyReport come before the POST; both only fail
\* here.
SendFeishuWebhook(p) ==
    /\ Runs(p, "tick", "send") /\ Alive(p)
    /\ sent' = sent \cup {procs[p].at}
    /\ Goto(p, [procs[p] EXCEPT !.pc = "mark"])
    /\ UNCHANGED <<now, life, settings, plans, chosen, byHand, late, lapsed, overlaps, struck,
                   excused, stale, clobbered, spent>>

\* The report arrives and the answer to the POST is an error or does not come.
LoseAnswer(p) ==
    /\ Runs(p, "tick", "send")
    /\ IF Alive(p) THEN Fails ELSE UNCHANGED spent
    /\ sent' = sent \cup {procs[p].at}
    /\ lapsed' = lapsed \cup {Day(procs[p].at)}
    /\ Continue(p, Idle)
    /\ UNCHANGED <<now, life, settings, plans, chosen, byHand, late, overlaps, struck, excused,
                   clobbered>>

\* Mutant: the settings are saved before the mark is set.
SaveThenMark(p) ==
    /\ Runs(p, "tick", "mark") /\ Alive(p)
    /\ Save({p}, procs[p].copy, chosen)
    /\ Goto(p, Idle)
    /\ UNCHANGED <<now, life, plans, deliveries, overlaps, struck, spent>>
\* What follows the mark, a snapshot and a cycle, changes nothing here.
MarkReport(p) ==
    /\ Runs(p, "tick", "mark") /\ Alive(p)
    /\ Save({p}, [procs[p].copy EXCEPT !.reported = procs[p].at], chosen)
    /\ Goto(p, Idle)
    /\ UNCHANGED <<now, life, plans, deliveries, overlaps, struck, spent>>

-----------------------------------------------------------------------------
(* RunAutomationDutyReport and RunAgentCommand                             *)

\* The settings are read again for the webhook.
FindWebhook(p) ==
    /\ At(p, "webhook")
    /\ Continue(p, [procs[p] EXCEPT !.pc = IF Hook(Row) THEN "send" ELSE "idle"])
    /\ UNCHANGED <<now, life, settings, plans, chosen, deliveries, lapsed, overlaps, struck,
                   excused, clobbered, spent>>

SendByHand(p) ==
    /\ Runs(p, "report", "send")
    /\ byHand' = byHand \cup {Day(now)}
    /\ Goto(p, [procs[p] EXCEPT !.pc = "mark", !.day = Day(now)])
    /\ UNCHANGED <<now, life, settings, plans, chosen, sent, late, lapsed, overlaps, struck,
                   excused, stale, clobbered, spent>>

\* The mark has the time after the POST.
MarkByHand(p) ==
    /\ Runs(p, "report", "mark")
    /\ Save({p}, [procs[p].copy EXCEPT !.reported = now], chosen)
    /\ late' = late \cup (IF procs[p].day = Day(now) THEN {} ELSE {now})
    /\ Goto(p, Idle)
    /\ UNCHANGED <<now, life, plans, sent, byHand, overlaps, struck, spent>>

\* Mutant: the command saves what it knows over the defaults.
SaveCommandOnly(p) ==
    /\ At(p, "save")
    /\ Save({p}, [DefaultSettings EXCEPT !.choice.prefs = procs[p].prefs],
            [chosen EXCEPT !.prefs = procs[p].prefs])
    /\ Goto(p, Idle)
    /\ UNCHANGED <<now, life, plans, deliveries, overlaps, struck, spent>>
SaveCommand(p) ==
    /\ At(p, "save")
    /\ Save({p}, [procs[p].copy EXCEPT !.choice.prefs = procs[p].prefs],
            [chosen EXCEPT !.prefs = procs[p].prefs])
    /\ Goto(p, Idle)
    /\ UNCHANGED <<now, life, plans, deliveries, overlaps, struck, spent>>

-----------------------------------------------------------------------------
(* Failures                                                                *)

\* A delivered report is not marked any more.
Unmarked(ps) == {Day(procs[p].at) : p \in {p \in ps \cap Ticks : At(p, "mark")}}

\* Mutant: a tick whose POST fails goes on to the mark.
MarkAnyway(p) ==
    /\ procs[p].pc \notin {"idle", "read"}
    /\ IF Alive(p) THEN Fails ELSE UNCHANGED spent
    /\ lapsed' = lapsed \cup Unmarked({p}) /\ Strike(p)
    /\ Continue(p, IF At(p, "send") THEN [procs[p] EXCEPT !.pc = "mark"] ELSE Idle)
    /\ UNCHANGED <<now, life, settings, plans, chosen, deliveries, overlaps, excused,
                   clobbered>>
\* A statement or the POST fails: the tick or the request ends.
Fail(p) ==
    /\ procs[p].pc \notin {"idle", "read"}
    /\ IF Alive(p) THEN Fails ELSE UNCHANGED spent
    /\ lapsed' = lapsed \cup Unmarked({p}) /\ Strike(p)
    /\ Continue(p, Idle)
    /\ UNCHANGED <<now, life, settings, plans, chosen, deliveries, overlaps, excused,
                   clobbered>>

\* A tick that has only begun reads the defaults, and what it saves of them
\* fails.
Cancelled(p) ==
    /\ At(p, "read") /\ ~Alive(p)
    /\ Goto(p, Idle)
    /\ UNCHANGED <<now, life, settings, plans, chosen, deliveries, lapsed, overlaps, struck,
                   excused, stale, clobbered, spent>>

Stop(new) ==
    /\ Fails
    /\ life' = new
    /\ Excuse(FALSE, now)
    /\ UNCHANGED <<now, settings, plans, chosen, deliveries, overlaps, struck, clobbered>>

\* A signal stops the scheduler; ListenAndServe goes on.
Signal ==
    /\ life = "running" /\ Stop("stopped")
    /\ UNCHANGED <<procs, lapsed, stale>>

Crash ==
    /\ life # "down" /\ Stop("down")
    /\ procs' = [p \in Procs |-> Idle]
    /\ lapsed' = lapsed \cup Unmarked(Procs)
    /\ stale' = [p \in Procs |-> FALSE]

Start ==
    /\ life = "down" /\ life' = "running"
    /\ UNCHANGED <<now, settings, plans, procs, chosen, deliveries, lapsed, overlaps, struck,
                   excused, stale, clobbered, spent>>

-----------------------------------------------------------------------------
\* What a goroutine does when nothing fails but what a signal cancelled.
Step(p) ==
    \/ GetSettings(p) \/ DiscoverSourceCandidates(p) \/ SaveDiscovery(p)
    \/ LookForPlan(p) \/ CreateAgentPlan(p) \/ SendFeishuWebhook(p) \/ MarkReport(p)
    \/ FindWebhook(p) \/ SendByHand(p) \/ MarkByHand(p) \/ SaveCommand(p)
    \/ Cancelled(p) \/ (~Alive(p) /\ Fail(p))

Request(p) == Begin(p, "report", DefaultChoice.prefs) \/ \E x \in Prefs : Begin(p, "command", x)

Next ==
    \/ \E p \in Procs : Step(p) \/ Request(p) \/ LoseAnswer(p) \/ Fail(p)
    \/ UpdateSettings \/ Minute \/ Signal \/ Crash \/ Start

Spec == Init /\ [][Next]_vars
\* The goroutines run, the database and Feishu answer.
FairSpec == Spec /\ \A p \in Procs : WF_vars(Step(p))

-----------------------------------------------------------------------------
Days == {Day(t) : t \in sent} \cup byHand
MarkedLate == {Day(t) : t \in late}
FullDays == (Day(StartTime) + 1)..(Day(MaxTime) - 1)
\* The minutes at which a tick may send the report of the day.
DueTimes(d) == {t \in StartTime..MaxTime : Day(t) = d /\ Due(t)}

\* The variables have their types.
TypeOK ==
    /\ now \in Nat /\ life \in {"running", "stopped", "down"}
    /\ settings \in Settings \cup {None}
    /\ plans \subseteq Nat /\ procs \in [Procs -> Proc]
    /\ chosen \in Choice
    /\ sent \subseteq Nat /\ byHand \subseteq Nat /\ late \subseteq Nat
    /\ lapsed \subseteq Nat /\ overlaps \subseteq Nat
    /\ excused \subseteq Nat /\ struck \subseteq Nat
    /\ stale \in [Procs -> BOOLEAN] /\ clobbered \in BOOLEAN
    /\ spent \in Spent

\* Nothing says that a day's report was sent when none was: the row has a mark
\* of a day only if a report was delivered on it, by a tick or by hand, or if a
\* request delivered it before midnight and marked it after.
MarkBacked ==
    settings # None /\ settings.reported # None =>
        Day(settings.reported) \in Days \/ settings.reported \in late

\* A day gets a second automatic report only after its mark was lost or never
\* made, by a failure after the delivery or a save from another copy or from
\* the form, or from a tick that overlapped another.
RepeatHasCause ==
    \A s, t \in sent :
        s < t /\ Day(s) = Day(t) => Day(s) \in lapsed \/ s \in overlaps \/ t \in overlaps

\* As long as no copy that was out of date was saved over a choice, the row
\* says what the user asked for last, whoever saved it since.
PrefsKept == clobbered \/ Row.choice = chosen

\* A UTC day gets a second automatic plan only from ticks that overlapped.
PlanPerDay ==
    \A s, t \in plans : s # t /\ PlanDay(s) = PlanDay(t) => {s, t} \subseteq overlaps

\* The report of a day is sent, unless at some due minute of it the row did
\* not want one or the process was not there, or a request from the day before
\* marked it, or a failure struck the tick of each of its due minutes: one tick
\* that no statement and no POST fails makes up for all the others.
DueIsSent ==
    \A d \in FullDays :
        Day(now) > d ~> \/ d \in Days \cup MarkedLate \cup excused
                        \/ DueTimes(d) \subseteq struck

\* A day gets one automatic report.
OncePerDay == \A s, t \in sent : Day(s) = Day(t) => s = t
=============================================================================
