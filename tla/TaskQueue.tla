------------------------------ MODULE TaskQueue ------------------------------
(***************************************************************************)
(* The daily task queue and the application plans: a refresh prepares      *)
(* plans, derives today's tasks from jobs, sources, crawls and plans,      *)
(* closes those whose cause is gone and escalates the late ones, while the *)
(* user finishes, snoozes or reopens tasks and edits plans.  Every SQL     *)
(* statement is one action.                                                *)
(***************************************************************************)
EXTENDS Integers, FiniteSets

CONSTANTS
    Procs,        \* goroutines: requests and the automation tick
    Jobs, Strong, \* jobs; those with a score of 70 or more
    Gaps,         \* those jobLooksLikeParserGap recognizes
    Sources,
    None,         \* no date
    DayLength,    \* a day in units of time; dates are UTC
    SLA,          \* task_sla_hours, normalized: positive
    SnoozeFor,    \* how long the user snoozes
    FollowUpDays, \* follow_up_date of a new plan, in days from now
    Ops,          \* what requests and the tick begin
    JobMoves,     \* what a job's status may become
    UserStatuses, \* what the user sets a task to
    DueDates,     \* follow-up dates the user enters
    MaxTime,      \* bound: the clock
    MaxWork,      \* bound: operations started
    MaxChanges,   \* bound: changes of jobs and sources
    MaxEdits,     \* bound: decisions and edits of the user
    MaxFaults     \* bound: failing statements

TaskStatuses == {"open", "stale", "escalated", "snoozed", "done"}
JobStatuses == {"new", "interested", "applied", "ignored", "manual_check", "expired"}
PlanStatuses == {"prepare", "ready", "applied", "paused"}

ASSUME QueueAssumption ==
    /\ Strong \subseteq Jobs /\ Gaps \subseteq Jobs
    /\ None \notin Nat
    /\ {DayLength, SLA, SnoozeFor} \subseteq Nat \ {0}
    /\ Ops \subseteq {"plans", "sync", "refresh", "escalate"}
    /\ JobMoves \subseteq JobStatuses /\ UserStatuses \subseteq TaskStatuses
    /\ DueDates \subseteq Nat \cup {None}
    /\ {FollowUpDays, MaxTime, MaxWork, MaxChanges, MaxEdits, MaxFaults} \subseteq Nat

VARIABLES
    now,     \* the clock
    jobs,    \* status of each job, "absent" until a crawl finds it
    unwell,  \* enabled sources whose health is warning or broken
    crawled, \* job_runs has a row
    plans,   \* rows of application_plans, by job
    tasks,   \* rows of agent_tasks, by date, kind and subject
    procs,   \* local variables of the goroutines
    lapsed,  \* history: causes that were absent since the goroutine began
    missed,  \* history: tasks the user decided since the goroutine listed them
    spent    \* bounds: operations, changes, edits and faults so far

vars == <<now, jobs, unwell, crawled, plans, tasks, procs, lapsed, missed, spent>>
world == <<jobs, unwell, crawled>>
history == <<lapsed, missed>>

Work ==
    ({"review_strong_match", "decide_manual_job", "fix_parser_gap",
      "prepare_application", "follow_up_application"} \X Jobs)
        \cup ({"inspect_source"} \X Sources)
        \cup {<<"run_crawl", 0>>}
Keys == Nat \X Work
TaskRow ==
    [status : TaskStatuses, until : Nat \cup {None}, escalated : BOOLEAN, created : Nat,
     own : BOOLEAN]  \* history: the user set the status last
PlanRow == [status : PlanStatuses, due : Nat \cup {None}]
Verdict == [key : Keys, status : TaskStatuses, escalated : BOOLEAN]
Proc ==
    [op : Ops \cup {"none", "escalate"},
     pc : {"idle", "plans", "planning", "jobs", "sources", "runs", "prepared", "applied",
           "tasks", "closing", "escalate", "escalating"},
     at : Nat,                      \* the time the operation was given
     prepare : SUBSET Jobs,         \* plans still to be upserted
     desired : SUBSET Work,         \* desiredKeys
     todo : SUBSET Work,            \* tasks still to be upserted
     close : SUBSET Keys,           \* listed tasks still to be closed
     verdicts : SUBSET Verdict]     \* listed tasks still to be escalated
Spent == [work : 0..MaxWork, changes : 0..MaxChanges, edits : 0..MaxEdits, faults : 0..MaxFaults]

Idle == [op |-> "none", pc |-> "idle", at |-> 0, prepare |-> {}, desired |-> {},
         todo |-> {}, close |-> {}, verdicts |-> {}]

Init ==
    /\ now = 0
    /\ jobs \in [Jobs -> {"absent", "new"}]
    /\ unwell = {} /\ crawled = FALSE
    /\ plans = [j \in {} |-> None] /\ tasks = [k \in {} |-> None]
    /\ procs = [p \in Procs |-> Idle]
    /\ lapsed = [p \in Procs |-> {}] /\ missed = [p \in Procs |-> {}]
    /\ spent = [work |-> 0, changes |-> 0, edits |-> 0, faults |-> 0]

At(p, pc) == procs[p].pc = pc
Goto(p, l) == procs' = [procs EXCEPT ![p] = l]
Day(t) == t \div DayLength
\* A table with a row for that key, the one it has if it has one.
Stored(table, key, row) ==
    [k \in DOMAIN table \cup {key} |-> IF k \in DOMAIN table THEN table[k] ELSE row]
Today(p) == Day(procs[p].at)

-----------------------------------------------------------------------------
(* What the tables call for.                                               *)

\* shouldPrepareApplicationPlan
ToPrepare == {j \in Strong : jobs[j] = "interested"}

JobTasks ==
    {<<"review_strong_match", j>> : j \in {j \in Strong : jobs[j] = "new"}}
        \cup {<<"fix_parser_gap", j>> : j \in {j \in Gaps : jobs[j] = "manual_check"}}
        \cup {<<"decide_manual_job", j>> : j \in {j \in Jobs \ Gaps : jobs[j] = "manual_check"}}
SourceTasks == {<<"inspect_source", s>> : s \in unwell}
CrawlTasks == IF crawled THEN {} ELSE {<<"run_crawl", 0>>}
PrepareTasks ==
    {<<"prepare_application", j>> : j \in {j \in DOMAIN plans : plans[j].status = "prepare"}}
FollowUpTasks(day) ==
    {<<"follow_up_application", j>> :
        j \in {j \in DOMAIN plans :
                 /\ plans[j].status = "applied"
                 /\ plans[j].due # None /\ plans[j].due <= day}}

\* A refresh prepares plans before it looks for them.
Causes(day) ==
    JobTasks \cup SourceTasks \cup CrawlTasks \cup PrepareTasks \cup FollowUpTasks(day)
        \cup {<<"prepare_application", j>> : j \in ToPrepare \ DOMAIN plans}

\* History: the causes that were absent at some moment since p began.
Gone(p) == lapsed[p] \cup (Work \ Causes(Today(p)))
Refreshing(p) == procs[p].pc \notin {"idle", "escalate", "escalating"}
RecordLapses == lapsed' = [p \in Procs |-> IF Refreshing(p) THEN Gone(p) ELSE {}]
Forget(p) ==
    /\ lapsed' = [lapsed EXCEPT ![p] = {}]
    /\ missed' = [missed EXCEPT ![p] = {}]

-----------------------------------------------------------------------------
(* SyncApplicationPlans                                                    *)

\* Requests, the tool, the command and the end of a crawl; the tick escalates.
Begin(p, op) ==
    /\ At(p, "idle") /\ spent.work < MaxWork
    /\ Goto(p, [Idle EXCEPT !.op = op, !.at = now,
                            !.pc = IF op = "escalate" THEN "escalate" ELSE "plans"])
    /\ spent' = [spent EXCEPT !.work = @ + 1]
    /\ UNCHANGED <<now, world, plans, tasks, history>>

ListJobs(p) ==
    /\ At(p, "plans")
    /\ Goto(p, [procs[p] EXCEPT !.pc = "planning", !.prepare = ToPrepare])
    /\ UNCHANGED <<now, world, plans, tasks, history, spent>>

\* A plan that exists keeps its status and a follow-up date it has; priority
\* and texts are left out.
upsertApplicationPlan(p) ==
    /\ At(p, "planning")
    /\ \E j \in procs[p].prepare :
        LET due == Today(p) + FollowUpDays
        IN  /\ plans' =
                IF j \in DOMAIN plans
                THEN [plans EXCEPT ![j].due = IF @ = None THEN due ELSE @]
                ELSE Stored(plans, j, [status |-> "prepare", due |-> due])
            /\ Goto(p, [procs[p] EXCEPT !.prepare = @ \ {j}])
    /\ RecordLapses
    /\ UNCHANGED <<now, world, tasks, missed, spent>>

\* The plans are listed; a refresh of the plans alone is over.
PlansListed(p) ==
    /\ At(p, "planning") /\ procs[p].prepare = {}
    /\ IF procs[p].op = "plans"
       THEN Goto(p, Idle) /\ Forget(p)
       ELSE Goto(p, [procs[p] EXCEPT !.pc = "jobs"]) /\ UNCHANGED history
    /\ UNCHANGED <<now, world, plans, tasks, spent>>

-----------------------------------------------------------------------------
(* SyncAgentTasks                                                          *)

\* One SELECT of buildDesiredAgentTasks and the tasks made from its rows.
Select(p, from, found, next) ==
    /\ At(p, from)
    /\ Goto(p, [procs[p] EXCEPT !.pc = next, !.desired = @ \cup found])
    /\ UNCHANGED <<now, world, plans, tasks, history, spent>>

SelectJobs(p) == Select(p, "jobs", JobTasks, "sources")
SelectSources(p) == Select(p, "sources", SourceTasks, "runs")
SelectRuns(p) == Select(p, "runs", CrawlTasks, "prepared")
\* Mutant: the plans are not looked for again after they were prepared.
SelectNoPlans(p) == Select(p, "prepared", {}, "applied")
SelectPrepared(p) == Select(p, "prepared", PrepareTasks, "applied")
\* Mutant: desiredKeys gets the follow-ups only.
SelectAppliedKeys(p) ==
    /\ At(p, "applied")
    /\ LET found == FollowUpTasks(Today(p))
       IN  Goto(p, [procs[p] EXCEPT !.pc = "tasks", !.desired = found,
                                    !.todo = procs[p].desired \cup found])
    /\ UNCHANGED <<now, world, plans, tasks, history, spent>>

SelectApplied(p) ==
    /\ At(p, "applied")
    /\ LET all == procs[p].desired \cup FollowUpTasks(Today(p))
       IN  Goto(p, [procs[p] EXCEPT !.pc = "tasks", !.desired = all, !.todo = all])
    /\ UNCHANGED <<now, world, plans, tasks, history, spent>>

\* Mutant: a status that normalizeAgentTaskStatus does not know.
NewTaskUnknown == [status |-> "new", until |-> None, escalated |-> FALSE, created |-> now,
                   own |-> FALSE]
NewTask == [status |-> "open", until |-> None, escalated |-> FALSE, created |-> now,
            own |-> FALSE]

\* The tasks are stored by falling priority; within a rank the scores, the
\* failures and the titles decide.
Rank ==
    [inspect_source |-> 4, prepare_application |-> 4, follow_up_application |-> 4,
     review_strong_match |-> 4, fix_parser_gap |-> 3, decide_manual_job |-> 2,
     run_crawl |-> 1]
Foremost(todo) == {w \in todo : \A v \in todo : Rank[v[1]] <= Rank[w[1]]}

\* A row of today keeps its status.
upsertAgentTask(p) ==
    /\ At(p, "tasks")
    /\ \E w \in Foremost(procs[p].todo) :
        /\ tasks' = Stored(tasks, <<Today(p), w>>, NewTask)
        /\ Goto(p, [procs[p] EXCEPT !.todo = @ \ {w}])
    /\ UNCHANGED <<now, world, plans, history, spent>>

\* closeStaleOpenAgentTasks: the list, then one UPDATE per task in it.
ListToClose(p) ==
    /\ At(p, "tasks") /\ procs[p].todo = {}
    /\ LET obsolete == {k \in DOMAIN tasks :
                          /\ k[1] = Today(p) /\ k[2] \notin procs[p].desired
                          /\ tasks[k].status = "open"}
       IN  Goto(p, [procs[p] EXCEPT !.pc = "closing", !.close = obsolete,
                                    !.desired = {}])
    /\ missed' = [missed EXCEPT ![p] = {}]
    /\ UNCHANGED <<now, world, plans, tasks, lapsed, spent>>

\* The row as UpdateAgentTask leaves it.
Updated(row, status, until, own) ==
    [row EXCEPT !.status = status, !.until = IF status = "snoozed" THEN until ELSE None,
                !.own = own]

CloseTask(p) ==
    /\ At(p, "closing")
    /\ \E k \in procs[p].close :
        /\ tasks' = [tasks EXCEPT ![k] = Updated(@, "done", None, FALSE)]
        /\ Goto(p, [procs[p] EXCEPT !.close = @ \ {k}])
    /\ UNCHANGED <<now, world, plans, history, spent>>

\* The tasks are listed; RefreshAgentTasks goes on to escalate, by a new clock.
TasksListed(p) ==
    /\ At(p, "closing") /\ procs[p].close = {}
    /\ Goto(p, IF procs[p].op = "refresh"
               THEN [procs[p] EXCEPT !.op = "escalate", !.pc = "escalate", !.at = now]
               ELSE Idle)
    /\ Forget(p)
    /\ UNCHANGED <<now, world, plans, tasks, spent>>

-----------------------------------------------------------------------------
(* EscalateAgentTasks                                                      *)

Sleeping(row, t) == row.status = "snoozed" /\ row.until # None /\ row.until > t

NextStatus(row, age) ==
    CASE age >= 2 * SLA -> "escalated"
      [] age >= SLA /\ age < 2 * SLA -> "stale"
      [] OTHER -> IF row.status = "snoozed" THEN "open" ELSE row.status

\* What the loop will write for a listed row.
Judge(k, t) ==
    LET age == t - tasks[k].created
    IN  [key |-> k, status |-> NextStatus(tasks[k], age),
         escalated |-> tasks[k].escalated \/ age >= 2 * SLA]
Changes(v) == v.status # tasks[v.key].status \/ v.escalated # tasks[v.key].escalated

\* Mutant: finished tasks are judged, too.
ListAllToEscalate(p) ==
    /\ At(p, "escalate")
    /\ LET t == procs[p].at
           listed == {k \in DOMAIN tasks : k[1] = Day(t)}
           judged == {Judge(k, t) : k \in {k \in listed : ~Sleeping(tasks[k], t)}}
       IN  Goto(p, [procs[p] EXCEPT !.pc = "escalating",
                                    !.verdicts = {v \in judged : Changes(v)}])
    /\ missed' = [missed EXCEPT ![p] = {}]
    /\ UNCHANGED <<now, world, plans, tasks, lapsed, spent>>

ListToEscalate(p) ==
    /\ At(p, "escalate")
    /\ LET t == procs[p].at
           listed == {k \in DOMAIN tasks : k[1] = Day(t) /\ tasks[k].status # "done"}
           judged == {Judge(k, t) : k \in {k \in listed : ~Sleeping(tasks[k], t)}}
       IN  Goto(p, [procs[p] EXCEPT !.pc = "escalating",
                                    !.verdicts = {v \in judged : Changes(v)}])
    /\ missed' = [missed EXCEPT ![p] = {}]
    /\ UNCHANGED <<now, world, plans, tasks, lapsed, spent>>

setAgentTaskEscalation(p) ==
    /\ At(p, "escalating")
    /\ \E v \in procs[p].verdicts :
        /\ tasks' = [tasks EXCEPT ![v.key] =
                        [@ EXCEPT !.status = v.status, !.until = None,
                                  !.escalated = v.escalated, !.own = FALSE]]
        /\ Goto(p, [procs[p] EXCEPT !.verdicts = @ \ {v}])
    /\ UNCHANGED <<now, world, plans, history, spent>>

Escalated(p) ==
    /\ At(p, "escalating") /\ procs[p].verdicts = {}
    /\ Goto(p, Idle) /\ Forget(p)
    /\ UNCHANGED <<now, world, plans, tasks, spent>>

\* A statement fails, or the process stops in the middle: what is written stays.
Fails(p) ==
    /\ ~At(p, "idle") /\ spent.faults < MaxFaults
    /\ Goto(p, Idle) /\ Forget(p)
    /\ spent' = [spent EXCEPT !.faults = @ + 1]
    /\ UNCHANGED <<now, world, plans, tasks>>

-----------------------------------------------------------------------------
(* The user, the crawls and the clock.                                     *)

\* A task may be snoozed without a date: then it does not sleep.
UpdateAgentTask(k, status, until) ==
    /\ spent.edits < MaxEdits
    /\ tasks' = [tasks EXCEPT ![k] = Updated(@, status, until, TRUE)]
    /\ missed' = [p \in Procs |->
                    IF At(p, "closing") \/ At(p, "escalating") THEN missed[p] \cup {k} ELSE {}]
    /\ spent' = [spent EXCEPT !.edits = @ + 1]
    /\ UNCHANGED <<now, world, plans, procs, lapsed>>

UpdateApplicationPlan(j, status, due) ==
    /\ spent.edits < MaxEdits
    /\ plans' = [plans EXCEPT ![j] = [status |-> status, due |-> due]]
    /\ RecordLapses
    /\ spent' = [spent EXCEPT !.edits = @ + 1]
    /\ UNCHANGED <<now, world, tasks, procs, missed>>

Changed ==
    /\ spent.changes < MaxChanges
    /\ RecordLapses
    /\ spent' = [spent EXCEPT !.changes = @ + 1]
    /\ UNCHANGED <<now, plans, tasks, procs, missed>>

\* A crawl finds a job, or somebody sets its status.
JobChanges(j, status) ==
    /\ Changed
    /\ status # jobs[j]
    /\ jobs[j] = "absent" => status \in {"new", "manual_check"}
    /\ jobs' = [jobs EXCEPT ![j] = status]
    /\ UNCHANGED <<unwell, crawled>>

\* Its health turns, or it is switched off and on.
SourceChanges(s) ==
    /\ Changed
    /\ unwell' = IF s \in unwell THEN unwell \ {s} ELSE unwell \cup {s}
    /\ UNCHANGED <<jobs, crawled>>

CrawlStarts ==
    /\ Changed
    /\ crawled' = TRUE
    /\ UNCHANGED <<jobs, unwell>>

Tick ==
    /\ now < MaxTime
    /\ now' = now + 1
    /\ UNCHANGED <<world, plans, tasks, procs, history, spent>>

Serve(p) ==
    \/ ListJobs(p) \/ upsertApplicationPlan(p) \/ PlansListed(p)
    \/ SelectJobs(p) \/ SelectSources(p) \/ SelectRuns(p)
    \/ SelectPrepared(p) \/ SelectApplied(p)
    \/ upsertAgentTask(p) \/ ListToClose(p) \/ CloseTask(p) \/ TasksListed(p)
    \/ ListToEscalate(p) \/ setAgentTaskEscalation(p) \/ Escalated(p)

Next ==
    \/ \E p \in Procs :
        \/ Serve(p) \/ Fails(p)
        \/ \E op \in Ops : Begin(p, op)
    \/ \E k \in DOMAIN tasks, status \in UserStatuses, until \in {None, now + SnoozeFor} :
        UpdateAgentTask(k, status, until)
    \/ \E j \in DOMAIN plans, status \in PlanStatuses, due \in DueDates :
        UpdateApplicationPlan(j, status, due)
    \/ \E j \in Jobs, status \in JobMoves : JobChanges(j, status)
    \/ \E s \in Sources : SourceChanges(s)
    \/ CrawlStarts
    \/ Tick

Spec == Init /\ [][Next]_vars

-----------------------------------------------------------------------------
(* Properties                                                              *)

\* Every table row and local variable has its type.
TypeOK ==
    /\ now \in Nat
    /\ jobs \in [Jobs -> JobStatuses \cup {"absent"}]
    /\ unwell \in SUBSET Sources /\ crawled \in BOOLEAN
    /\ DOMAIN plans \subseteq Jobs /\ plans \in [DOMAIN plans -> PlanRow]
    /\ DOMAIN tasks \subseteq Keys /\ tasks \in [DOMAIN tasks -> TaskRow]
    /\ procs \in [Procs -> Proc]
    /\ lapsed \in [Procs -> SUBSET Work] /\ missed \in [Procs -> SUBSET Keys]
    /\ spent \in Spent

\* When a refresh has stored its tasks, everything that called for a task, or
\* for a plan that calls for one, from its first statement to now has a row of
\* its day, whatever changed between its reads and whoever else refreshes.
SyncCovers ==
    \A p \in Procs : At(p, "closing") =>
        \A w \in Work \ Gone(p) : <<Today(p), w>> \in DOMAIN tasks

\* A refresh closes only tasks whose cause was absent at some moment since it
\* began: what called for work all along is never marked done for the user.
ObsoleteWhenClosed ==
    [][\A k \in DOMAIN tasks :
        tasks[k].status # "done" /\ tasks'[k].status = "done" /\ ~tasks'[k].own
            => \E p \in Procs : procs'[p] # procs[p] /\ k[2] \in Gone(p)]_vars

\* What the user finished stays finished and what he snoozed sleeps on: only an
\* operation that listed the task before his decision can still overrule it.
Decided(k) ==
    /\ tasks[k].own
    /\ tasks[k].status = "done" \/ Sleeping(tasks[k], now)
UserDecides ==
    [][\A k \in DOMAIN tasks :
        Decided(k) /\ tasks'[k] # tasks[k] /\ ~tasks'[k].own
            => \E p \in Procs : procs'[p] # procs[p] /\ k \in missed[p]]_vars

\* After an escalation no task that the user left open is older than the SLA:
\* the stale-task escalation the scheduler is documented to do.
OverdueMarked ==
    \A p \in Procs : At(p, "escalating") /\ procs[p].verdicts = {} =>
        \A k \in DOMAIN tasks :
            tasks[k].status = "open" /\ k \notin missed[p]
                => procs[p].at - tasks[k].created < SLA
=============================================================================
