--------------------------- MODULE TaskQueueProofs ---------------------------
(* Proofs about TaskQueue, for any goroutines, jobs, sources and bounds. *)
EXTENDS TaskQueue, TLAPS

LEMMA Constants ==
    /\ Strong \subseteq Jobs /\ Gaps \subseteq Jobs /\ None \notin Nat
    /\ DayLength \in Nat \ {0} /\ SLA \in Nat \ {0} /\ SnoozeFor \in Nat
    /\ FollowUpDays \in Nat /\ MaxTime \in Nat /\ MaxWork \in Nat
    /\ MaxChanges \in Nat /\ MaxEdits \in Nat /\ MaxFaults \in Nat
BY QueueAssumption

JobKinds == {"review_strong_match", "decide_manual_job", "fix_parser_gap"}

-----------------------------------------------------------------------------
(* Types                                                                   *)

LEMMA TasksFound ==
    ASSUME NEW d \in Nat, jobs \in [Jobs -> JobStatuses \cup {"absent"}],
           unwell \subseteq Sources, DOMAIN plans \subseteq Jobs
    PROVE  /\ ToPrepare \subseteq Jobs
           /\ JobTasks \subseteq Work /\ SourceTasks \subseteq Work /\ CrawlTasks \subseteq Work
           /\ PrepareTasks \subseteq Work /\ FollowUpTasks(d) \subseteq Work
<1>1. ToPrepare \subseteq Jobs
  BY Constants DEF ToPrepare
<1>2. JobTasks \subseteq Work
  BY Constants DEF JobTasks, Work
<1>3. SourceTasks \subseteq Work
  BY DEF SourceTasks, Work
<1>4. CrawlTasks \subseteq Work
  BY DEF CrawlTasks, Work
<1>5. PrepareTasks \subseteq Work
  BY DEF PrepareTasks, Work
<1>6. FollowUpTasks(d) \subseteq Work
  BY DEF FollowUpTasks, Work
<1> QED
  BY <1>1, <1>2, <1>3, <1>4, <1>5, <1>6

LEMMA DayType == ASSUME NEW t \in Nat PROVE Day(t) \in Nat
BY Constants DEF Day

LEMMA DayBounds ==
    ASSUME NEW t \in Nat
    PROVE  /\ DayLength * Day(t) <= t
           /\ t < DayLength * Day(t) + DayLength
BY Constants DEF Day
LEMMA GotoTyped ==
    ASSUME TypeOK, NEW p \in Procs, NEW l \in Proc, Goto(p, l)
    PROVE  procs' \in [Procs -> Proc]
BY DEF TypeOK, Goto

LEMMA IdleTyped == Idle \in Proc
BY DEF Idle, Proc

\* What every goroutine holds.
LEMMA Fields ==
    ASSUME TypeOK, NEW p \in Procs
    PROVE  /\ procs[p] \in Proc
           /\ procs[p].at \in Nat /\ Today(p) \in Nat
           /\ procs[p].prepare \subseteq Jobs
           /\ procs[p].desired \subseteq Work /\ procs[p].todo \subseteq Work
           /\ procs[p].close \subseteq Keys /\ procs[p].verdicts \subseteq Verdict
<1>1. procs[p] \in Proc
  BY DEF TypeOK
<1>2. /\ procs[p].at \in Nat
      /\ procs[p].prepare \subseteq Jobs
      /\ procs[p].desired \subseteq Work /\ procs[p].todo \subseteq Work
      /\ procs[p].close \subseteq Keys /\ procs[p].verdicts \subseteq Verdict
  BY <1>1 DEF Proc
<1> QED
  BY <1>1, <1>2, DayType DEF Today

LEMMA GoneTyped == ASSUME TypeOK, NEW p \in Procs PROVE Gone(p) \subseteq Work
BY DEF TypeOK, Gone

LEMMA LapsesTyped == ASSUME TypeOK, RecordLapses PROVE lapsed' \in [Procs -> SUBSET Work]
BY GoneTyped DEF RecordLapses

LEMMA ForgetTyped ==
    ASSUME TypeOK, NEW p \in Procs, Forget(p)
    PROVE  lapsed' \in [Procs -> SUBSET Work] /\ missed' \in [Procs -> SUBSET Keys]
BY DEF TypeOK, Forget

\* A table with one row changed.
LEMMA ChangedRow ==
    ASSUME NEW table, NEW Row, table \in [DOMAIN table -> Row],
           NEW key, NEW row, key \in DOMAIN table => row \in Row,
           NEW next, next = [table EXCEPT ![key] = row]
    PROVE  /\ DOMAIN next = DOMAIN table
           /\ next \in [DOMAIN next -> Row]
           /\ \A k \in DOMAIN table : next[k] = IF k = key THEN row ELSE table[k]
OBVIOUS

LEMMA UpdatedTyped ==
    ASSUME NEW row \in TaskRow, NEW status \in TaskStatuses, NEW until \in Nat \cup {None},
           NEW own \in BOOLEAN
    PROVE  /\ Updated(row, status, until, own) \in TaskRow
           /\ Updated(row, status, until, own).own = own
BY DEF Updated, TaskRow

LEMMA SpentTyped ==
    ASSUME TypeOK
    PROVE  /\ spent.work < MaxWork => [spent EXCEPT !.work = @ + 1] \in Spent
           /\ spent.changes < MaxChanges => [spent EXCEPT !.changes = @ + 1] \in Spent
           /\ spent.edits < MaxEdits => [spent EXCEPT !.edits = @ + 1] \in Spent
           /\ spent.faults < MaxFaults => [spent EXCEPT !.faults = @ + 1] \in Spent
BY Constants DEF TypeOK, Spent

LEMMA InitTyped == Init => TypeOK
<1> SUFFICES ASSUME Init PROVE TypeOK
  OBVIOUS
<1>1. spent \in Spent
  BY Constants DEF Init, Spent
<1>2. procs \in [Procs -> Proc]
  BY IdleTyped DEF Init
<1> QED
  BY <1>1, <1>2 DEF Init, TypeOK, JobStatuses
\* A step that only moves a goroutine.
LEMMA MoveTyped ==
    ASSUME TypeOK, NEW p \in Procs, NEW l \in Proc, Goto(p, l),
           UNCHANGED <<now, world, plans, tasks>>,
           lapsed' \in [Procs -> SUBSET Work], missed' \in [Procs -> SUBSET Keys],
           spent' \in Spent
    PROVE  TypeOK'
<1>1. procs' \in [Procs -> Proc]
  BY GotoTyped
<1> QED
  BY <1>1 DEF TypeOK, world

LEMMA HistoryTyped == ASSUME TypeOK, UNCHANGED history
    PROVE lapsed' \in [Procs -> SUBSET Work] /\ missed' \in [Procs -> SUBSET Keys]
BY DEF TypeOK, history

LEMMA BeginTyped ==
    ASSUME TypeOK, NEW p \in Procs, NEW op \in Ops, Begin(p, op) PROVE TypeOK'
<1> DEFINE l == [Idle EXCEPT !.op = op, !.at = now,
                             !.pc = IF op = "escalate" THEN "escalate" ELSE "plans"]
<1>1. l \in Proc
  BY DEF TypeOK, Idle, Proc
<1>2. spent' \in Spent
  BY SpentTyped DEF Begin
<1> QED
  BY <1>1, <1>2, MoveTyped, HistoryTyped DEF Begin

LEMMA ListJobsTyped == ASSUME TypeOK, NEW p \in Procs, ListJobs(p) PROVE TypeOK'
<1> DEFINE l == [procs[p] EXCEPT !.pc = "planning", !.prepare = ToPrepare]
<1>1. ToPrepare \subseteq Jobs
  BY Constants DEF ToPrepare
<1>2. l \in Proc
  BY <1>1, Fields DEF Proc
<1>3. spent' \in Spent
  BY DEF ListJobs, TypeOK
<1> QED
  BY <1>2, <1>3, MoveTyped, HistoryTyped DEF ListJobs

LEMMA PlansListedTyped == ASSUME TypeOK, NEW p \in Procs, PlansListed(p) PROVE TypeOK'
<1> DEFINE l == [procs[p] EXCEPT !.pc = "jobs"]
<1>1. l \in Proc /\ Idle \in Proc
  BY Fields, IdleTyped DEF Proc
<1>2. spent' \in Spent
  BY DEF PlansListed, TypeOK
<1>3. lapsed' \in [Procs -> SUBSET Work] /\ missed' \in [Procs -> SUBSET Keys]
  BY HistoryTyped, ForgetTyped DEF PlansListed
<1>4. Goto(p, l) \/ Goto(p, Idle)
  BY DEF PlansListed
<1> QED
  BY <1>1, <1>2, <1>3, <1>4, MoveTyped DEF PlansListed

LEMMA SelectTyped ==
    ASSUME TypeOK, NEW p \in Procs, NEW from, NEW found, found \subseteq Work,
           NEW next \in {"sources", "runs", "prepared", "applied"}, Select(p, from, found, next)
    PROVE  TypeOK'
<1> DEFINE l == [procs[p] EXCEPT !.pc = next, !.desired = @ \cup found]
<1>1. l \in Proc
  BY Fields DEF Proc
<1>2. spent' \in Spent
  BY DEF Select, TypeOK
<1> QED
  BY <1>1, <1>2, MoveTyped, HistoryTyped DEF Select

LEMMA SelectAppliedTyped == ASSUME TypeOK, NEW p \in Procs, SelectApplied(p) PROVE TypeOK'
<1> DEFINE all == procs[p].desired \cup FollowUpTasks(Today(p))
           l == [procs[p] EXCEPT !.pc = "tasks", !.desired = all, !.todo = all]
<1>1. all \subseteq Work
  BY Fields, TasksFound DEF TypeOK
<1>2. l \in Proc
  BY <1>1, Fields DEF Proc
<1>3. spent' \in Spent
  BY DEF SelectApplied, TypeOK
<1>4. Goto(p, l)
  BY DEF SelectApplied
<1> HIDE DEF l
<1> QED
  BY <1>2, <1>3, <1>4, MoveTyped, HistoryTyped DEF SelectApplied

LEMMA ListToCloseTyped == ASSUME TypeOK, NEW p \in Procs, ListToClose(p) PROVE TypeOK'
<1> DEFINE obsolete == {k \in DOMAIN tasks :
                          /\ k[1] = Today(p) /\ k[2] \notin procs[p].desired
                          /\ tasks[k].status = "open"}
           l == [procs[p] EXCEPT !.pc = "closing", !.close = obsolete, !.desired = {}]
<1>1. obsolete \subseteq Keys
  BY DEF TypeOK
<1>2. l \in Proc
  BY <1>1, Fields DEF Proc
<1>3. spent' \in Spent /\ missed' \in [Procs -> SUBSET Keys] /\ lapsed' \in [Procs -> SUBSET Work]
  BY DEF ListToClose, TypeOK
<1>4. Goto(p, l)
  BY DEF ListToClose
<1> HIDE DEF l
<1> QED
  BY <1>2, <1>3, <1>4, MoveTyped DEF ListToClose

LEMMA TasksListedTyped == ASSUME TypeOK, NEW p \in Procs, TasksListed(p) PROVE TypeOK'
<1> DEFINE l == [procs[p] EXCEPT !.op = "escalate", !.pc = "escalate", !.at = now]
<1>1. l \in Proc /\ Idle \in Proc
  BY Fields, IdleTyped DEF Proc, TypeOK
<1>2. spent' \in Spent
  BY DEF TasksListed, TypeOK
<1>3. lapsed' \in [Procs -> SUBSET Work] /\ missed' \in [Procs -> SUBSET Keys]
  BY ForgetTyped DEF TasksListed
<1>4. Goto(p, l) \/ Goto(p, Idle)
  BY DEF TasksListed
<1> QED
  BY <1>1, <1>2, <1>3, <1>4, MoveTyped DEF TasksListed

LEMMA JudgeTyped ==
    ASSUME TypeOK, NEW k \in DOMAIN tasks, NEW t \in Nat
    PROVE  Judge(k, t) \in Verdict /\ Judge(k, t).key = k
<1>1. k \in Keys /\ tasks[k] \in TaskRow
  BY DEF TypeOK
<1>2. tasks[k].status \in TaskStatuses /\ tasks[k].escalated \in BOOLEAN /\ tasks[k].created \in Nat
  BY <1>1 DEF TaskRow
<1> DEFINE age == t - tasks[k].created
<1>3. NextStatus(tasks[k], age) \in TaskStatuses
  BY <1>2, Constants DEF NextStatus, TaskStatuses
<1>4. (tasks[k].escalated \/ age >= 2 * SLA) \in BOOLEAN
  BY <1>2
<1> QED
  BY <1>1, <1>3, <1>4 DEF Judge, Verdict

LEMMA ListToEscalateTyped == ASSUME TypeOK, NEW p \in Procs, ListToEscalate(p) PROVE TypeOK'
<1> DEFINE t == procs[p].at
           listed == {k \in DOMAIN tasks : k[1] = Day(t) /\ tasks[k].status # "done"}
           judged == {Judge(k, t) : k \in {k \in listed : ~Sleeping(tasks[k], t)}}
           l == [procs[p] EXCEPT !.pc = "escalating", !.verdicts = {v \in judged : Changes(v)}]
<1>1. judged \subseteq Verdict
  BY JudgeTyped, Fields
<1>2. l \in Proc
  BY <1>1, Fields DEF Proc
<1>3. spent' \in Spent /\ missed' \in [Procs -> SUBSET Keys] /\ lapsed' \in [Procs -> SUBSET Work]
  BY DEF ListToEscalate, TypeOK
<1>4. Goto(p, l)
  BY DEF ListToEscalate
<1> HIDE DEF l
<1> QED
  BY <1>2, <1>3, <1>4, MoveTyped DEF ListToEscalate

LEMMA LeaveTyped == ASSUME TypeOK, NEW p \in Procs, Escalated(p) \/ Fails(p) PROVE TypeOK'
<1>1. spent' \in Spent
  BY SpentTyped DEF Escalated, Fails, TypeOK
<1> QED
  BY <1>1, IdleTyped, ForgetTyped, MoveTyped DEF Escalated, Fails
\* The steps that write tables.
LEMMA TaskTyped ==
    ASSUME TypeOK, DOMAIN tasks' \subseteq Keys, tasks' \in [DOMAIN tasks' -> TaskRow],
           UNCHANGED <<now, world, plans>>, procs' \in [Procs -> Proc],
           lapsed' = lapsed, missed' \in [Procs -> SUBSET Keys], spent' \in Spent
    PROVE  TypeOK'
BY DEF TypeOK, world

LEMMA PlanTyped ==
    ASSUME TypeOK, DOMAIN plans' \subseteq Jobs, plans' \in [DOMAIN plans' -> PlanRow],
           UNCHANGED <<now, world, tasks, missed>>, procs' \in [Procs -> Proc],
           RecordLapses, spent' \in Spent
    PROVE  TypeOK'
<1>1. lapsed' \in [Procs -> SUBSET Work]
  BY LapsesTyped
<1> QED
  BY <1>1 DEF TypeOK, world

LEMMA PlanRowTyped ==
    ASSUME TypeOK, NEW j \in DOMAIN plans, NEW due \in Nat \cup {None}
    PROVE  [plans[j] EXCEPT !.due = IF @ = None THEN due ELSE @] \in PlanRow
BY DEF TypeOK, PlanRow

LEMMA UpsertPlanTyped ==
    ASSUME TypeOK, NEW p \in Procs, upsertApplicationPlan(p)
    PROVE  TypeOK' /\ DOMAIN plans \subseteq DOMAIN plans'
<1>1. PICK j \in procs[p].prepare :
        LET due == Today(p) + FollowUpDays
        IN  /\ plans' =
                IF j \in DOMAIN plans
                THEN [plans EXCEPT ![j].due = IF @ = None THEN due ELSE @]
                ELSE Stored(plans, j, [status |-> "prepare", due |-> due])
            /\ Goto(p, [procs[p] EXCEPT !.prepare = @ \ {j}])
  BY DEF upsertApplicationPlan
<1> DEFINE due == Today(p) + FollowUpDays
           l == [procs[p] EXCEPT !.prepare = @ \ {j}]
<1>2. due \in Nat /\ j \in Jobs
  BY Constants, Fields
<1>3. l \in Proc /\ Goto(p, l)
  BY <1>1, Fields DEF Proc
<1>4. procs' \in [Procs -> Proc] /\ spent' \in Spent /\ RecordLapses
      /\ UNCHANGED <<now, world, tasks, missed>>
  BY <1>3, GotoTyped DEF upsertApplicationPlan, TypeOK
<1>5. DOMAIN plans \subseteq Jobs /\ plans \in [DOMAIN plans -> PlanRow]
  BY DEF TypeOK
<1>6. CASE j \in DOMAIN plans
  <2>1. plans' = [plans EXCEPT ![j] = [plans[j] EXCEPT !.due = IF @ = None THEN due ELSE @]]
    BY <1>1, <1>6
  <2>2. DOMAIN plans' = DOMAIN plans /\ plans' \in [DOMAIN plans' -> PlanRow]
    BY <2>1, <1>2, <1>5, PlanRowTyped, ChangedRow
  <2> QED
    BY <2>2, <1>4, <1>5, PlanTyped
<1>7. CASE j \notin DOMAIN plans
  <2> DEFINE row == [status |-> "prepare", due |-> due]
  <2>1. row \in PlanRow
    BY <1>2 DEF PlanRow, PlanStatuses
  <2>2. plans' = Stored(plans, j, row)
    BY <1>1, <1>7
  <2> HIDE DEF row
  <2>3. /\ DOMAIN plans' \subseteq Jobs /\ plans' \in [DOMAIN plans' -> PlanRow]
        /\ DOMAIN plans \subseteq DOMAIN plans'
    BY <2>1, <2>2, <1>2, <1>5 DEF Stored
  <2> QED
    BY <2>3, <1>4, PlanTyped
<1> QED
  BY <1>6, <1>7

LEMMA NewTaskTyped == ASSUME TypeOK PROVE NewTask \in TaskRow
BY DEF TypeOK, NewTask, TaskRow, TaskStatuses

\* A task is stored: only its row may be new.
LEMMA UpsertTaskShape ==
    ASSUME TypeOK, NEW p \in Procs, NEW w \in procs[p].todo,
           tasks' = Stored(tasks, <<Today(p), w>>, NewTask)
    PROVE  /\ <<Today(p), w>> \in Keys
           /\ DOMAIN tasks' = DOMAIN tasks \cup {<<Today(p), w>>}
           /\ DOMAIN tasks' \subseteq Keys /\ tasks' \in [DOMAIN tasks' -> TaskRow]
           /\ \A k \in DOMAIN tasks : tasks'[k] = tasks[k]
<1>1. <<Today(p), w>> \in Keys
  BY Fields DEF Keys
<1>2. DOMAIN tasks \subseteq Keys /\ tasks \in [DOMAIN tasks -> TaskRow]
  BY DEF TypeOK
<1> QED
  BY <1>1, <1>2, NewTaskTyped DEF Stored

LEMMA UpsertTaskTyped == ASSUME TypeOK, NEW p \in Procs, upsertAgentTask(p) PROVE TypeOK'
<1>1. PICK w \in Foremost(procs[p].todo) :
        /\ tasks' = Stored(tasks, <<Today(p), w>>, NewTask)
        /\ Goto(p, [procs[p] EXCEPT !.todo = @ \ {w}])
  BY DEF upsertAgentTask
<1>2. w \in procs[p].todo
  BY DEF Foremost
<1>3. [procs[p] EXCEPT !.todo = @ \ {w}] \in Proc
  BY Fields DEF Proc
<1>4. procs' \in [Procs -> Proc]
  BY <1>1, <1>3, GotoTyped
<1>5. UNCHANGED <<now, world, plans, lapsed, missed, spent>>
  BY DEF upsertAgentTask, history
<1> QED
  BY <1>1, <1>2, <1>4, <1>5, UpsertTaskShape, TaskTyped DEF TypeOK

\* A row is written for the user or by the queue: the other rows stay.
LEMMA UpdateShape ==
    ASSUME TypeOK, NEW key, NEW status \in TaskStatuses, NEW until \in Nat \cup {None},
           NEW own \in BOOLEAN, tasks' = [tasks EXCEPT ![key] = Updated(@, status, until, own)]
    PROVE  /\ DOMAIN tasks' = DOMAIN tasks
           /\ DOMAIN tasks' \subseteq Keys /\ tasks' \in [DOMAIN tasks' -> TaskRow]
           /\ \A k \in DOMAIN tasks : k # key => tasks'[k] = tasks[k]
           /\ key \in DOMAIN tasks => tasks'[key].own = own
<1> DEFINE row == Updated(tasks[key], status, until, own)
<1>1. key \in DOMAIN tasks => row \in TaskRow /\ row.own = own
  BY UpdatedTyped DEF TypeOK
<1>2. tasks' = [tasks EXCEPT ![key] = row]
  OBVIOUS
<1>3. DOMAIN tasks \subseteq Keys /\ tasks \in [DOMAIN tasks -> TaskRow]
  BY DEF TypeOK
<1> HIDE DEF row
<1>4. /\ DOMAIN tasks' = DOMAIN tasks
      /\ tasks' \in [DOMAIN tasks' -> TaskRow]
      /\ \A k \in DOMAIN tasks : tasks'[k] = IF k = key THEN row ELSE tasks[k]
  BY <1>1, <1>2, <1>3
<1> QED
  BY <1>1, <1>3, <1>4

LEMMA CloseTaskTyped == ASSUME TypeOK, NEW p \in Procs, CloseTask(p) PROVE TypeOK'
<1>1. PICK k \in procs[p].close :
        /\ tasks' = [tasks EXCEPT ![k] = Updated(@, "done", None, FALSE)]
        /\ Goto(p, [procs[p] EXCEPT !.close = @ \ {k}])
  BY DEF CloseTask
<1>2. DOMAIN tasks' \subseteq Keys /\ tasks' \in [DOMAIN tasks' -> TaskRow]
  BY <1>1, UpdateShape DEF TaskStatuses
<1>3. [procs[p] EXCEPT !.close = @ \ {k}] \in Proc
  BY Fields DEF Proc
<1>4. procs' \in [Procs -> Proc]
  BY <1>1, <1>3, GotoTyped
<1>5. UNCHANGED <<now, world, plans, lapsed, missed, spent>>
  BY DEF CloseTask, history
<1> QED
  BY <1>2, <1>4, <1>5, TaskTyped DEF TypeOK

LEMMA EscalateShape ==
    ASSUME TypeOK, NEW v \in Verdict,
           tasks' = [tasks EXCEPT ![v.key] =
                        [@ EXCEPT !.status = v.status, !.until = None,
                                  !.escalated = v.escalated, !.own = FALSE]]
    PROVE  /\ DOMAIN tasks' = DOMAIN tasks
           /\ DOMAIN tasks' \subseteq Keys /\ tasks' \in [DOMAIN tasks' -> TaskRow]
           /\ \A k \in DOMAIN tasks : k # v.key => tasks'[k] = tasks[k]
           /\ v.key \in DOMAIN tasks => tasks'[v.key].own = FALSE
<1> DEFINE row == [tasks[v.key] EXCEPT !.status = v.status, !.until = None,
                                       !.escalated = v.escalated, !.own = FALSE]
<1>0. v.status \in TaskStatuses /\ v.escalated \in BOOLEAN
  BY DEF Verdict
<1>1. v.key \in DOMAIN tasks => row \in TaskRow /\ row.own = FALSE
  BY <1>0 DEF TypeOK, TaskRow
<1>2. tasks' = [tasks EXCEPT ![v.key] = row]
  OBVIOUS
<1>3. DOMAIN tasks \subseteq Keys /\ tasks \in [DOMAIN tasks -> TaskRow]
  BY DEF TypeOK
<1> HIDE DEF row
<1>4. /\ DOMAIN tasks' = DOMAIN tasks
      /\ tasks' \in [DOMAIN tasks' -> TaskRow]
      /\ \A k \in DOMAIN tasks : tasks'[k] = IF k = v.key THEN row ELSE tasks[k]
  BY <1>1, <1>2, <1>3
<1> QED
  BY <1>1, <1>3, <1>4

LEMMA SetEscalationTyped ==
    ASSUME TypeOK, NEW p \in Procs, setAgentTaskEscalation(p) PROVE TypeOK'
<1>1. PICK v \in procs[p].verdicts :
        /\ tasks' = [tasks EXCEPT ![v.key] =
                        [@ EXCEPT !.status = v.status, !.until = None,
                                  !.escalated = v.escalated, !.own = FALSE]]
        /\ Goto(p, [procs[p] EXCEPT !.verdicts = @ \ {v}])
  BY DEF setAgentTaskEscalation
<1>2. v \in Verdict
  BY Fields
<1>3. DOMAIN tasks' \subseteq Keys /\ tasks' \in [DOMAIN tasks' -> TaskRow]
  BY <1>1, <1>2, EscalateShape
<1>4. [procs[p] EXCEPT !.verdicts = @ \ {v}] \in Proc
  BY Fields DEF Proc
<1>5. procs' \in [Procs -> Proc]
  BY <1>1, <1>4, GotoTyped
<1>6. UNCHANGED <<now, world, plans, lapsed, missed, spent>>
  BY DEF setAgentTaskEscalation, history
<1> QED
  BY <1>3, <1>5, <1>6, TaskTyped DEF TypeOK
LEMMA UpdateTaskTyped ==
    ASSUME TypeOK, NEW k \in DOMAIN tasks, NEW status \in UserStatuses,
           NEW until \in {None, now + SnoozeFor}, UpdateAgentTask(k, status, until)
    PROVE  TypeOK'
<1>1. status \in TaskStatuses /\ until \in Nat \cup {None} /\ k \in Keys
  BY QueueAssumption, Constants DEF TypeOK
<1>2. tasks' = [tasks EXCEPT ![k] = Updated(@, status, until, TRUE)]
  BY DEF UpdateAgentTask
<1>3. DOMAIN tasks' \subseteq Keys /\ tasks' \in [DOMAIN tasks' -> TaskRow]
  BY <1>1, <1>2, UpdateShape
<1>4. missed' \in [Procs -> SUBSET Keys]
  BY <1>1 DEF UpdateAgentTask, TypeOK
<1>5. spent' \in Spent /\ UNCHANGED <<now, world, plans, procs, lapsed>>
  BY SpentTyped DEF UpdateAgentTask
<1> QED
  BY <1>3, <1>4, <1>5, TaskTyped DEF TypeOK

LEMMA UpdatePlanTyped ==
    ASSUME TypeOK, NEW j \in DOMAIN plans, NEW status \in PlanStatuses, NEW due \in DueDates,
           UpdateApplicationPlan(j, status, due)
    PROVE  TypeOK' /\ DOMAIN plans' = DOMAIN plans
<1> DEFINE row == [status |-> status, due |-> due]
<1>1. row \in PlanRow
  BY QueueAssumption DEF PlanRow
<1>2. plans' = [plans EXCEPT ![j] = row]
  BY DEF UpdateApplicationPlan
<1>3. DOMAIN plans \subseteq Jobs /\ plans \in [DOMAIN plans -> PlanRow]
  BY DEF TypeOK
<1> HIDE DEF row
<1>4. DOMAIN plans' = DOMAIN plans /\ plans' \in [DOMAIN plans' -> PlanRow]
  BY <1>1, <1>2, <1>3
<1>5. spent' \in Spent /\ UNCHANGED <<now, world, tasks, procs, missed>> /\ RecordLapses
  BY SpentTyped DEF UpdateApplicationPlan
<1> QED
  BY <1>3, <1>4, <1>5, PlanTyped DEF TypeOK

LEMMA ChangedTyped ==
    ASSUME TypeOK, Changed, jobs' \in [Jobs -> JobStatuses \cup {"absent"}],
           unwell' \subseteq Sources, crawled' \in BOOLEAN
    PROVE  TypeOK'
<1>1. spent' \in Spent /\ lapsed' \in [Procs -> SUBSET Work]
  BY SpentTyped, LapsesTyped DEF Changed
<1> QED
  BY <1>1 DEF Changed, TypeOK

LEMMA JobChangesTyped ==
    ASSUME TypeOK, NEW j \in Jobs, NEW status \in JobMoves, JobChanges(j, status)
    PROVE  TypeOK'
<1>1. jobs' \in [Jobs -> JobStatuses \cup {"absent"}]
  BY QueueAssumption DEF JobChanges, TypeOK
<1>2. unwell' \subseteq Sources /\ crawled' \in BOOLEAN
  BY DEF JobChanges, TypeOK
<1> QED
  BY <1>1, <1>2, ChangedTyped DEF JobChanges

LEMMA SourceChangesTyped ==
    ASSUME TypeOK, NEW x \in Sources, SourceChanges(x) PROVE TypeOK'
<1>1. jobs' \in [Jobs -> JobStatuses \cup {"absent"}] /\ unwell' \subseteq Sources
      /\ crawled' \in BOOLEAN
  BY DEF SourceChanges, TypeOK
<1> QED
  BY <1>1, ChangedTyped DEF SourceChanges

LEMMA CrawlStartsTyped == ASSUME TypeOK, CrawlStarts PROVE TypeOK'
<1>1. jobs' \in [Jobs -> JobStatuses \cup {"absent"}] /\ unwell' \subseteq Sources
      /\ crawled' \in BOOLEAN
  BY DEF CrawlStarts, TypeOK
<1> QED
  BY <1>1, ChangedTyped DEF CrawlStarts

LEMMA TickTyped == ASSUME TypeOK, Tick PROVE TypeOK'
BY DEF Tick, TypeOK, world, history

LEMMA StutterTyped == ASSUME TypeOK, UNCHANGED vars PROVE TypeOK'
BY DEF TypeOK, vars

LEMMA ServeTyped == ASSUME TypeOK, NEW p \in Procs, Serve(p) PROVE TypeOK'
<1>0. /\ JobTasks \subseteq Work /\ SourceTasks \subseteq Work /\ CrawlTasks \subseteq Work
      /\ PrepareTasks \subseteq Work
  <2>1. jobs \in [Jobs -> JobStatuses \cup {"absent"}] /\ unwell \subseteq Sources
        /\ DOMAIN plans \subseteq Jobs /\ 0 \in Nat
    BY DEF TypeOK
  <2> QED
    BY <2>1, TasksFound
<1>1. CASE SelectJobs(p)
  BY <1>0, <1>1, SelectTyped DEF SelectJobs
<1>2. CASE SelectSources(p)
  BY <1>0, <1>2, SelectTyped DEF SelectSources
<1>3. CASE SelectRuns(p)
  BY <1>0, <1>3, SelectTyped DEF SelectRuns
<1>4. CASE SelectPrepared(p)
  BY <1>0, <1>4, SelectTyped DEF SelectPrepared
<1> QED
  BY <1>1, <1>2, <1>3, <1>4, ListJobsTyped, UpsertPlanTyped, PlansListedTyped,
     SelectAppliedTyped, UpsertTaskTyped, ListToCloseTyped, CloseTaskTyped, TasksListedTyped,
     ListToEscalateTyped, SetEscalationTyped, LeaveTyped DEF Serve

LEMMA NextTyped == ASSUME TypeOK, [Next]_vars PROVE TypeOK'
BY ServeTyped, LeaveTyped, BeginTyped, UpdateTaskTyped, UpdatePlanTyped, JobChangesTyped,
   SourceChangesTyped, CrawlStartsTyped, TickTyped, StutterTyped DEF Next

\* Every table row and every local variable keeps its type.
THEOREM QueueTyped == Spec => []TypeOK
BY InitTyped, NextTyped, PTL DEF Spec
-----------------------------------------------------------------------------
(* What a goroutine knows in the middle of its operation, whatever the     *)
(* others do: causes that stood since it began have been collected, and    *)
(* what it is about to write was so when it listed the tasks.              *)

KnowsClock(p) == procs[p].at <= now

\* Plans that were called for all along are there before they are looked for.
KnowsPlans(p) ==
    /\ At(p, "planning") =>
        \A j \in Jobs : <<"prepare_application", j>> \notin Gone(p)
            => j \in DOMAIN plans \cup procs[p].prepare
    /\ procs[p].pc \in {"jobs", "sources", "runs", "prepared", "applied"} =>
        \A j \in Jobs : <<"prepare_application", j>> \notin Gone(p) => j \in DOMAIN plans

\* The kinds whose SELECT is over.
Collected(p, kind) ==
    \/ procs[p].pc \in {"sources", "runs", "prepared", "applied"} /\ kind \in JobKinds
    \/ procs[p].pc \in {"runs", "prepared", "applied"} /\ kind = "inspect_source"
    \/ procs[p].pc \in {"prepared", "applied"} /\ kind = "run_crawl"
    \/ procs[p].pc = "applied" /\ kind = "prepare_application"
    \/ procs[p].pc = "tasks"
KnowsCauses(p) ==
    \A w \in Work : Collected(p, w[1]) /\ w \notin Gone(p) => w \in procs[p].desired

KnowsRows(p) ==
    /\ At(p, "tasks") =>
        \A w \in procs[p].desired \ procs[p].todo : <<Today(p), w>> \in DOMAIN tasks
    /\ At(p, "closing") => \A w \in Work \ Gone(p) : <<Today(p), w>> \in DOMAIN tasks

KnowsClosed(p) ==
    At(p, "closing") =>
        \A k \in procs[p].close :
            /\ k \in DOMAIN tasks /\ k[2] \in Gone(p)
            /\ Decided(k) => k \in missed[p]

KnowsLate(p) ==
    At(p, "escalating") =>
        \A v \in procs[p].verdicts :
            /\ v.key \in DOMAIN tasks /\ v.status # "done"
            /\ Decided(v.key) => v.key \in missed[p]

Knows(p) ==
    /\ KnowsClock(p) /\ KnowsPlans(p) /\ KnowsCauses(p)
    /\ KnowsRows(p) /\ KnowsClosed(p) /\ KnowsLate(p)

IInv == TypeOK /\ \A p \in Procs : Knows(p)

LEMMA GoneSame ==
    ASSUME NEW p \in Procs, UNCHANGED <<world, plans>>,
           procs'[p].at = procs[p].at, lapsed'[p] = lapsed[p]
    PROVE  Gone(p)' = Gone(p) /\ Today(p)' = Today(p)
BY DEF Gone, Causes, JobTasks, SourceTasks, CrawlTasks, PrepareTasks, FollowUpTasks, ToPrepare,
       Today, world

LEMMA GoneRecorded ==
    ASSUME NEW p \in Procs, RecordLapses, Refreshing(p)
    PROVE  Gone(p) \subseteq Gone(p)'
BY DEF RecordLapses, Gone

\* Which SELECT a standing cause is found by.
LEMMA CauseKinds ==
    ASSUME NEW d, NEW w \in Causes(d)
    PROVE  /\ w[1] \in JobKinds => w \in JobTasks
           /\ w[1] = "inspect_source" => w \in SourceTasks
           /\ w[1] = "run_crawl" => w \in CrawlTasks
           /\ w[1] = "follow_up_application" => w \in FollowUpTasks(d)
           /\ w[1] = "prepare_application" =>
                w \in PrepareTasks \/ \E j \in ToPrepare \ DOMAIN plans : w = <<"prepare_application", j>>
           /\ w[1] \in JobKinds \cup {"inspect_source", "run_crawl", "prepare_application",
                                     "follow_up_application"}
BY DEF Causes, JobTasks, SourceTasks, CrawlTasks, PrepareTasks, FollowUpTasks, JobKinds

LEMMA Standing ==
    ASSUME NEW p \in Procs, NEW w \in Work, w \notin Gone(p)
    PROVE  w \in Causes(Today(p))
BY DEF Gone

\* A decision that stands has been standing, unless it is a new one.
LEMMA DecidedBefore ==
    ASSUME TypeOK, NEW k \in DOMAIN tasks, now' \in Nat, now <= now', Decided(k)',
           tasks'[k] = tasks[k] \/ ~tasks'[k].own
    PROVE  Decided(k)
<1>1. tasks'[k] = tasks[k] /\ tasks[k].own
  BY DEF Decided
<1>2. tasks[k].until \in Nat \cup {None} /\ now \in Nat
  BY DEF TypeOK, TaskRow
<1> QED
  BY <1>1, <1>2, Constants DEF Decided, Sleeping

\* What the steps of others leave of it.
LEMMA OthersStay ==
    ASSUME TypeOK, NEW q \in Procs, Knows(q), procs'[q] = procs[q],
           now' \in Nat, now <= now',
           DOMAIN tasks \subseteq DOMAIN tasks', DOMAIN plans \subseteq DOMAIN plans',
           Refreshing(q) => Gone(q) \subseteq Gone(q)',
           At(q, "closing") \/ At(q, "escalating") =>
              \A k \in DOMAIN tasks : Decided(k)' /\ k \notin missed'[q]
                                        => Decided(k) /\ k \notin missed[q]
    PROVE  Knows(q)'
<1>0. procs[q].at \in Nat /\ now \in Nat
  BY Fields DEF TypeOK
<1>1. KnowsClock(q)'
  BY <1>0 DEF Knows, KnowsClock
<1>2. KnowsPlans(q)'
  BY DEF Knows, KnowsPlans, Refreshing, At
<1>3. KnowsCauses(q)'
  <2> SUFFICES ASSUME NEW w \in Work, Collected(q, w[1])', w \notin Gone(q)'
               PROVE  w \in procs'[q].desired
    BY DEF KnowsCauses
  <2>1. Collected(q, w[1]) /\ Refreshing(q)
    BY DEF Collected, Refreshing
  <2> QED
    BY <2>1 DEF Knows, KnowsCauses
<1>4. KnowsRows(q)'
  BY DEF Knows, KnowsRows, Refreshing, At, Today
<1>5. KnowsClosed(q)'
  BY DEF Knows, KnowsClosed, Refreshing, At
<1>6. KnowsLate(q)'
  BY DEF Knows, KnowsLate, Refreshing, At
<1> QED
  BY <1>1, <1>2, <1>3, <1>4, <1>5, <1>6 DEF Knows
\* A queue step of p: it moves p and writes at most rows that are then its own.
LEMMA OthersOfMove ==
    ASSUME TypeOK, NEW p \in Procs, NEW q \in Procs, q # p, Knows(q),
           NEW l, Goto(p, l), UNCHANGED <<now, world, plans>>,
           DOMAIN tasks \subseteq DOMAIN tasks',
           \A k \in DOMAIN tasks : tasks'[k] = tasks[k] \/ ~tasks'[k].own,
           lapsed'[q] = lapsed[q], missed'[q] = missed[q]
    PROVE  Knows(q)'
<1>1. procs'[q] = procs[q]
  BY DEF Goto, TypeOK
<1>2. Gone(q)' = Gone(q)
  BY <1>1, GoneSame
<1>3. now' \in Nat /\ now <= now'
  BY DEF TypeOK
<1>4. \A k \in DOMAIN tasks : Decided(k)' => Decided(k)
  BY <1>3, DecidedBefore
<1> QED
  BY <1>1, <1>2, <1>3, <1>4, OthersStay

LEMMA ForgetOthers ==
    ASSUME TypeOK, NEW p \in Procs, NEW q \in Procs, q # p, Forget(p)
    PROVE  lapsed'[q] = lapsed[q] /\ missed'[q] = missed[q]
BY DEF Forget, TypeOK

LEMMA MovedProc ==
    ASSUME TypeOK, NEW p \in Procs, NEW l, Goto(p, l) PROVE procs'[p] = l
BY DEF Goto, TypeOK

\* Where nothing is remembered nothing has to be known.
LEMMA RestKnows ==
    ASSUME TypeOK, NEW p \in Procs, procs'[p].pc \in {"idle", "plans", "escalate"},
           procs'[p].at <= now'
    PROVE  Knows(p)'
BY DEF Knows, KnowsClock, KnowsPlans, KnowsCauses, KnowsRows, KnowsClosed, KnowsLate,
       Collected, At

LEMMA IdleKnows ==
    ASSUME TypeOK, NEW p \in Procs, Goto(p, Idle), now' = now PROVE Knows(p)'
<1>1. procs'[p].pc = "idle" /\ procs'[p].at = 0
  BY MovedProc DEF Idle
<1> QED
  BY <1>1, RestKnows DEF TypeOK

LEMMA BeginKnows ==
    ASSUME IInv, NEW p \in Procs, NEW op \in Ops, Begin(p, op)
    PROVE  \A q \in Procs : Knows(q)'
<1> DEFINE l == [Idle EXCEPT !.op = op, !.at = now,
                             !.pc = IF op = "escalate" THEN "escalate" ELSE "plans"]
<1>1. Goto(p, l) /\ UNCHANGED <<now, world, plans, tasks, lapsed, missed>>
  BY DEF Begin, history
<1>2. procs'[p] = l
  BY <1>1, MovedProc DEF IInv
<1>3. l.pc \in {"idle", "plans", "escalate"} /\ l.at = now
  BY DEF Idle
<1>4. now' = now /\ now \in Nat /\ TypeOK
  BY <1>1 DEF IInv, TypeOK
<1> HIDE DEF l
<1>5. Knows(p)'
  BY <1>2, <1>3, <1>4, RestKnows
<1> QED
  BY <1>1, <1>5, OthersOfMove DEF IInv

LEMMA ListJobsKnows ==
    ASSUME IInv, NEW p \in Procs, ListJobs(p) PROVE \A q \in Procs : Knows(q)'
<1> DEFINE l == [procs[p] EXCEPT !.pc = "planning", !.prepare = ToPrepare]
<1>1. Goto(p, l) /\ UNCHANGED <<now, world, plans, tasks, lapsed, missed>>
  BY DEF ListJobs, history
<1>2. procs'[p] = l /\ procs[p] \in Proc
  BY <1>1, MovedProc, Fields DEF IInv
<1>3. procs'[p].pc = "planning" /\ procs'[p].prepare = ToPrepare /\ procs'[p].at = procs[p].at
  BY <1>2 DEF Proc
<1>4. Gone(p)' = Gone(p)
  BY <1>1, <1>3, GoneSame
<1>5. ASSUME NEW j \in Jobs, <<"prepare_application", j>> \notin Gone(p)
      PROVE  j \in DOMAIN plans \cup ToPrepare
  <2> DEFINE w == <<"prepare_application", j>>
  <2>1. w \in Work
    BY DEF Work
  <2>2. w \in Causes(Today(p))
    BY <2>1, <1>5, Standing
  <2>3. w \in PrepareTasks \/ \E i \in ToPrepare \ DOMAIN plans : w = <<"prepare_application", i>>
    BY <2>2, CauseKinds
  <2> QED
    BY <2>3 DEF PrepareTasks
<1>6. KnowsPlans(p)'
  BY <1>1, <1>3, <1>4, <1>5 DEF KnowsPlans, At
<1>7. KnowsClock(p)' /\ KnowsCauses(p)' /\ KnowsRows(p)' /\ KnowsClosed(p)' /\ KnowsLate(p)'
  BY <1>1, <1>3 DEF IInv, Knows, KnowsClock, KnowsCauses, KnowsRows, KnowsClosed, KnowsLate,
                    Collected, At
<1> HIDE DEF l
<1> QED
  BY <1>1, <1>6, <1>7, OthersOfMove DEF IInv, Knows

LEMMA UpsertPlanKnows ==
    ASSUME IInv, NEW p \in Procs, upsertApplicationPlan(p) PROVE \A q \in Procs : Knows(q)'
<1>1. PICK j \in procs[p].prepare :
        LET due == Today(p) + FollowUpDays
        IN  /\ plans' =
                IF j \in DOMAIN plans
                THEN [plans EXCEPT ![j].due = IF @ = None THEN due ELSE @]
                ELSE Stored(plans, j, [status |-> "prepare", due |-> due])
            /\ Goto(p, [procs[p] EXCEPT !.prepare = @ \ {j}])
  BY DEF upsertApplicationPlan
<1>2. At(p, "planning") /\ RecordLapses /\ UNCHANGED <<now, world, tasks, missed>>
  BY DEF upsertApplicationPlan
<1>3. DOMAIN plans \subseteq DOMAIN plans' /\ j \in DOMAIN plans'
  <2>1. DOMAIN plans \subseteq DOMAIN plans'
    BY UpsertPlanTyped DEF IInv
  <2>2. CASE j \in DOMAIN plans
    BY <2>1, <2>2
  <2>3. CASE j \notin DOMAIN plans
    BY <2>3, <1>1 DEF Stored
  <2> QED
    BY <2>1, <2>2, <2>3
<1>4. procs[p] \in Proc /\ TypeOK
  BY Fields DEF IInv
<1>5. procs'[p] = [procs[p] EXCEPT !.prepare = @ \ {j}]
  BY <1>1, <1>4, MovedProc
<1>6. /\ procs'[p].pc = "planning" /\ procs'[p].at = procs[p].at
      /\ procs'[p].prepare = procs[p].prepare \ {j}
  BY <1>2, <1>4, <1>5 DEF Proc, At
<1>7. Gone(p) \subseteq Gone(p)'
  BY <1>2, GoneRecorded DEF Refreshing, At
<1>8. KnowsPlans(p)'
  BY <1>2, <1>3, <1>6, <1>7 DEF IInv, Knows, KnowsPlans, At
<1>9. KnowsClock(p)' /\ KnowsCauses(p)' /\ KnowsRows(p)' /\ KnowsClosed(p)' /\ KnowsLate(p)'
  BY <1>2, <1>6 DEF IInv, Knows, KnowsClock, KnowsCauses, KnowsRows, KnowsClosed, KnowsLate,
                    Collected, At
<1>10. ASSUME NEW q \in Procs, q # p PROVE Knows(q)'
  <2>1. procs'[q] = procs[q]
    BY <1>1, <1>4, <1>10 DEF Goto, TypeOK
  <2>2. Refreshing(q) => Gone(q) \subseteq Gone(q)'
    BY <1>2, GoneRecorded
  <2>3. now' \in Nat /\ now <= now' /\ DOMAIN tasks \subseteq DOMAIN tasks'
    BY <1>2, <1>4 DEF TypeOK
  <2>4. \A k \in DOMAIN tasks : Decided(k)' => Decided(k)
    BY <1>2 DEF Decided
  <2> QED
    BY <2>1, <2>2, <2>3, <2>4, <1>2, <1>3, <1>4, OthersStay DEF IInv
<1> QED
  BY <1>8, <1>9, <1>10 DEF Knows
LEMMA PlansListedKnows ==
    ASSUME IInv, NEW p \in Procs, PlansListed(p) PROVE \A q \in Procs : Knows(q)'
<1> DEFINE l == [procs[p] EXCEPT !.pc = "jobs"]
<1>1. /\ At(p, "planning") /\ procs[p].prepare = {}
      /\ UNCHANGED <<now, world, plans, tasks>>
  BY DEF PlansListed
<1>2. procs[p] \in Proc /\ TypeOK
  BY Fields DEF IInv
<1>3. CASE Goto(p, Idle) /\ Forget(p)
  BY <1>1, <1>2, <1>3, IdleKnows, OthersOfMove, ForgetOthers DEF IInv
<1>4. CASE Goto(p, l) /\ UNCHANGED history
  <2>1. procs'[p] = l
    BY <1>2, <1>4, MovedProc
  <2>2. procs'[p].pc = "jobs" /\ procs'[p].at = procs[p].at
    BY <2>1, <1>2 DEF Proc
  <2>3. Gone(p)' = Gone(p)
    BY <1>1, <1>4, <2>2, GoneSame DEF history
  <2>4. KnowsPlans(p)'
    BY <1>1, <2>2, <2>3 DEF IInv, Knows, KnowsPlans, At
  <2>5. KnowsClock(p)' /\ KnowsCauses(p)' /\ KnowsRows(p)' /\ KnowsClosed(p)' /\ KnowsLate(p)'
    BY <1>1, <2>2 DEF IInv, Knows, KnowsClock, KnowsCauses, KnowsRows, KnowsClosed, KnowsLate,
                      Collected, At
  <2> HIDE DEF l
  <2> QED
    BY <1>1, <1>4, <2>4, <2>5, OthersOfMove DEF IInv, Knows, history
<1> QED
  BY <1>3, <1>4 DEF PlansListed

\* A SELECT collects the standing causes of its kinds.
LEMMA SelectKnows ==
    ASSUME IInv, NEW p \in Procs, NEW from, NEW found, NEW next, Select(p, from, found, next),
           <<from, next>> \in {<<"jobs", "sources">>, <<"sources", "runs">>,
                              <<"runs", "prepared">>, <<"prepared", "applied">>},
           \A w \in Work :
              /\ w \notin Gone(p)
              /\ \/ from = "jobs" /\ w[1] \in JobKinds
                 \/ from = "sources" /\ w[1] = "inspect_source"
                 \/ from = "runs" /\ w[1] = "run_crawl"
                 \/ from = "prepared" /\ w[1] = "prepare_application"
              => w \in found
    PROVE  \A q \in Procs : Knows(q)'
<1> DEFINE l == [procs[p] EXCEPT !.pc = next, !.desired = @ \cup found]
<1>1. At(p, from) /\ Goto(p, l) /\ UNCHANGED <<now, world, plans, tasks, lapsed, missed>>
  BY DEF Select, history
<1>2. procs'[p] = l /\ procs[p] \in Proc
  BY <1>1, MovedProc, Fields DEF IInv
<1>3. /\ procs'[p].pc = next /\ procs'[p].at = procs[p].at
      /\ procs'[p].desired = procs[p].desired \cup found
  BY <1>2 DEF Proc
<1>4. Gone(p)' = Gone(p)
  BY <1>1, <1>3, GoneSame
<1>5. KnowsPlans(p)'
  BY <1>1, <1>3, <1>4 DEF IInv, Knows, KnowsPlans, At
<1>6. KnowsCauses(p)'
  <2> SUFFICES ASSUME NEW w \in Work, Collected(p, w[1])', w \notin Gone(p)
               PROVE  w \in procs'[p].desired
    BY <1>4 DEF KnowsCauses
  <2>1. CASE Collected(p, w[1])
    BY <1>3, <2>1 DEF IInv, Knows, KnowsCauses
  <2>2. CASE ~Collected(p, w[1])
    BY <1>1, <1>3, <2>2 DEF Collected, At
  <2> QED
    BY <2>1, <2>2
<1>7. KnowsClock(p)' /\ KnowsRows(p)' /\ KnowsClosed(p)' /\ KnowsLate(p)'
  BY <1>1, <1>3 DEF IInv, Knows, KnowsClock, KnowsRows, KnowsClosed, KnowsLate, At
<1> HIDE DEF l
<1> QED
  BY <1>1, <1>5, <1>6, <1>7, OthersOfMove DEF IInv, Knows

LEMMA SelectsKnow ==
    ASSUME IInv, NEW p \in Procs,
           SelectJobs(p) \/ SelectSources(p) \/ SelectRuns(p) \/ SelectPrepared(p)
    PROVE  \A q \in Procs : Knows(q)'
<1>1. \A w \in Work : w \notin Gone(p) => w \in Causes(Today(p))
  BY Standing
<1>2. CASE SelectJobs(p)
  <2>1. \A w \in Work : w \notin Gone(p) /\ w[1] \in JobKinds => w \in JobTasks
    BY <1>1, CauseKinds
  <2> QED
    BY <1>2, <2>1, SelectKnows DEF SelectJobs
<1>3. CASE SelectSources(p)
  <2>1. \A w \in Work : w \notin Gone(p) /\ w[1] = "inspect_source" => w \in SourceTasks
    BY <1>1, CauseKinds
  <2> QED
    BY <1>3, <2>1, SelectKnows DEF SelectSources
<1>4. CASE SelectRuns(p)
  <2>1. \A w \in Work : w \notin Gone(p) /\ w[1] = "run_crawl" => w \in CrawlTasks
    BY <1>1, CauseKinds
  <2> QED
    BY <1>4, <2>1, SelectKnows DEF SelectRuns
<1>5. CASE SelectPrepared(p)
  <2>1. ASSUME NEW w \in Work, w \notin Gone(p), w[1] = "prepare_application"
        PROVE  w \in PrepareTasks
    <3>1. w \in PrepareTasks
          \/ \E j \in ToPrepare \ DOMAIN plans : w = <<"prepare_application", j>>
      BY <1>1, <2>1, CauseKinds
    <3>2. ASSUME NEW j \in ToPrepare \ DOMAIN plans, w = <<"prepare_application", j>>
          PROVE  FALSE
      <4>1. j \in Jobs /\ procs[p].pc = "prepared"
        BY <1>5, Constants DEF ToPrepare, SelectPrepared, Select, At
      <4> QED
        BY <2>1, <3>2, <4>1 DEF IInv, Knows, KnowsPlans
    <3> QED
      BY <3>1, <3>2
  <2> QED
    BY <1>5, <2>1, SelectKnows DEF SelectPrepared
<1> QED
  BY <1>2, <1>3, <1>4, <1>5

LEMMA SelectAppliedKnows ==
    ASSUME IInv, NEW p \in Procs, SelectApplied(p) PROVE \A q \in Procs : Knows(q)'
<1> DEFINE all == procs[p].desired \cup FollowUpTasks(Today(p))
           l == [procs[p] EXCEPT !.pc = "tasks", !.desired = all, !.todo = all]
<1>1. At(p, "applied") /\ Goto(p, l) /\ UNCHANGED <<now, world, plans, tasks, lapsed, missed>>
  BY DEF SelectApplied, history
<1>2. procs'[p] = l /\ procs[p] \in Proc
  BY <1>1, MovedProc, Fields DEF IInv
<1>3. /\ procs'[p].pc = "tasks" /\ procs'[p].at = procs[p].at
      /\ procs'[p].desired = all /\ procs'[p].todo = all
  BY <1>2 DEF Proc
<1>4. Gone(p)' = Gone(p)
  BY <1>1, <1>3, GoneSame
<1>5. KnowsCauses(p)'
  <2> SUFFICES ASSUME NEW w \in Work, w \notin Gone(p) PROVE w \in all
    BY <1>3, <1>4 DEF KnowsCauses
  <2>1. w \in Causes(Today(p))
    BY Standing
  <2>2. CASE w[1] = "follow_up_application"
    BY <2>1, <2>2, CauseKinds
  <2>3. CASE w[1] # "follow_up_application"
    <3>1. Collected(p, w[1])
      BY <1>1, <2>1, <2>3, CauseKinds DEF Collected, At
    <3> QED
      BY <3>1 DEF IInv, Knows, KnowsCauses
  <2> QED
    BY <2>2, <2>3
<1>6. KnowsClock(p)' /\ KnowsPlans(p)' /\ KnowsRows(p)' /\ KnowsClosed(p)' /\ KnowsLate(p)'
  BY <1>1, <1>3 DEF IInv, Knows, KnowsClock, KnowsPlans, KnowsRows, KnowsClosed, KnowsLate, At
<1> HIDE DEF l
<1> QED
  BY <1>1, <1>5, <1>6, OthersOfMove DEF IInv, Knows
LEMMA UpsertTaskKnows ==
    ASSUME IInv, NEW p \in Procs, upsertAgentTask(p) PROVE \A q \in Procs : Knows(q)'
<1>1. PICK w \in Foremost(procs[p].todo) :
        /\ tasks' = Stored(tasks, <<Today(p), w>>, NewTask)
        /\ Goto(p, [procs[p] EXCEPT !.todo = @ \ {w}])
  BY DEF upsertAgentTask
<1> DEFINE l == [procs[p] EXCEPT !.todo = @ \ {w}]
<1>2. At(p, "tasks") /\ Goto(p, l) /\ UNCHANGED <<now, world, plans, lapsed, missed>>
  BY <1>1 DEF upsertAgentTask, history
<1>3. procs'[p] = l /\ procs[p] \in Proc /\ w \in procs[p].todo
  BY <1>2, MovedProc, Fields DEF IInv, Foremost
<1>4. /\ procs'[p].pc = "tasks" /\ procs'[p].at = procs[p].at
      /\ procs'[p].desired = procs[p].desired /\ procs'[p].todo = procs[p].todo \ {w}
  BY <1>2, <1>3 DEF Proc, At
<1>5. Gone(p)' = Gone(p) /\ Today(p)' = Today(p)
  BY <1>2, <1>4, GoneSame
<1>6. /\ DOMAIN tasks' = DOMAIN tasks \cup {<<Today(p), w>>}
      /\ \A k \in DOMAIN tasks : tasks'[k] = tasks[k]
  BY <1>1, <1>3, UpsertTaskShape DEF IInv
<1>7. KnowsRows(p)'
  BY <1>2, <1>4, <1>5, <1>6 DEF IInv, Knows, KnowsRows, At
<1>8. KnowsClock(p)' /\ KnowsPlans(p)' /\ KnowsCauses(p)' /\ KnowsClosed(p)' /\ KnowsLate(p)'
  BY <1>2, <1>4, <1>5 DEF IInv, Knows, KnowsClock, KnowsPlans, KnowsCauses, KnowsClosed,
                          KnowsLate, Collected, At
<1> HIDE DEF l
<1> QED
  BY <1>2, <1>6, <1>7, <1>8, OthersOfMove DEF IInv, Knows

LEMMA ListToCloseKnows ==
    ASSUME IInv, NEW p \in Procs, ListToClose(p) PROVE \A q \in Procs : Knows(q)'
<1> DEFINE obsolete == {k \in DOMAIN tasks :
                          /\ k[1] = Today(p) /\ k[2] \notin procs[p].desired
                          /\ tasks[k].status = "open"}
           l == [procs[p] EXCEPT !.pc = "closing", !.close = obsolete, !.desired = {}]
<1>1. /\ At(p, "tasks") /\ procs[p].todo = {} /\ Goto(p, l)
      /\ UNCHANGED <<now, world, plans, tasks, lapsed>> /\ missed' = [missed EXCEPT ![p] = {}]
  BY DEF ListToClose
<1>2. procs'[p] = l /\ procs[p] \in Proc
  BY <1>1, MovedProc, Fields DEF IInv
<1>3. procs'[p].pc = "closing" /\ procs'[p].at = procs[p].at /\ procs'[p].close = obsolete
  BY <1>2 DEF Proc
<1>4. Gone(p)' = Gone(p) /\ Today(p)' = Today(p)
  BY <1>1, <1>3, GoneSame
<1>5. \A w \in Work \ Gone(p) : w \in procs[p].desired
  BY <1>1 DEF IInv, Knows, KnowsCauses, Collected, At
<1>6. KnowsRows(p)'
  BY <1>1, <1>3, <1>4, <1>5 DEF IInv, Knows, KnowsRows, At
<1>7. KnowsClosed(p)'
  <2> SUFFICES ASSUME NEW k \in obsolete
               PROVE  k \in DOMAIN tasks /\ k[2] \in Gone(p) /\ ~Decided(k)
    BY <1>1, <1>3, <1>4 DEF KnowsClosed, Decided
  <2>1. k \in Keys
    BY DEF IInv, TypeOK
  <2>2. k[2] \in Work
    BY <2>1 DEF Keys
  <2> QED
    BY <2>2, <1>5 DEF Decided, Sleeping
<1>8. KnowsClock(p)' /\ KnowsPlans(p)' /\ KnowsCauses(p)' /\ KnowsLate(p)'
  BY <1>1, <1>3 DEF IInv, Knows, KnowsClock, KnowsPlans, KnowsCauses, KnowsLate, Collected, At
<1>9. \A q \in Procs : q # p => missed'[q] = missed[q]
  BY <1>1 DEF IInv, TypeOK
<1> HIDE DEF l
<1> QED
  BY <1>1, <1>6, <1>7, <1>8, <1>9, OthersOfMove DEF IInv, Knows

\* Rows the queue has written are nobody's decision.
LEMMA WrittenUndecided ==
    ASSUME TypeOK, now' = now, DOMAIN tasks' = DOMAIN tasks,
           \A k \in DOMAIN tasks : tasks'[k] = tasks[k] \/ ~tasks'[k].own
    PROVE  \A k \in DOMAIN tasks : Decided(k)' => Decided(k)
<1>1. now' \in Nat /\ now <= now'
  BY DEF TypeOK
<1> QED
  BY <1>1, DecidedBefore

LEMMA CloseTaskKnows ==
    ASSUME IInv, NEW p \in Procs, CloseTask(p) PROVE \A q \in Procs : Knows(q)'
<1>1. PICK k \in procs[p].close :
        /\ tasks' = [tasks EXCEPT ![k] = Updated(@, "done", None, FALSE)]
        /\ Goto(p, [procs[p] EXCEPT !.close = @ \ {k}])
  BY DEF CloseTask
<1> DEFINE l == [procs[p] EXCEPT !.close = @ \ {k}]
<1>2. At(p, "closing") /\ Goto(p, l) /\ UNCHANGED <<now, world, plans, lapsed, missed>>
  BY <1>1 DEF CloseTask, history
<1>3. procs'[p] = l /\ procs[p] \in Proc
  BY <1>2, MovedProc, Fields DEF IInv
<1>4. /\ procs'[p].pc = "closing" /\ procs'[p].at = procs[p].at
      /\ procs'[p].close = procs[p].close \ {k}
  BY <1>2, <1>3 DEF Proc, At
<1>5. Gone(p)' = Gone(p) /\ Today(p)' = Today(p)
  BY <1>2, <1>4, GoneSame
<1>6. /\ DOMAIN tasks' = DOMAIN tasks
      /\ \A m \in DOMAIN tasks : tasks'[m] = tasks[m] \/ ~tasks'[m].own
  BY <1>1, UpdateShape DEF IInv, TaskStatuses
<1>7. \A m \in DOMAIN tasks : Decided(m)' => Decided(m)
  BY <1>2, <1>6, WrittenUndecided DEF IInv
<1>8. KnowsClosed(p)'
  BY <1>2, <1>4, <1>5, <1>6, <1>7 DEF IInv, Knows, KnowsClosed, At
<1>9. KnowsRows(p)'
  BY <1>2, <1>4, <1>5, <1>6 DEF IInv, Knows, KnowsRows, At
<1>10. KnowsClock(p)' /\ KnowsPlans(p)' /\ KnowsCauses(p)' /\ KnowsLate(p)'
  BY <1>2, <1>4 DEF IInv, Knows, KnowsClock, KnowsPlans, KnowsCauses, KnowsLate, Collected, At
<1> HIDE DEF l
<1> QED
  BY <1>2, <1>6, <1>8, <1>9, <1>10, OthersOfMove DEF IInv, Knows

LEMMA TasksListedKnows ==
    ASSUME IInv, NEW p \in Procs, TasksListed(p) PROVE \A q \in Procs : Knows(q)'
<1> DEFINE l == [procs[p] EXCEPT !.op = "escalate", !.pc = "escalate", !.at = now]
<1>1. UNCHANGED <<now, world, plans, tasks>> /\ Forget(p)
  BY DEF TasksListed
<1>2. procs[p] \in Proc /\ TypeOK /\ now \in Nat
  BY Fields DEF IInv, TypeOK
<1>3. CASE Goto(p, Idle)
  BY <1>1, <1>2, <1>3, IdleKnows, OthersOfMove, ForgetOthers DEF IInv
<1>4. CASE Goto(p, l)
  <2>1. procs'[p] = l
    BY <1>2, <1>4, MovedProc
  <2>2. procs'[p].pc = "escalate" /\ procs'[p].at <= now'
    BY <2>1, <1>1, <1>2 DEF Proc
  <2>3. Knows(p)'
    BY <2>2, <1>2, RestKnows
  <2> HIDE DEF l
  <2> QED
    BY <1>1, <1>2, <1>4, <2>3, OthersOfMove, ForgetOthers DEF IInv
<1> QED
  BY <1>3, <1>4 DEF TasksListed

LEMMA ListToEscalateKnows ==
    ASSUME IInv, NEW p \in Procs, ListToEscalate(p) PROVE \A q \in Procs : Knows(q)'
<1> DEFINE t == procs[p].at
           listed == {k \in DOMAIN tasks : k[1] = Day(t) /\ tasks[k].status # "done"}
           judged == {Judge(k, t) : k \in {k \in listed : ~Sleeping(tasks[k], t)}}
           l == [procs[p] EXCEPT !.pc = "escalating", !.verdicts = {v \in judged : Changes(v)}]
<1>1. /\ At(p, "escalate") /\ Goto(p, l)
      /\ UNCHANGED <<now, world, plans, tasks, lapsed>> /\ missed' = [missed EXCEPT ![p] = {}]
  BY DEF ListToEscalate
<1>2. procs'[p] = l /\ procs[p] \in Proc /\ t \in Nat /\ t <= now /\ now \in Nat
  BY <1>1, MovedProc, Fields DEF IInv, TypeOK, Knows, KnowsClock
<1>3. procs'[p].pc = "escalating" /\ procs'[p].at = t /\ procs'[p].verdicts \subseteq judged
  BY <1>2 DEF Proc
<1>4. ASSUME NEW v \in judged
      PROVE  v.key \in DOMAIN tasks /\ v.status # "done" /\ ~Decided(v.key)
  <2>1. PICK k \in listed : ~Sleeping(tasks[k], t) /\ v = Judge(k, t)
    OBVIOUS
  <2>2. v.key = k /\ v.status # "done"
    BY <2>1 DEF Judge, NextStatus
  <2>3. tasks[k].until \in Nat \cup {None}
    BY DEF IInv, TypeOK, TaskRow
  <2> QED
    BY <2>1, <2>2, <2>3, <1>2 DEF Decided, Sleeping
<1>5. KnowsLate(p)'
  BY <1>1, <1>3, <1>4 DEF KnowsLate, Decided
<1>6. KnowsClock(p)' /\ KnowsPlans(p)' /\ KnowsCauses(p)' /\ KnowsRows(p)' /\ KnowsClosed(p)'
  BY <1>1, <1>2, <1>3 DEF IInv, Knows, KnowsClock, KnowsPlans, KnowsCauses, KnowsRows,
                          KnowsClosed, Collected, At
<1>7. \A q \in Procs : q # p => missed'[q] = missed[q]
  BY <1>1 DEF IInv, TypeOK
<1> HIDE DEF l
<1> QED
  BY <1>1, <1>5, <1>6, <1>7, OthersOfMove DEF IInv, Knows

LEMMA SetEscalationKnows ==
    ASSUME IInv, NEW p \in Procs, setAgentTaskEscalation(p) PROVE \A q \in Procs : Knows(q)'
<1>1. PICK v \in procs[p].verdicts :
        /\ tasks' = [tasks EXCEPT ![v.key] =
                        [@ EXCEPT !.status = v.status, !.until = None,
                                  !.escalated = v.escalated, !.own = FALSE]]
        /\ Goto(p, [procs[p] EXCEPT !.verdicts = @ \ {v}])
  BY DEF setAgentTaskEscalation
<1> DEFINE l == [procs[p] EXCEPT !.verdicts = @ \ {v}]
<1>2. At(p, "escalating") /\ Goto(p, l) /\ UNCHANGED <<now, world, plans, lapsed, missed>>
  BY <1>1 DEF setAgentTaskEscalation, history
<1>3. procs'[p] = l /\ procs[p] \in Proc /\ v \in Verdict
  BY <1>2, MovedProc, Fields DEF IInv
<1>4. /\ procs'[p].pc = "escalating" /\ procs'[p].at = procs[p].at
      /\ procs'[p].verdicts = procs[p].verdicts \ {v}
  BY <1>2, <1>3 DEF Proc, At
<1>5. /\ DOMAIN tasks' = DOMAIN tasks
      /\ \A m \in DOMAIN tasks : tasks'[m] = tasks[m] \/ ~tasks'[m].own
  BY <1>1, <1>3, EscalateShape DEF IInv
<1>6. \A m \in DOMAIN tasks : Decided(m)' => Decided(m)
  BY <1>2, <1>5, WrittenUndecided DEF IInv
<1>7. KnowsLate(p)'
  BY <1>2, <1>4, <1>5, <1>6 DEF IInv, Knows, KnowsLate, At
<1>8. KnowsClock(p)' /\ KnowsPlans(p)' /\ KnowsCauses(p)' /\ KnowsRows(p)' /\ KnowsClosed(p)'
  BY <1>2, <1>4 DEF IInv, Knows, KnowsClock, KnowsPlans, KnowsCauses, KnowsRows, KnowsClosed,
                    Collected, At
<1> HIDE DEF l
<1> QED
  BY <1>2, <1>5, <1>7, <1>8, OthersOfMove DEF IInv, Knows

LEMMA LeaveKnows ==
    ASSUME IInv, NEW p \in Procs, Escalated(p) \/ Fails(p) PROVE \A q \in Procs : Knows(q)'
<1>1. Goto(p, Idle) /\ Forget(p) /\ UNCHANGED <<now, world, plans, tasks>>
  BY DEF Escalated, Fails
<1> QED
  BY <1>1, IdleKnows, OthersOfMove, ForgetOthers DEF IInv

\* The user decides: who may still overrule it has missed it.
LEMMA UpdateTaskKnows ==
    ASSUME IInv, NEW k \in DOMAIN tasks, NEW status \in UserStatuses,
           NEW until \in {None, now + SnoozeFor}, UpdateAgentTask(k, status, until)
    PROVE  \A q \in Procs : Knows(q)'
<1>1. status \in TaskStatuses /\ until \in Nat \cup {None} /\ TypeOK
  BY QueueAssumption, Constants DEF IInv, TypeOK
<1>2. tasks' = [tasks EXCEPT ![k] = Updated(@, status, until, TRUE)]
  BY DEF UpdateAgentTask
<1>3. DOMAIN tasks' = DOMAIN tasks /\ \A m \in DOMAIN tasks : m # k => tasks'[m] = tasks[m]
  BY <1>1, <1>2, UpdateShape
<1>4. now' = now /\ now \in Nat /\ UNCHANGED <<world, plans, procs, lapsed>>
  BY <1>1 DEF UpdateAgentTask, TypeOK
<1> TAKE q \in Procs
<1>5. Gone(q)' = Gone(q)
  BY <1>4, GoneSame
<1>6. At(q, "closing") \/ At(q, "escalating") => missed'[q] = missed[q] \cup {k}
  BY DEF UpdateAgentTask
<1>7. ASSUME At(q, "closing") \/ At(q, "escalating"),
             NEW m \in DOMAIN tasks, Decided(m)', m \notin missed'[q]
      PROVE  Decided(m) /\ m \notin missed[q]
  BY <1>3, <1>4, <1>6, <1>7 DEF Decided, Sleeping
<1> QED
  BY <1>1, <1>3, <1>4, <1>5, <1>7, OthersStay DEF IInv

\* Steps that only change what calls for tasks.
LEMMA CausesChange ==
    ASSUME IInv, UNCHANGED <<now, tasks, procs, missed>>, RecordLapses,
           DOMAIN plans \subseteq DOMAIN plans'
    PROVE  \A q \in Procs : Knows(q)'
<1> TAKE q \in Procs
<1>1. now' \in Nat /\ now <= now' /\ TypeOK /\ Knows(q)
  BY DEF IInv, TypeOK
<1>2. \A m \in DOMAIN tasks : Decided(m)' => Decided(m)
  BY DEF Decided
<1>3. Refreshing(q) => Gone(q) \subseteq Gone(q)'
  BY GoneRecorded
<1>4. procs'[q] = procs[q] /\ missed'[q] = missed[q] /\ DOMAIN tasks \subseteq DOMAIN tasks'
  OBVIOUS
<1> QED
  BY <1>1, <1>2, <1>3, <1>4, OthersStay

LEMMA UpdatePlanKnows ==
    ASSUME IInv, NEW j \in DOMAIN plans, NEW status \in PlanStatuses, NEW due \in DueDates,
           UpdateApplicationPlan(j, status, due)
    PROVE  \A q \in Procs : Knows(q)'
<1>1. DOMAIN plans \subseteq DOMAIN plans'
  BY UpdatePlanTyped DEF IInv
<1> QED
  BY <1>1, CausesChange DEF UpdateApplicationPlan

LEMMA ChangedKnows == ASSUME IInv, Changed PROVE \A q \in Procs : Knows(q)'
BY CausesChange DEF Changed

LEMMA TickKnows == ASSUME IInv, Tick PROVE \A q \in Procs : Knows(q)'
<1>1. /\ now' \in Nat /\ now <= now'
      /\ UNCHANGED <<world, plans, tasks, procs, lapsed, missed>>
  BY DEF Tick, history, IInv, TypeOK
<1> TAKE q \in Procs
<1>2. Gone(q)' = Gone(q)
  BY <1>1, GoneSame
<1>3. \A m \in DOMAIN tasks : Decided(m)' => Decided(m)
  BY <1>1, DecidedBefore DEF IInv
<1> QED
  BY <1>1, <1>2, <1>3, OthersStay DEF IInv

LEMMA StutterKnows == ASSUME IInv, UNCHANGED vars PROVE \A q \in Procs : Knows(q)'
<1>1. /\ now' \in Nat /\ now <= now'
      /\ UNCHANGED <<world, plans, tasks, procs, lapsed, missed>>
  BY DEF vars, world, IInv, TypeOK
<1> TAKE q \in Procs
<1>2. Gone(q)' = Gone(q)
  BY <1>1, GoneSame
<1>3. \A m \in DOMAIN tasks : Decided(m)' => Decided(m)
  BY <1>1, DecidedBefore DEF IInv
<1> QED
  BY <1>1, <1>2, <1>3, OthersStay DEF IInv

LEMMA ServeKnows == ASSUME IInv, NEW p \in Procs, Serve(p) PROVE \A q \in Procs : Knows(q)'
BY ListJobsKnows, UpsertPlanKnows, PlansListedKnows, SelectsKnow, SelectAppliedKnows,
   UpsertTaskKnows, ListToCloseKnows, CloseTaskKnows, TasksListedKnows, ListToEscalateKnows,
   SetEscalationKnows, LeaveKnows DEF Serve

LEMMA InitInv == Init => IInv
<1> SUFFICES ASSUME Init PROVE IInv
  OBVIOUS
<1>1. \A p \in Procs : procs[p].pc = "idle" /\ procs[p].at <= now
  BY DEF Init, Idle
<1> QED
  BY <1>1, InitTyped DEF IInv, Knows, KnowsClock, KnowsPlans, KnowsCauses, KnowsRows,
                         KnowsClosed, KnowsLate, Collected, At

LEMMA NextInv == ASSUME IInv, [Next]_vars PROVE IInv'
<1>1. TypeOK'
  BY NextTyped DEF IInv
<1>2. \A q \in Procs : Knows(q)'
  <2>1. CASE \E j \in Jobs, status \in JobMoves : JobChanges(j, status)
    BY <2>1, ChangedKnows DEF JobChanges
  <2>2. CASE (\E s \in Sources : SourceChanges(s)) \/ CrawlStarts
    BY <2>2, ChangedKnows DEF SourceChanges, CrawlStarts
  <2> QED
    BY <2>1, <2>2, ServeKnows, LeaveKnows, BeginKnows, UpdateTaskKnows, UpdatePlanKnows,
       TickKnows, StutterKnows DEF Next
<1> QED
  BY <1>1, <1>2 DEF IInv

LEMMA QueueInv == Spec => []IInv
BY InitInv, NextInv, PTL DEF Spec

-----------------------------------------------------------------------------
(* What the queue promises.                                                *)

\* When a refresh has stored its tasks, everything that called for work since
\* its first statement has a row of its day, whatever the other goroutines,
\* the user and the crawls did in between.
THEOREM RefreshCovers == Spec => []SyncCovers
<1>1. IInv => SyncCovers
  BY DEF IInv, Knows, KnowsRows, SyncCovers
<1> QED
  BY <1>1, QueueInv, PTL

\* What a step does to the rows that are there: the closing and the escalating
\* goroutine write the row they listed, the user his own, nobody else writes.
Written(k) ==
    /\ tasks'[k].created = tasks[k].created
    /\ \/ tasks'[k] = tasks[k]
       \/ tasks'[k].own
       \/ \E p \in Procs :
            /\ procs'[p] # procs[p]
            /\ \/ At(p, "closing") /\ k \in procs[p].close /\ tasks'[k].status = "done"
               \/ /\ At(p, "escalating")
                  /\ \E v \in procs[p].verdicts : v.key = k /\ tasks'[k].status = v.status

LEMMA CloseWrites ==
    ASSUME TypeOK, NEW p \in Procs, CloseTask(p) PROVE \A k \in DOMAIN tasks : Written(k)
<1>1. PICK c \in procs[p].close :
        /\ tasks' = [tasks EXCEPT ![c] = Updated(@, "done", None, FALSE)]
        /\ Goto(p, [procs[p] EXCEPT !.close = @ \ {c}])
  BY DEF CloseTask
<1> DEFINE l == [procs[p] EXCEPT !.close = @ \ {c}]
<1>2. procs'[p] = l /\ procs[p] \in Proc
  BY <1>1, MovedProc, Fields
<1>3. procs'[p].close = procs[p].close \ {c}
  BY <1>2 DEF Proc
<1>4. \A k \in DOMAIN tasks : k # c => tasks'[k] = tasks[k]
  BY <1>1, UpdateShape DEF TaskStatuses
<1>5. c \in DOMAIN tasks => /\ tasks'[c].status = "done"
                           /\ tasks'[c].created = tasks[c].created
  BY <1>1 DEF Updated, TypeOK, TaskRow
<1> HIDE DEF l
<1> QED
  BY <1>1, <1>3, <1>4, <1>5 DEF Written, CloseTask

LEMMA EscalationWrites ==
    ASSUME TypeOK, NEW p \in Procs, setAgentTaskEscalation(p)
    PROVE  \A k \in DOMAIN tasks : Written(k)
<1>1. PICK v \in procs[p].verdicts :
        /\ tasks' = [tasks EXCEPT ![v.key] =
                        [@ EXCEPT !.status = v.status, !.until = None,
                                  !.escalated = v.escalated, !.own = FALSE]]
        /\ Goto(p, [procs[p] EXCEPT !.verdicts = @ \ {v}])
  BY DEF setAgentTaskEscalation
<1> DEFINE l == [procs[p] EXCEPT !.verdicts = @ \ {v}]
<1>2. procs'[p] = l /\ procs[p] \in Proc /\ v \in Verdict
  BY <1>1, MovedProc, Fields
<1>3. procs'[p].verdicts = procs[p].verdicts \ {v}
  BY <1>2 DEF Proc
<1>4. \A k \in DOMAIN tasks : k # v.key => tasks'[k] = tasks[k]
  BY <1>1, <1>2, EscalateShape
<1>5. v.key \in DOMAIN tasks => /\ tasks'[v.key].status = v.status
                               /\ tasks'[v.key].created = tasks[v.key].created
  BY <1>1 DEF TypeOK, TaskRow
<1> HIDE DEF l
<1> QED
  BY <1>1, <1>3, <1>4, <1>5 DEF Written, setAgentTaskEscalation

LEMMA UserWrites ==
    ASSUME TypeOK, NEW c \in DOMAIN tasks, NEW status \in UserStatuses,
           NEW until \in {None, now + SnoozeFor}, UpdateAgentTask(c, status, until)
    PROVE  \A k \in DOMAIN tasks : Written(k)
<1>1. status \in TaskStatuses /\ until \in Nat \cup {None}
  BY QueueAssumption, Constants DEF TypeOK
<1>2. tasks' = [tasks EXCEPT ![c] = Updated(@, status, until, TRUE)]
  BY DEF UpdateAgentTask
<1>3. /\ \A k \in DOMAIN tasks : k # c => tasks'[k] = tasks[k]
      /\ tasks'[c].own = TRUE
  BY <1>1, <1>2, UpdateShape
<1>4. tasks'[c].created = tasks[c].created
  BY <1>2 DEF Updated, TypeOK, TaskRow
<1> QED
  BY <1>3, <1>4 DEF Written

LEMMA UpsertWrites ==
    ASSUME TypeOK, NEW p \in Procs, upsertAgentTask(p) PROVE \A k \in DOMAIN tasks : Written(k)
<1>1. PICK w \in Foremost(procs[p].todo) : tasks' = Stored(tasks, <<Today(p), w>>, NewTask)
  BY DEF upsertAgentTask
<1>2. \A k \in DOMAIN tasks : tasks'[k] = tasks[k]
  BY <1>1, UpsertTaskShape DEF Foremost
<1> QED
  BY <1>2 DEF Written

LEMMA NextWrites == ASSUME TypeOK, [Next]_vars PROVE \A k \in DOMAIN tasks : Written(k)
<1>1. ASSUME NEW p \in Procs, Serve(p) PROVE \A k \in DOMAIN tasks : Written(k)
  <2>1. \/ UNCHANGED tasks
        \/ upsertAgentTask(p) \/ CloseTask(p) \/ setAgentTaskEscalation(p)
    BY <1>1 DEF Serve, ListJobs, upsertApplicationPlan, PlansListed, Select, SelectJobs,
       SelectSources, SelectRuns, SelectPrepared, SelectApplied, ListToClose, TasksListed,
       ListToEscalate, Escalated
  <2> QED
    BY <2>1, UpsertWrites, CloseWrites, EscalationWrites DEF Written
<1>2. CASE \E k \in DOMAIN tasks, status \in UserStatuses, until \in {None, now + SnoozeFor} :
            UpdateAgentTask(k, status, until)
  BY <1>2, UserWrites
<1>3. CASE UNCHANGED tasks
  BY <1>3 DEF Written
<1>4. \/ \E p \in Procs : Serve(p)
      \/ \E k \in DOMAIN tasks, status \in UserStatuses, until \in {None, now + SnoozeFor} :
            UpdateAgentTask(k, status, until)
      \/ UNCHANGED tasks
  BY DEF Next, Fails, Begin, UpdateApplicationPlan, JobChanges, SourceChanges, CrawlStarts,
     Changed, Tick, vars
<1> QED
  BY <1>1, <1>2, <1>3, <1>4

LEMMA ClosesStep ==
    ASSUME IInv, [Next]_vars, NEW k \in DOMAIN tasks,
           tasks[k].status # "done", tasks'[k].status = "done", ~tasks'[k].own
    PROVE  \E p \in Procs : procs'[p] # procs[p] /\ k[2] \in Gone(p)
<1>1. Written(k)
  BY NextWrites DEF IInv
<1>2. PICK p \in Procs :
        /\ procs'[p] # procs[p]
        /\ \/ At(p, "closing") /\ k \in procs[p].close /\ tasks'[k].status = "done"
           \/ /\ At(p, "escalating")
              /\ \E v \in procs[p].verdicts : v.key = k /\ tasks'[k].status = v.status
  BY <1>1 DEF Written
<1>3. KnowsClosed(p) /\ KnowsLate(p)
  BY DEF IInv, Knows
<1> QED
  BY <1>2, <1>3 DEF KnowsClosed, KnowsLate

\* A refresh marks a task done only if its cause was absent at some moment
\* since that refresh began.
THEOREM ClosesObsolete == Spec => ObsoleteWhenClosed
<1>1. ASSUME IInv, [Next]_vars
      PROVE  \A k \in DOMAIN tasks :
                tasks[k].status # "done" /\ tasks'[k].status = "done" /\ ~tasks'[k].own
                    => \E p \in Procs : procs'[p] # procs[p] /\ k[2] \in Gone(p)
  BY <1>1, ClosesStep
<1> QED
  BY <1>1, QueueInv, PTL DEF Spec, ObsoleteWhenClosed

LEMMA DecisionStep ==
    ASSUME IInv, [Next]_vars, NEW k \in DOMAIN tasks,
           Decided(k), tasks'[k] # tasks[k], ~tasks'[k].own
    PROVE  \E p \in Procs : procs'[p] # procs[p] /\ k \in missed[p]
<1>1. Written(k)
  BY NextWrites DEF IInv
<1>2. PICK p \in Procs :
        /\ procs'[p] # procs[p]
        /\ \/ At(p, "closing") /\ k \in procs[p].close /\ tasks'[k].status = "done"
           \/ /\ At(p, "escalating")
              /\ \E v \in procs[p].verdicts : v.key = k /\ tasks'[k].status = v.status
  BY <1>1 DEF Written
<1>3. KnowsClosed(p) /\ KnowsLate(p)
  BY DEF IInv, Knows
<1> QED
  BY <1>2, <1>3 DEF KnowsClosed, KnowsLate

\* What the user finished or snoozed is overruled only by an operation that
\* listed the task before he decided.
THEOREM DecisionsStand == Spec => UserDecides
<1>1. ASSUME IInv, [Next]_vars
      PROVE  \A k \in DOMAIN tasks :
                Decided(k) /\ tasks'[k] # tasks[k] /\ ~tasks'[k].own
                    => \E p \in Procs : procs'[p] # procs[p] /\ k \in missed[p]
  BY <1>1, DecisionStep
<1> QED
  BY <1>1, QueueInv, PTL DEF Spec, UserDecides

-----------------------------------------------------------------------------
(* With the default SLA of a day the queue has nothing to escalate: it     *)
(* looks at today's tasks only, and none of them is a day old.             *)

\* No step but the user's makes a task stale or escalated.
NeverMarked ==
    [][\A k \in DOMAIN tasks :
        tasks'[k] # tasks[k] /\ ~tasks'[k].own => tasks'[k].status \in {"open", "done"}]_vars

Quiet ==
    /\ \A k \in DOMAIN tasks : DayLength * k[1] <= tasks[k].created
    /\ \A p \in Procs : \A v \in procs[p].verdicts : v.status = "open"

LEMMA NewRows ==
    ASSUME TypeOK, [Next]_vars
    PROVE  \A k \in DOMAIN tasks' \ DOMAIN tasks :
              \E p \in Procs : k[1] = Today(p) /\ tasks'[k].created = now
<1>1. ASSUME NEW p \in Procs, upsertAgentTask(p), NEW k \in DOMAIN tasks' \ DOMAIN tasks
      PROVE  k[1] = Today(p) /\ tasks'[k].created = now
  <2>1. PICK w \in Foremost(procs[p].todo) : tasks' = Stored(tasks, <<Today(p), w>>, NewTask)
    BY <1>1 DEF upsertAgentTask
  <2>2. k = <<Today(p), w>> /\ tasks'[k] = NewTask
    BY <1>1, <2>1 DEF Stored
  <2> QED
    BY <2>2 DEF NewTask
<1>2. (\E p \in Procs : upsertAgentTask(p)) \/ DOMAIN tasks' = DOMAIN tasks
  <2>1. ASSUME NEW p \in Procs, Serve(p)
        PROVE  upsertAgentTask(p) \/ DOMAIN tasks' = DOMAIN tasks
    BY <2>1 DEF Serve, ListJobs, upsertApplicationPlan, PlansListed, Select, SelectJobs,
       SelectSources, SelectRuns, SelectPrepared, SelectApplied, ListToClose, TasksListed,
       ListToEscalate, Escalated, CloseTask, setAgentTaskEscalation
  <2> QED
    BY <2>1 DEF Next, Fails, Begin, UpdateAgentTask, UpdateApplicationPlan, JobChanges,
       SourceChanges, CrawlStarts, Changed, Tick, vars
<1> QED
  BY <1>1, <1>2

LEMMA VerdictsKept ==
    ASSUME TypeOK, NEW p \in Procs, NEW q \in Procs, NEW l, Goto(q, l),
           l.verdicts \subseteq procs[q].verdicts
    PROVE  procs'[p].verdicts \subseteq procs[p].verdicts
BY DEF Goto, TypeOK

\* Only the listing of the late tasks puts a verdict into a goroutine.
LEMMA VerdictsChange ==
    ASSUME TypeOK, [Next]_vars, NEW p \in Procs
    PROVE  ListToEscalate(p) \/ procs'[p].verdicts \subseteq procs[p].verdicts
<1>1. ASSUME NEW q \in Procs, Serve(q), ~ListToEscalate(q)
      PROVE  procs'[p].verdicts \subseteq procs[p].verdicts
  <2>1. procs[q] \in Proc /\ Idle.verdicts = {}
    BY DEF TypeOK, Idle
  <2>2. Goto(q, Idle) => procs'[p].verdicts \subseteq procs[p].verdicts
    BY <2>1, VerdictsKept
  <2>3. CASE ListJobs(q)
    <3> DEFINE l == [procs[q] EXCEPT !.pc = "planning", !.prepare = ToPrepare]
    <3>1. Goto(q, l) /\ l.verdicts = procs[q].verdicts
      BY <2>1, <2>3 DEF ListJobs, Proc
    <3> QED
      BY <3>1, VerdictsKept
  <2>4. CASE upsertApplicationPlan(q)
    <3>1. PICK j \in procs[q].prepare : Goto(q, [procs[q] EXCEPT !.prepare = @ \ {j}])
      BY <2>4 DEF upsertApplicationPlan
    <3>2. [procs[q] EXCEPT !.prepare = @ \ {j}].verdicts = procs[q].verdicts
      BY <2>1 DEF Proc
    <3> QED
      BY <3>1, <3>2, VerdictsKept
  <2>5. CASE PlansListed(q)
    <3>1. [procs[q] EXCEPT !.pc = "jobs"].verdicts = procs[q].verdicts
      BY <2>1 DEF Proc
    <3> QED
      BY <2>2, <2>5, <3>1, VerdictsKept DEF PlansListed
  <2>6. ASSUME NEW from, NEW found, NEW next, Select(q, from, found, next)
        PROVE  procs'[p].verdicts \subseteq procs[p].verdicts
    <3> DEFINE l == [procs[q] EXCEPT !.pc = next, !.desired = @ \cup found]
    <3>1. Goto(q, l) /\ l.verdicts = procs[q].verdicts
      BY <2>1, <2>6 DEF Select, Proc
    <3> QED
      BY <3>1, VerdictsKept
  <2>7. CASE SelectApplied(q)
    <3> DEFINE all == procs[q].desired \cup FollowUpTasks(Today(q))
               l == [procs[q] EXCEPT !.pc = "tasks", !.desired = all, !.todo = all]
    <3>1. Goto(q, l)
      BY <2>7 DEF SelectApplied
    <3>2. l.verdicts = procs[q].verdicts
      BY <2>1 DEF Proc
    <3> QED
      BY <3>1, <3>2, VerdictsKept
  <2>8. CASE upsertAgentTask(q)
    <3>1. PICK w \in Foremost(procs[q].todo) : Goto(q, [procs[q] EXCEPT !.todo = @ \ {w}])
      BY <2>8 DEF upsertAgentTask
    <3>2. [procs[q] EXCEPT !.todo = @ \ {w}].verdicts = procs[q].verdicts
      BY <2>1 DEF Proc
    <3> QED
      BY <3>1, <3>2, VerdictsKept
  <2>9. CASE ListToClose(q)
    <3> DEFINE obsolete == {k \in DOMAIN tasks :
                              /\ k[1] = Today(q) /\ k[2] \notin procs[q].desired
                              /\ tasks[k].status = "open"}
               l == [procs[q] EXCEPT !.pc = "closing", !.close = obsolete, !.desired = {}]
    <3>1. Goto(q, l)
      BY <2>9 DEF ListToClose
    <3>2. l.verdicts = procs[q].verdicts
      BY <2>1 DEF Proc
    <3> QED
      BY <3>1, <3>2, VerdictsKept
  <2>10. CASE CloseTask(q)
    <3>1. PICK k \in procs[q].close : Goto(q, [procs[q] EXCEPT !.close = @ \ {k}])
      BY <2>10 DEF CloseTask
    <3>2. [procs[q] EXCEPT !.close = @ \ {k}].verdicts = procs[q].verdicts
      BY <2>1 DEF Proc
    <3> QED
      BY <3>1, <3>2, VerdictsKept
  <2>11. CASE TasksListed(q)
    <3> DEFINE l == [procs[q] EXCEPT !.op = "escalate", !.pc = "escalate", !.at = now]
    <3>1. l.verdicts = procs[q].verdicts
      BY <2>1 DEF Proc
    <3>2. Goto(q, l) \/ Goto(q, Idle)
      BY <2>11 DEF TasksListed
    <3> QED
      BY <2>2, <3>1, <3>2, VerdictsKept
  <2>12. CASE setAgentTaskEscalation(q)
    <3>1. PICK v \in procs[q].verdicts : Goto(q, [procs[q] EXCEPT !.verdicts = @ \ {v}])
      BY <2>12 DEF setAgentTaskEscalation
    <3>2. [procs[q] EXCEPT !.verdicts = @ \ {v}].verdicts \subseteq procs[q].verdicts
      BY <2>1 DEF Proc
    <3> QED
      BY <3>1, <3>2, VerdictsKept
  <2>13. CASE SelectJobs(q) \/ SelectSources(q) \/ SelectRuns(q) \/ SelectPrepared(q)
    BY <2>6, <2>13 DEF SelectJobs, SelectSources, SelectRuns, SelectPrepared
  <2>14. CASE Escalated(q)
    BY <2>2, <2>14 DEF Escalated
  <2> QED
    BY <1>1, <2>3, <2>4, <2>5, <2>7, <2>8, <2>9, <2>10, <2>11, <2>12, <2>13, <2>14 DEF Serve
<1>2. ASSUME NEW q \in Procs, Fails(q) \/ \E op \in Ops : Begin(q, op)
      PROVE  procs'[p].verdicts \subseteq procs[p].verdicts
  <2>1. ASSUME NEW op \in Ops, Begin(q, op)
        PROVE  procs'[p].verdicts \subseteq procs[p].verdicts
    <3> DEFINE l == [Idle EXCEPT !.op = op, !.at = now,
                                 !.pc = IF op = "escalate" THEN "escalate" ELSE "plans"]
    <3>1. Goto(q, l) /\ l.verdicts = {}
      BY <2>1 DEF Begin, Idle
    <3> HIDE DEF l
    <3> QED
      BY <3>1, VerdictsKept
  <2>2. Idle.verdicts = {}
    BY DEF Idle
  <2> QED
    BY <1>2, <2>1, <2>2, VerdictsKept DEF Fails
<1>3. ASSUME NEW q \in Procs, ListToEscalate(q), q # p
      PROVE  procs'[p].verdicts \subseteq procs[p].verdicts
  BY <1>3 DEF ListToEscalate, Goto, TypeOK
<1>4. \/ \E q \in Procs : Serve(q) \/ Fails(q) \/ \E op \in Ops : Begin(q, op)
      \/ procs' = procs
  BY DEF Next, UpdateAgentTask, UpdateApplicationPlan, JobChanges, SourceChanges, CrawlStarts,
     Changed, Tick, vars
<1> QED
  BY <1>1, <1>2, <1>3, <1>4

LEMMA VerdictsQuiet ==
    ASSUME IInv, Quiet, SLA >= DayLength, NEW p \in Procs, ListToEscalate(p)
    PROVE  \A v \in procs'[p].verdicts : v.status = "open"
<1> DEFINE t == procs[p].at
           listed == {k \in DOMAIN tasks : k[1] = Day(t) /\ tasks[k].status # "done"}
           judged == {Judge(k, t) : k \in {k \in listed : ~Sleeping(tasks[k], t)}}
           l == [procs[p] EXCEPT !.pc = "escalating", !.verdicts = {v \in judged : Changes(v)}]
<1>1. procs'[p] = l /\ procs[p] \in Proc /\ t \in Nat
  BY MovedProc, Fields DEF ListToEscalate, IInv
<1>2. procs'[p].verdicts = {v \in judged : Changes(v)}
  BY <1>1 DEF Proc
<1>3. ASSUME NEW v \in judged, Changes(v) PROVE v.status = "open"
  <2>1. PICK k \in listed : v = Judge(k, t)
    OBVIOUS
  <2>2. tasks[k].created \in Nat /\ tasks[k].escalated \in BOOLEAN
    BY DEF IInv, TypeOK, TaskRow
  <2>3. DayLength * Day(t) <= tasks[k].created /\ t < DayLength * Day(t) + DayLength
    BY <1>1, DayBounds DEF Quiet
  <2>4. DayLength * Day(t) \in Nat
    BY <1>1, DayType, Constants
  <2>5. t - tasks[k].created < SLA
    BY <2>2, <2>3, <2>4, <1>1, Constants
  <2> DEFINE age == t - tasks[k].created
  <2>6. age \in Int /\ age < SLA /\ ~(age >= SLA) /\ ~(age >= 2 * SLA)
    BY <2>2, <2>5, <1>1, Constants
  <2> HIDE DEF age
  <2>7. NextStatus(tasks[k], age) = IF tasks[k].status = "snoozed" THEN "open" ELSE tasks[k].status
    BY <2>6 DEF NextStatus
  <2>8. /\ v.key = k /\ v.status = NextStatus(tasks[k], age)
        /\ v.escalated = (tasks[k].escalated \/ age >= 2 * SLA)
    BY <2>1 DEF Judge, age
  <2>9. v.escalated = tasks[k].escalated
    BY <2>2, <2>6, <2>8
  <2> QED
    BY <1>3, <2>7, <2>8, <2>9 DEF Changes
<1> QED
  BY <1>2, <1>3

LEMMA NextQuiet == ASSUME IInv, Quiet, SLA >= DayLength, [Next]_vars PROVE Quiet'
<1>1. ASSUME NEW k \in DOMAIN tasks' PROVE DayLength * k[1] <= tasks'[k].created
  <2>1. CASE k \in DOMAIN tasks
    BY <2>1, NextWrites DEF IInv, Written, Quiet
  <2>2. CASE k \notin DOMAIN tasks
    <3>1. PICK p \in Procs : k[1] = Today(p) /\ tasks'[k].created = now
      BY <2>2, NewRows DEF IInv
    <3>2. procs[p].at \in Nat /\ procs[p].at <= now /\ now \in Nat
      BY Fields DEF IInv, TypeOK, Knows, KnowsClock
    <3>3. DayLength * Today(p) <= procs[p].at /\ DayLength * Today(p) \in Nat
      BY <3>2, DayBounds, DayType, Constants DEF Today
    <3> QED
      BY <3>1, <3>2, <3>3
  <2> QED
    BY <2>1, <2>2
<1>2. ASSUME NEW p \in Procs, NEW v \in procs'[p].verdicts PROVE v.status = "open"
  BY <1>2, VerdictsChange, VerdictsQuiet DEF IInv, Quiet
<1> QED
  BY <1>1, <1>2 DEF Quiet

LEMMA InitQuiet == Init => Quiet
BY DEF Init, Quiet, Idle

LEMMA MarkStep ==
    ASSUME IInv, Quiet, [Next]_vars, NEW k \in DOMAIN tasks,
           tasks'[k] # tasks[k], ~tasks'[k].own
    PROVE  tasks'[k].status \in {"open", "done"}
<1>1. Written(k)
  BY NextWrites DEF IInv
<1> QED
  BY <1>1 DEF Written, Quiet

\* Where the SLA is a day or more, as it is by default, no escalation ever marks
\* a task: EscalateAgentTasks lists the tasks of today alone.
THEOREM DefaultSLANeverMarks == SLA >= DayLength => (Spec => NeverMarked)
<1> SUFFICES ASSUME SLA >= DayLength PROVE Spec => NeverMarked
  OBVIOUS
<1>1. IInv /\ Quiet /\ [Next]_vars => Quiet'
  BY NextQuiet
<1>2. IInv /\ Quiet /\ [Next]_vars =>
        \A k \in DOMAIN tasks :
          tasks'[k] # tasks[k] /\ ~tasks'[k].own => tasks'[k].status \in {"open", "done"}
  BY MarkStep
<1> QED
  BY <1>1, <1>2, InitQuiet, QueueInv, PTL DEF Spec, NeverMarked
=============================================================================
