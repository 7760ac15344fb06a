------------------------ MODULE ActionApprovalProofs ------------------------
(***************************************************************************)
(* What holds of the approval gate for every number of goroutines, rows,   *)
(* plans and failures, and why the proposals made on the way come to an    *)
(* end.                                                                    *)
(***************************************************************************)
EXTENDS ActionApproval, TLAPS

USE ApprovalAssumption

\* What the observer proposes are actions of the registry.
LEMMA ReplanType ==
    ASSUME NEW t \in ActionTypes \cup {"none"}, NEW c \in CrawlCounts
    PROVE  BuildObserverReplanActions(t, c) \in Seq(ActionTypes)
<1>1. /\ <<"discover_sources", "validate_source_candidates">> \in Seq(ActionTypes)
      /\ <<"review_strong_matches", "sync_application_plans">> \in Seq(ActionTypes)
      /\ <<"validate_source_candidates">> \in Seq(ActionTypes)
      /\ <<"send_feishu_report">> \in Seq(ActionTypes)
      /\ <<"review_strong_matches">> \in Seq(ActionTypes)
      /\ <<>> \in Seq(ActionTypes)
  BY DEF ActionTypes
<1> QED
  BY <1>1 DEF BuildObserverReplanActions

\* A goroutine that serves nothing is well-typed.
LEMMA IdleType == Idle \in Proc
  BY DEF Idle, Proc, Decision, StepStatus, NoRequest, NoPlan

\* Marking keeps a plan's steps a sequence of steps and touches their status
\* only.
LEMMA MarkFirstType ==
    ASSUME NEW steps \in Seq(Step), NEW t, NEW m \in StepStatus
    PROVE  MarkFirst(steps, t, m) \in Seq(Step)
<1>1. DOMAIN steps = 1..Len(steps) /\ Len(steps) \in Nat
  OBVIOUS
<1>2. \A i \in DOMAIN steps : steps[i] \in Step
  OBVIOUS
<1>3. \A s \in Step : [s EXCEPT !.status = m] \in Step
  BY DEF Step
<1>4. MarkFirst(steps, t, m) \in [1..Len(steps) -> Step]
  BY <1>1, <1>2, <1>3, Zenon DEF MarkFirst
<1> QED
  BY <1>1, <1>4

\* The derived status is one a plan may have.
LEMMA DeriveType ==
    ASSUME NEW steps \in Seq(Step)
    PROVE  deriveAgentPlanStatus(steps) \in PlanStatus
  BY DEF deriveAgentPlanStatus, PlanStatus

\* The handler's state after the plan step is well typed.
LEMMA AfterPlanStepType ==
    ASSUME NEW l \in Proc
    PROVE  AfterPlanStep(l) \in Proc
<1>1. l.type \in ActionTypes \cup {"none"} /\ l.count \in CrawlCounts
  BY DEF Proc
<1>2. BuildObserverReplanActions(l.type, l.count) \in Seq(ActionTypes)
  BY <1>1, ReplanType
<1>3. ASSUME NEW todo \in Seq(ActionTypes)
      PROVE  [l EXCEPT !.pc = "observe", !.into = NoPlan, !.todo = todo] \in Proc
  BY DEF Proc
<1>4. [l EXCEPT !.pc = "set_status"] \in Proc
  BY DEF Proc
<1> QED
  BY <1>2, <1>3, <1>4, IdleType, Zenon DEF AfterPlanStep

\* The empty tables are well typed.
LEMMA InitType == Init => TypeOK
<1> SUFFICES ASSUME Init PROVE TypeOK
  OBVIOUS
<1>1. AbsentRequest \in Request
  BY DEF AbsentRequest, Request, Decision, Execution, NoPlan
<1>2. AbsentPlan \in Plan
  BY DEF AbsentPlan, Plan
<1> QED
  BY <1>1, <1>2, IdleType DEF Init, TypeOK

-----------------------------------------------------------------------------
(* Type correctness, one lemma per group of handler steps.                 *)

\* Writing one column of a request row.
LEMMA ExecutionColumnType ==
    ASSUME NEW x \in Request, NEW e \in Execution
    PROVE  [x EXCEPT !.execution = e] \in Request
  BY DEF Request

\* Writing a request's status column keeps the row's type.
LEMMA StatusColumnType ==
    ASSUME NEW x \in Request, NEW d \in Decision
    PROVE  [x EXCEPT !.status = d] \in Request
  BY DEF Request

\* Replacing one goroutine's state by a well-typed one.
LEMMA LocalType ==
    ASSUME TypeOK, NEW p \in Procs, NEW l \in Proc
    PROVE  [procs EXCEPT ![p] = l] \in [Procs -> Proc]
  BY DEF TypeOK

\* A handler with nothing left to insert.
LEMMA EmptyTodo == <<>> \in Seq(ActionTypes)
  OBVIOUS

\* WriteReceipt writes one column of one row, if the row exists.
LEMMA ReceiptType ==
    ASSUME TypeOK, NEW p \in Procs, WriteReceipt(p)
    PROVE  requests' \in [RequestIds -> Request]
<1>1. PICK e \in Execution : requests' = [requests EXCEPT ![procs[p].req].execution = e]
  BY DEF WriteReceipt, Execution
<1>2. requests \in [RequestIds -> Request]
  BY DEF TypeOK
<1>3. CASE procs[p].req \in RequestIds
  <2>1. [requests[procs[p].req] EXCEPT !.execution = e] \in Request
    BY <1>2, <1>3, ExecutionColumnType
  <2> QED
    BY <1>1, <1>2, <2>1
<1>4. CASE procs[p].req \notin RequestIds
  BY <1>1, <1>2, <1>4
<1> QED
  BY <1>3, <1>4

\* The one UPDATE of a plan keeps its row well typed.
LEMMA UpdatePlanType ==
    ASSUME TypeOK, NEW p \in Procs, UpdatePlan(p)
    PROVE  plans' \in [PlanIds -> Plan]
<1>1. procs[p].steps \in Seq(Step)
  BY DEF TypeOK, Proc
<1>2. deriveAgentPlanStatus(procs[p].steps) \in PlanStatus
  BY <1>1, DeriveType
<1>3. [steps |-> procs[p].steps, status |-> deriveAgentPlanStatus(procs[p].steps),
       completed |-> deriveAgentPlanStatus(procs[p].steps) = "done"] \in Plan
  BY <1>1, <1>2 DEF Plan
<1> QED
  BY <1>3 DEF UpdatePlan, TypeOK

\* A successful run is counted.
LEMMA RunsType ==
    ASSUME TypeOK, NEW r, runs' = [runs EXCEPT ![r] = @ + 1]
    PROVE  runs' \in [RequestIds -> Nat]
<1>1. CASE r \in RequestIds
  BY <1>1 DEF TypeOK
<1>2. CASE r \notin RequestIds
  BY <1>2 DEF TypeOK
<1> QED
  BY <1>1, <1>2

\* Inserting a request row keeps every table well typed.
LEMMA InsertRowType ==
    ASSUME TypeOK, NEW p \in Procs, NEW r \in RequestIds, InsertRow(p, r)
    PROVE  TypeOK'
<1>1. procs[p] \in Proc
  BY DEF TypeOK
<1>2. procs[p].todo \in Seq(ActionTypes) /\ procs[p].todo # <<>>
      /\ procs[p].into \in PlanIds \cup {NoPlan}
  BY <1>1 DEF InsertRow, Proc
<1>3. Head(procs[p].todo) \in ActionTypes /\ Tail(procs[p].todo) \in Seq(ActionTypes)
  BY <1>2
<1>4. [plan |-> procs[p].into, type |-> Head(procs[p].todo),
       status |-> "pending", execution |-> "not_run"] \in Request
  BY <1>2, <1>3 DEF Request, Decision, Execution
<1>5. [procs[p] EXCEPT !.todo = Tail(procs[p].todo)] \in Proc
  BY <1>1, <1>3 DEF Proc
<1>6. procs' \in [Procs -> Proc]
  <2> DEFINE l == [procs[p] EXCEPT !.todo = Tail(procs[p].todo)]
  <2>1. procs' = [procs EXCEPT ![p] = l]
    BY DEF InsertRow
  <2>2. l \in Proc
    BY <1>5
  <2> HIDE DEF l
  <2> QED
    BY <2>1, <2>2, LocalType
<1>7. requests' \in [RequestIds -> Request]
  BY <1>4 DEF InsertRow, TypeOK
<1> QED
  BY <1>6, <1>7 DEF InsertRow, TypeOK

\* Inserting a plan row keeps every table well typed.
LEMMA InsertPlanType ==
    ASSUME TypeOK, NEW p \in Procs, NEW q \in PlanIds, NEW t \in PlanTemplates,
           InsertPlan(p, q, t), proposals' \in Nat
    PROVE  TypeOK'
<1>1. procs[p] \in Proc /\ t \in Seq(ActionTypes)
  BY DEF TypeOK
<1>2. [i \in DOMAIN t |-> [type |-> t[i], status |-> "pending"]] \in Seq(Step)
  <2>1. DOMAIN t = 1..Len(t) /\ Len(t) \in Nat /\ \A i \in DOMAIN t : t[i] \in ActionTypes
    BY <1>1
  <2>2. \A a \in ActionTypes : [type |-> a, status |-> "pending"] \in Step
    BY DEF Step, StepStatus
  <2>3. [i \in DOMAIN t |-> [type |-> t[i], status |-> "pending"]] \in [1..Len(t) -> Step]
    BY <2>1, <2>2, Zenon
  <2> QED
    BY <2>1, <2>3
<1>3. [steps |-> [i \in DOMAIN t |-> [type |-> t[i], status |-> "pending"]],
       status |-> "waiting_approval", completed |-> FALSE] \in Plan
  BY <1>2 DEF Plan, PlanStatus
<1>4. [procs[p] EXCEPT !.pc = "insert", !.into = q, !.todo = t] \in Proc
  BY <1>1 DEF Proc
<1>5. procs' \in [Procs -> Proc]
  BY <1>4 DEF InsertPlan, TypeOK
<1>6. plans' \in [PlanIds -> Plan]
  BY <1>3 DEF InsertPlan, TypeOK
<1> QED
  BY <1>5, <1>6 DEF InsertPlan, TypeOK

\* Every step of the server keeps the types, one case per action.
LEMMA NextType == TypeOK /\ [Next]_vars => TypeOK'
<1> SUFFICES ASSUME TypeOK, [Next]_vars PROVE TypeOK'
  OBVIOUS
<1>1. ASSUME NEW p \in Procs, Accept(p) PROVE TypeOK'
  <2>0. procs[p] \in Proc
    BY DEF TypeOK
  <2>1. CASE CreatePlan(p)
    BY <2>1, InsertPlanType DEF CreatePlan, TypeOK
  <2>2. CASE CycleProposes(p)
    <3>1. PICK t \in PlanTemplates : procs' = [procs EXCEPT ![p] =
              [Idle EXCEPT !.pc = "insert", !.todo = t]]
      BY <2>2 DEF CycleProposes
    <3>2. [Idle EXCEPT !.pc = "insert", !.todo = t] \in Proc
      BY IdleType DEF Proc
    <3>9. procs' \in [Procs -> Proc]
      BY <2>2, <3>1, <3>2 DEF CycleProposes, TypeOK
    <3> QED
      BY <2>2, <3>2, <3>9 DEF CycleProposes, TypeOK
  <2>3. ASSUME NEW r \in RequestIds, NEW d \in Decisions, ReceivePatch(p, r, d)
        PROVE TypeOK'
    <3>1. requests[r] \in Request /\ d \in Decision
      BY DEF TypeOK
    <3>2. [Idle EXCEPT
                !.pc = CASE d = "approved" -> "execute"
                         [] d = "dismissed" -> "read_plan"
                         [] d = "pending" -> "set_status",
                !.req = r, !.decision = d,
                !.type = requests[r].type, !.plan = requests[r].plan,
                !.mark = IF d = "dismissed" THEN "skipped" ELSE "pending"] \in Proc
      BY <3>1, IdleType DEF Proc, Request, Decision, StepStatus
    <3>3. patches' \in [RequestIds -> [Decision -> Nat]]
      BY <2>3, <3>1, SMTT(30) DEF ReceivePatch, TypeOK
    <3>9. procs' \in [Procs -> Proc]
      BY <2>3, <3>2, <3>3 DEF ReceivePatch, TypeOK
    <3> QED
      BY <2>3, <3>2, <3>3, <3>9 DEF ReceivePatch, TypeOK
  <2> QED
    BY <1>1, <2>1, <2>2, <2>3 DEF Accept
<1>2. ASSUME NEW p \in Procs, Serve(p) PROVE TypeOK'
  <2>0. procs[p] \in Proc
    BY DEF TypeOK
  <2>1. CASE InsertRequest(p) \/ ObserverProposes(p)
    BY <2>1, InsertRowType DEF InsertRequest, ObserverProposes
  <2>2. CASE ProposalDone(p)
    BY <2>2, IdleType DEF ProposalDone, TypeOK
  <2>3. CASE PlanToolDone(p)
    <3>1. [procs[p] EXCEPT !.pc = "receipt", !.mark = "done"] \in Proc
      BY <2>0 DEF Proc, StepStatus
    <3>9. procs' \in [Procs -> Proc]
      BY <2>3, <3>1 DEF PlanToolDone, TypeOK
    <3> QED
      BY <2>3, <3>9, RunsType DEF PlanToolDone, TypeOK
  <2>4. CASE ToolSucceeds(p)
    <3>1. \A c \in CrawlCounts :
            [procs[p] EXCEPT !.pc = "receipt", !.mark = "done", !.count = c] \in Proc
      BY <2>0 DEF Proc, StepStatus
    <3>9. procs' \in [Procs -> Proc]
      BY <2>4, <3>1 DEF ToolSucceeds, TypeOK
    <3> QED
      BY <2>4, <3>9, RunsType DEF ToolSucceeds, TypeOK
  <2>5. CASE RunPlanTool(p)
    BY <2>5, InsertPlanType DEF RunPlanTool, ReviewTemplates, TypeOK
  <2>6. CASE RecordAgentActionRequestExecution(p)
    <3>1. [procs[p] EXCEPT !.pc = "read_plan"] \in Proc
      BY <2>0 DEF Proc
    <3>2. requests' \in [RequestIds -> Request]
      BY <2>6, ReceiptType DEF RecordAgentActionRequestExecution
    <3>9. procs' \in [Procs -> Proc]
      BY <2>6, <3>1, <3>2 DEF RecordAgentActionRequestExecution, TypeOK
    <3> QED
      BY <2>6, <3>2, <3>9 DEF RecordAgentActionRequestExecution, TypeOK
  <2>7. CASE ReadPlan(p)
    <3>1. AfterPlanStep(procs[p]) \in Proc
      BY <2>0, AfterPlanStepType
    <3>2. procs[p].plan # NoPlan =>
            [procs[p] EXCEPT !.pc = "write_plan",
                !.steps = MarkFirst(plans[procs[p].plan].steps, procs[p].type, procs[p].mark)]
              \in Proc
      <4>1. procs[p].plan # NoPlan => plans[procs[p].plan].steps \in Seq(Step)
        BY <2>0 DEF TypeOK, Proc, Plan
      <4>2. procs[p].mark \in StepStatus
        BY <2>0 DEF Proc
      <4>3. procs[p].plan # NoPlan =>
              MarkFirst(plans[procs[p].plan].steps, procs[p].type, procs[p].mark) \in Seq(Step)
        BY <4>1, <4>2, MarkFirstType
      <4> QED
        BY <2>0, <4>3 DEF Proc
    <3>9. procs' \in [Procs -> Proc]
      BY <2>7, <3>1, <3>2 DEF ReadPlan, TypeOK
    <3> QED
      BY <2>7, <3>2, <3>9 DEF ReadPlan, TypeOK
  <2>8. CASE WritePlan(p)
    <3>1. AfterPlanStep(procs[p]) \in Proc
      BY <2>0, AfterPlanStepType
    <3>3. plans' \in [PlanIds -> Plan]
      BY <2>8, UpdatePlanType DEF WritePlan
    <3>9. procs' \in [Procs -> Proc]
      BY <2>8, <3>1 DEF WritePlan, TypeOK
    <3> QED
      BY <2>8, <3>3, <3>9 DEF WritePlan, TypeOK
  <2>9. CASE ObserverDone(p)
    <3>1. [procs[p] EXCEPT !.pc = "set_status"] \in Proc
      BY <2>0 DEF Proc
    <3>9. procs' \in [Procs -> Proc]
      BY <2>9, <3>1 DEF ObserverDone, TypeOK
    <3> QED
      BY <2>9, <3>9 DEF ObserverDone, TypeOK
  <2>10. CASE UpdateAgentActionRequestStatus(p)
    <3>1. procs[p].decision \in Decision
      BY <2>0 DEF Proc
    <3>2. requests' \in [RequestIds -> Request]
      <4>1. requests \in [RequestIds -> Request]
        BY DEF TypeOK
      <4>2. CASE procs[p].req \in RequestIds
        BY <2>10, <3>1, <4>1, <4>2, StatusColumnType
          DEF UpdateAgentActionRequestStatus
      <4>3. CASE procs[p].req \notin RequestIds
        BY <2>10, <4>1, <4>3 DEF UpdateAgentActionRequestStatus
      <4> QED
        BY <4>2, <4>3
    <3>9. procs' \in [Procs -> Proc]
      BY <2>10, <3>2, IdleType DEF UpdateAgentActionRequestStatus, TypeOK
    <3> QED
      BY <2>10, <3>2, <3>9 DEF UpdateAgentActionRequestStatus, TypeOK
  <2> QED
    BY <1>2, <2>1, <2>2, <2>3, <2>4, <2>5, <2>6, <2>7, <2>8, <2>9, <2>10 DEF Serve
<1>3. ASSUME NEW p \in Procs, Fail(p) PROVE TypeOK'
  <2>0. procs[p] \in Proc
    BY DEF TypeOK
  <2>1. CASE InsertFails(p)
    <3>1. [procs[p] EXCEPT !.pc = "receipt", !.mark = "failed", !.todo = <<>>] \in Proc
      BY <2>0, EmptyTodo DEF Proc, StepStatus
    <3>9. procs' \in [Procs -> Proc]
      BY <2>1, <3>1, IdleType DEF InsertFails, TypeOK
    <3> QED
      BY <2>1, <3>9 DEF InsertFails, TypeOK
  <2>2. CASE ToolFails(p)
    <3>1. [procs[p] EXCEPT !.pc = "receipt", !.mark = "failed"] \in Proc
      BY <2>0 DEF Proc, StepStatus
    <3>9. procs' \in [Procs -> Proc]
      BY <2>2, <3>1 DEF ToolFails, TypeOK
    <3> QED
      BY <2>2, <3>9 DEF ToolFails, TypeOK
  <2>3. CASE ReceiptFails(p)
    <3>1. [procs[p] EXCEPT !.pc = "read_plan"] \in Proc
      BY <2>0 DEF Proc
    <3>2. requests' \in [RequestIds -> Request]
      BY <2>3, ReceiptType DEF ReceiptFails, TypeOK
    <3>9. procs' \in [Procs -> Proc]
      BY <2>3, <3>1, <3>2, IdleType DEF ReceiptFails, TypeOK
    <3> QED
      BY <2>3, <3>2, <3>9 DEF ReceiptFails, TypeOK
  <2>4. CASE PlanStepFails(p)
    <3>2. plans' \in [PlanIds -> Plan]
      BY <2>4, UpdatePlanType DEF PlanStepFails, TypeOK
    <3>9. procs' \in [Procs -> Proc]
      BY <2>4, <3>2, IdleType DEF PlanStepFails, TypeOK
    <3> QED
      BY <2>4, <3>2, <3>9 DEF PlanStepFails, TypeOK
  <2>5. CASE ObserverFails(p)
    <3>1. [procs[p] EXCEPT !.pc = "set_status", !.todo = <<>>] \in Proc
      BY <2>0, EmptyTodo DEF Proc
    <3>9. procs' \in [Procs -> Proc]
      BY <2>5, <3>1 DEF ObserverFails, TypeOK
    <3> QED
      BY <2>5, <3>9 DEF ObserverFails, TypeOK
  <2>6. CASE StatusFails(p)
    BY <2>6, IdleType DEF StatusFails, TypeOK
  <2> QED
    BY <1>3, <2>1, <2>2, <2>3, <2>4, <2>5, <2>6 DEF Fail
<1>4. CASE Crash
  BY <1>4, IdleType DEF Crash, TypeOK
<1>5. CASE UNCHANGED vars
  BY <1>5 DEF vars, TypeOK
<1> QED
  BY <1>1, <1>2, <1>3, <1>4, <1>5 DEF Next

\* Every row, plan and goroutine of the approval gate keeps its type for any
\* number of goroutines, whatever fails.
THEOREM TypeCorrect == Spec => []TypeOK
  BY InitType, NextType, PTL DEF Spec

-----------------------------------------------------------------------------
(* The plan's status column.                                               *)

\* The only writes to agent_plans: a new plan, or one UPDATE of a plan's
\* steps, status and completed_at together.
LEMMA PlanWrites ==
    ASSUME [Next]_vars
    PROVE  \/ UNCHANGED plans
           \/ \E p \in Procs : procs[p].pc = "write_plan" /\ UpdatePlan(p)
           \/ \E p \in Procs, q \in PlanIds, t \in PlanTemplates : InsertPlan(p, q, t)
<1>1. ASSUME NEW p \in Procs, Serve(p) \/ Fail(p) \/ Accept(p)
      PROVE  \/ UNCHANGED plans
             \/ procs[p].pc = "write_plan" /\ UpdatePlan(p)
             \/ \E q \in PlanIds, t \in PlanTemplates : InsertPlan(p, q, t)
  <2>1. CASE Serve(p)
    BY <2>1 DEF Serve, InsertRequest, InsertRow, ProposalDone, PlanToolDone,
      ToolSucceeds, RunPlanTool, ReviewTemplates, RecordAgentActionRequestExecution, ReadPlan,
      WritePlan, ObserverProposes, ObserverDone, UpdateAgentActionRequestStatus
  <2>2. CASE Fail(p)
    BY <2>2 DEF Fail, InsertFails, ToolFails, ReceiptFails, PlanStepFails,
      ObserverFails, StatusFails
  <2>3. CASE Accept(p)
    BY <2>3 DEF Accept, CreatePlan, CycleProposes, ReceivePatch
  <2> QED
    BY <1>1, <2>1, <2>2, <2>3
<1>2. CASE Crash
  BY <1>2 DEF Crash
<1>3. CASE UNCHANGED vars
  BY <1>3 DEF vars
<1> QED
  BY <1>1, <1>2, <1>3 DEF Next

\* A plan is inserted with the status its pending steps imply.
LEMMA NewPlanStatus ==
    ASSUME NEW t \in Seq(ActionTypes) \ {<<>>}
    PROVE  deriveAgentPlanStatus([i \in DOMAIN t |-> [type |-> t[i], status |-> "pending"]])
              = "waiting_approval"
<1> DEFINE steps == [i \in DOMAIN t |-> [type |-> t[i], status |-> "pending"]]
<1>1. DOMAIN steps = DOMAIN t /\ \A i \in DOMAIN steps : steps[i].status = "pending"
  OBVIOUS
<1>2. DOMAIN t # {}
  <2>1. DOMAIN t = 1..Len(t) /\ Len(t) \in Nat /\ Len(t) # 0
    OBVIOUS
  <2>2. 1 \in DOMAIN t
    BY <2>1
  <2> QED
    BY <2>2
<1> HIDE DEF steps
<1> QED
  BY <1>1, <1>2 DEF deriveAgentPlanStatus, steps

\* Every step leaves the status and completed_at that the steps stored imply.
LEMMA PlanStatusNext ==
    TypeOK /\ PlanStatusDerived /\ [Next]_vars => PlanStatusDerived'
<1> SUFFICES ASSUME TypeOK, PlanStatusDerived, [Next]_vars,
                    NEW q \in PlanIds, plans'[q].status # "absent"
             PROVE  /\ plans'[q].status = deriveAgentPlanStatus(plans'[q].steps)
                    /\ plans'[q].completed <=> plans'[q].status = "done"
  BY DEF PlanStatusDerived
<1>1. CASE UNCHANGED plans
  BY <1>1 DEF PlanStatusDerived
<1>2. ASSUME NEW p \in Procs, UpdatePlan(p)
      PROVE  /\ plans'[q].status = deriveAgentPlanStatus(plans'[q].steps)
             /\ plans'[q].completed <=> plans'[q].status = "done"
  <2>1. CASE procs[p].plan = q
    BY <1>2, <2>1 DEF UpdatePlan, TypeOK
  <2>2. CASE procs[p].plan # q
    BY <1>2, <2>2 DEF UpdatePlan, TypeOK, PlanStatusDerived
  <2> QED
    BY <2>1, <2>2
<1>3. ASSUME NEW p \in Procs, NEW n \in PlanIds, NEW t \in PlanTemplates,
             InsertPlan(p, n, t)
      PROVE  /\ plans'[q].status = deriveAgentPlanStatus(plans'[q].steps)
             /\ plans'[q].completed <=> plans'[q].status = "done"
  <2>1. CASE n = q
    BY <1>3, <2>1, NewPlanStatus DEF InsertPlan, TypeOK
  <2>2. CASE n # q
    BY <1>3, <2>2 DEF InsertPlan, TypeOK, PlanStatusDerived
  <2> QED
    BY <2>1, <2>2
<1> QED
  BY <1>1, <1>2, <1>3, PlanWrites

\* However handlers overwrite each other's copy of a plan's steps, the status
\* and completed_at shown are those of the steps stored.
THEOREM PlanStatusCorrect == Spec => []PlanStatusDerived
<1>1. Init => PlanStatusDerived
  BY DEF Init, PlanStatusDerived, AbsentPlan
<1> QED
  BY <1>1, PlanStatusNext, TypeCorrect, PTL DEF Spec

-----------------------------------------------------------------------------
(* Receipts, statuses and plan steps are earned.                           *)

SetStatus(p) ==
    /\ procs[p].pc = "set_status"
    /\ requests' = [requests EXCEPT ![procs[p].req].status = procs[p].decision]

\* The only writes to agent_action_requests.
LEMMA RequestWrites ==
    ASSUME [Next]_vars
    PROVE  \/ UNCHANGED requests
           \/ \E p \in Procs, r \in RequestIds :
                 procs[p].pc \in {"insert", "observe"} /\ InsertRow(p, r)
           \/ \E p \in Procs : procs[p].pc = "receipt" /\ WriteReceipt(p)
           \/ \E p \in Procs : SetStatus(p)
<1>1. ASSUME NEW p \in Procs, Serve(p) \/ Fail(p) \/ Accept(p)
      PROVE  \/ UNCHANGED requests
             \/ procs[p].pc \in {"insert", "observe"} /\ \E r \in RequestIds : InsertRow(p, r)
             \/ procs[p].pc = "receipt" /\ WriteReceipt(p)
             \/ SetStatus(p)
  <2>1. CASE Serve(p)
    BY <2>1 DEF Serve, InsertRequest, ProposalDone, PlanToolDone, SetStatus,
      ToolSucceeds, RunPlanTool, InsertPlan, RecordAgentActionRequestExecution, ReadPlan,
      WritePlan, ObserverProposes, ObserverDone, UpdateAgentActionRequestStatus
  <2>2. CASE Fail(p)
    BY <2>2 DEF Fail, InsertFails, ToolFails, ReceiptFails, PlanStepFails,
      ObserverFails, StatusFails
  <2>3. CASE Accept(p)
    BY <2>3 DEF Accept, CreatePlan, InsertPlan, CycleProposes, ReceivePatch
  <2> QED
    BY <1>1, <2>1, <2>2, <2>3
<1>2. CASE Crash
  BY <1>2 DEF Crash
<1>3. CASE UNCHANGED vars
  BY <1>3 DEF vars
<1> QED
  BY <1>1, <1>2, <1>3 DEF Next

\* The history only grows: runs by one at a time, PATCHes likewise.
LEMMA HistoryWrites ==
    ASSUME [Next]_vars
    PROVE  /\ \/ UNCHANGED runs
              \/ \E x : runs' = [runs EXCEPT ![x] = @ + 1]
           /\ \/ UNCHANGED patches
              \/ \E r \in RequestIds, d \in Decision :
                    patches' = [patches EXCEPT ![r][d] = @ + 1]
<1> DEFINE P == /\ \/ UNCHANGED runs
                   \/ \E x : runs' = [runs EXCEPT ![x] = @ + 1]
                /\ \/ UNCHANGED patches
                   \/ \E r \in RequestIds, d \in Decision :
                         patches' = [patches EXCEPT ![r][d] = @ + 1]
<1>1. ASSUME NEW p \in Procs, Serve(p) \/ Fail(p) \/ Accept(p)
      PROVE  P
  <2>1. CASE Serve(p)
    BY <2>1 DEF Serve, InsertRequest, InsertRow, ProposalDone, PlanToolDone,
      ToolSucceeds, RunPlanTool, InsertPlan, RecordAgentActionRequestExecution, ReadPlan,
      WritePlan, ObserverProposes, ObserverDone, UpdateAgentActionRequestStatus
  <2>2. CASE Fail(p)
    BY <2>2 DEF Fail, InsertFails, ToolFails, ReceiptFails, PlanStepFails,
      ObserverFails, StatusFails
  <2>3. CASE Accept(p)
    BY <2>3 DEF Accept, CreatePlan, InsertPlan, CycleProposes, ReceivePatch
  <2> QED
    BY <1>1, <2>1, <2>2, <2>3
<1>2. CASE Crash
  BY <1>2 DEF Crash
<1>3. CASE UNCHANGED vars
  BY <1>3 DEF vars
<1> QED
  BY <1>1, <1>2, <1>3 DEF Next

\* What one step may do to a row and its history.
Grows ==
    \A r \in RequestIds :
        /\ requests[r].status # "absent" =>
            /\ requests'[r].status # "absent"
            /\ requests'[r].type = requests[r].type
            /\ requests'[r].plan = requests[r].plan
        /\ requests[r].execution # "not_run" => requests'[r].execution # "not_run"
        /\ runs'[r] >= runs[r]
        /\ \A d \in Decision : patches'[r][d] >= patches[r][d]

\* No step takes back a row, a receipt, a run or a PATCH.
LEMMA RowsGrow ==
    ASSUME TypeOK, AbsentRows, [Next]_vars
    PROVE  Grows
<1> SUFFICES ASSUME NEW r \in RequestIds
             PROVE
        /\ requests[r].status # "absent" =>
            /\ requests'[r].status # "absent"
            /\ requests'[r].type = requests[r].type
            /\ requests'[r].plan = requests[r].plan
        /\ requests[r].execution # "not_run" => requests'[r].execution # "not_run"
        /\ runs'[r] >= runs[r]
        /\ \A d \in Decision : patches'[r][d] >= patches[r][d]
  BY DEF Grows
<1>1. runs'[r] >= runs[r]
  <2>1. runs \in [RequestIds -> Nat]
    BY DEF TypeOK
  <2>2. CASE UNCHANGED runs
    BY <2>1, <2>2
  <2>3. ASSUME NEW x, runs' = [runs EXCEPT ![x] = @ + 1]
        PROVE  runs'[r] >= runs[r]
    <3>1. runs'[r] = IF r = x THEN runs[r] + 1 ELSE runs[r]
      BY <2>1, <2>3
    <3> QED
      BY <2>1, <3>1
  <2> QED
    BY <2>2, <2>3, HistoryWrites
<1>2. ASSUME NEW d \in Decision PROVE patches'[r][d] >= patches[r][d]
  <2>1. patches \in [RequestIds -> [Decision -> Nat]]
    BY DEF TypeOK
  <2>2. CASE UNCHANGED patches
    BY <2>1, <2>2
  <2>3. ASSUME NEW x \in RequestIds, NEW e \in Decision,
               patches' = [patches EXCEPT ![x][e] = @ + 1]
        PROVE  patches'[r][d] >= patches[r][d]
    <3>1. patches'[r][d] = IF r = x /\ d = e THEN patches[r][d] + 1 ELSE patches[r][d]
      BY <2>1, <2>3
    <3> QED
      BY <2>1, <3>1
  <2> QED
    BY <2>2, <2>3, HistoryWrites
<1> DEFINE P == /\ requests[r].status # "absent" =>
                    /\ requests'[r].status # "absent"
                    /\ requests'[r].type = requests[r].type
                    /\ requests'[r].plan = requests[r].plan
                /\ requests[r].execution # "not_run" => requests'[r].execution # "not_run"
<1>3. ASSUME requests' = requests PROVE P
  BY <1>3
<1>4. ASSUME NEW p \in Procs, NEW x \in RequestIds, InsertRow(p, x) PROVE P
  <2>1. CASE x = r
    BY <1>4, <2>1 DEF InsertRow, FreshRequest, AbsentRows
  <2>2. CASE x # r
    BY <1>4, <2>2 DEF InsertRow, TypeOK
  <2> QED
    BY <2>1, <2>2
<1>5. ASSUME NEW p \in Procs, WriteReceipt(p) PROVE P
  <2>1. requests[r] \in Request
    BY DEF TypeOK
  <2>2. requests'[r] \in {requests[r]} \cup {[requests[r] EXCEPT !.execution = e] : e \in {"succeeded", "failed"}}
    BY <1>5 DEF WriteReceipt, TypeOK
  <2> QED
    BY <2>1, <2>2 DEF Request
<1>6. ASSUME NEW p \in Procs, SetStatus(p) PROVE P
  <2>1. requests[r] \in Request
    BY DEF TypeOK
  <2>2. procs[p].decision \in Decision
    BY DEF TypeOK, Proc
  <2>3. requests'[r] \in {requests[r]} \cup {[requests[r] EXCEPT !.status = d] : d \in Decision}
    BY <1>6, <2>2 DEF SetStatus, TypeOK
  <2> QED
    BY <2>1, <2>3 DEF Request, Decision
<1>7. P
  BY <1>3, <1>4, <1>5, <1>6, RequestWrites
<1> QED
  BY <1>1, <1>2, <1>7

\* A step that is backed by a request stays backed, because rows and history
\* only grow.
LEMMA BackedStays ==
    ASSUME TypeOK, TypeOK', AbsentRows, Grows, NEW q \in PlanIds, NEW s \in Step,
           StepBacked(q, s)
    PROVE  StepBacked(q, s)'
<1>1. CASE s.status = "pending"
  BY <1>1 DEF StepBacked
<1>2. CASE s.status # "pending"
  <2>1. PICK r \in RequestIds :
          /\ requests[r].plan = q /\ requests[r].type = s.type
          /\ s.status = "done" => runs[r] > 0
          /\ s.status = "skipped" => patches[r]["dismissed"] > 0
          /\ s.status = "failed" => patches[r]["approved"] > 0
    BY <1>2 DEF StepBacked
  <2>2. requests[r].status # "absent"
    BY <2>1 DEF AbsentRows, NoPlan, PlanIds
  <2>3. requests'[r].plan = q /\ requests'[r].type = s.type
    BY <2>1, <2>2 DEF Grows
  <2>4. /\ runs[r] > 0 => runs'[r] > 0
        /\ \A d \in Decision : patches[r][d] > 0 => patches'[r][d] > 0
    BY DEF Grows, TypeOK
  <2>5. "dismissed" \in Decision /\ "approved" \in Decision
    BY DEF Decision
  <2> QED
    BY <2>1, <2>3, <2>4, <2>5 DEF StepBacked
<1> QED
  BY <1>1, <1>2

\* A handler that serves nothing needs nothing.
LEMMA IdleLocal == LocalInv(Idle) /\ LocalInv(Idle)'
  BY DEF Idle, LocalInv, ControlOK, RowKnown, RunEarned, CopyBacked, NoRequest

\* What another handler's copy needs of the rows survives every step.
LEMMA LocalStays ==
    ASSUME TypeOK, TypeOK', AbsentRows, Grows, NEW l \in Proc, LocalInv(l)
    PROVE  LocalInv(l)'
<1>0. l.req \in RequestIds \cup {NoRequest} /\ l.decision \in Decision
      /\ l.plan \in PlanIds \cup {NoPlan} /\ l.steps \in Seq(Step)
  BY DEF Proc
<1>1. ControlOK(l)'
  BY DEF LocalInv, ControlOK
<1>2. RowKnown(l)'
  BY <1>0 DEF LocalInv, RowKnown, Grows, TypeOK
<1>3. RunEarned(l)'
  BY <1>0 DEF LocalInv, RunEarned, Grows, TypeOK
<1>4. CopyBacked(l)'
  <2>1. \A i \in DOMAIN l.steps : l.steps[i] \in Step
    BY <1>0
  <2>2. l.pc = "write_plan" => l.plan \in PlanIds
    BY <1>0 DEF LocalInv, ControlOK
  <2> QED
    BY <2>1, <2>2, BackedStays DEF LocalInv, CopyBacked
<1> QED
  BY <1>1, <1>2, <1>3, <1>4 DEF LocalInv

\* Receipts and statuses are written only by handlers whose tool has run.
LEMMA ReceiptEarnedStep ==
    ASSUME TypeOK, AbsentRows, ReceiptEarned, Grows, [Next]_vars,
           \A p \in Procs : LocalInv(procs[p])
    PROVE  ReceiptEarned' /\ AbsentRows'
<1> SUFFICES ASSUME NEW r \in RequestIds
             PROVE  /\ requests'[r].execution = "succeeded" => runs'[r] > 0
                    /\ requests'[r].status = "approved" =>
                          runs'[r] > 0 /\ requests'[r].execution # "not_run"
                    /\ requests'[r].status = "absent" =>
                          requests'[r].plan = NoPlan /\ requests'[r].execution = "not_run"
  BY DEF ReceiptEarned, AbsentRows
<1> DEFINE P == /\ requests'[r].execution = "succeeded" => runs[r] > 0
                /\ requests'[r].status = "approved" =>
                      runs[r] > 0 /\ requests'[r].execution # "not_run"
                /\ requests'[r].status = "absent" =>
                      requests'[r].plan = NoPlan /\ requests'[r].execution = "not_run"
<1>0. requests[r] \in Request
  BY DEF TypeOK
<1>1. ASSUME UNCHANGED requests PROVE P
  BY <1>1 DEF ReceiptEarned, AbsentRows
<1>2. ASSUME NEW p \in Procs, NEW x \in RequestIds, InsertRow(p, x) PROVE P
  <2>1. CASE x = r
    BY <1>2, <2>1 DEF InsertRow, TypeOK
  <2>2. CASE x # r
    BY <1>2, <2>2 DEF InsertRow, TypeOK, ReceiptEarned, AbsentRows
  <2> QED
    BY <2>1, <2>2
<1>3. ASSUME NEW p \in Procs, procs[p].pc = "receipt", WriteReceipt(p) PROVE P
  <2>1. CASE procs[p].req = r
    <3>1. requests' = [requests EXCEPT ![r] = [requests[r] EXCEPT !.execution =
              IF procs[p].mark = "done" THEN "succeeded" ELSE "failed"]]
      BY <1>3, <2>1 DEF WriteReceipt
    <3>2. requests'[r] = [requests[r] EXCEPT !.execution =
              IF procs[p].mark = "done" THEN "succeeded" ELSE "failed"]
      BY <3>1 DEF TypeOK
    <3>3. requests'[r].status = requests[r].status
          /\ requests'[r].execution = IF procs[p].mark = "done" THEN "succeeded" ELSE "failed"
      BY <1>0, <3>2 DEF Request
    <3>4. r # NoRequest /\ LocalInv(procs[p])
      BY DEF RequestIds, NoRequest
    <3>5. requests[r].status # "absent" /\ (procs[p].mark = "done" => runs[r] > 0)
      BY <2>1, <3>4 DEF LocalInv, RowKnown, RunEarned
    <3> QED
      BY <3>3, <3>5 DEF ReceiptEarned
  <2>2. CASE procs[p].req # r
    BY <1>3, <2>2 DEF WriteReceipt, TypeOK, ReceiptEarned, AbsentRows
  <2> QED
    BY <2>1, <2>2
<1>4. ASSUME NEW p \in Procs, SetStatus(p) PROVE P
  <2>1. CASE procs[p].req = r
    <3>1. requests' = [requests EXCEPT ![r] = [requests[r] EXCEPT !.status = procs[p].decision]]
      BY <1>4, <2>1 DEF SetStatus
    <3>2. requests'[r] = [requests[r] EXCEPT !.status = procs[p].decision]
      BY <3>1 DEF TypeOK
    <3>3. requests'[r].status = procs[p].decision
          /\ requests'[r].execution = requests[r].execution
      BY <1>0, <3>2 DEF Request
    <3>4. r # NoRequest /\ LocalInv(procs[p]) /\ procs[p].pc = "set_status"
      BY <1>4 DEF RequestIds, NoRequest, SetStatus
    <3>5. procs[p].decision = "approved" => runs[r] > 0 /\ requests[r].execution # "not_run"
      BY <2>1, <3>4 DEF LocalInv, ControlOK, RunEarned
    <3>6. procs[p].decision # "absent"
      BY DEF TypeOK, Proc, Decision
    <3> QED
      BY <3>3, <3>5, <3>6 DEF ReceiptEarned
  <2>2. CASE procs[p].req # r
    BY <1>4, <2>2 DEF SetStatus, TypeOK, ReceiptEarned, AbsentRows
  <2> QED
    BY <2>1, <2>2
<1>5. P
  BY <1>1, <1>2, <1>3, <1>4, RequestWrites DEF ReceiptEarned, AbsentRows
<1>6. runs[r] > 0 => runs'[r] > 0
  <2>1. runs[r] \in Nat /\ runs'[r] >= runs[r] /\ runs'[r] \in Nat
    BY NextType DEF TypeOK, Grows
  <2> QED
    BY <2>1
<1> QED
  BY <1>5, <1>6

\* Plan steps are written only from a copy that is backed.
LEMMA StepsEarnedStep ==
    ASSUME TypeOK, TypeOK', AbsentRows, StepsEarned, Grows, [Next]_vars,
           \A p \in Procs : LocalInv(procs[p])
    PROVE  StepsEarned'
<1> SUFFICES ASSUME NEW q \in PlanIds, NEW i \in DOMAIN plans'[q].steps,
                    NEW s \in Step, s = plans'[q].steps[i]
             PROVE  StepBacked(q, s)'
  <2>1. \A q \in PlanIds : plans'[q].steps \in Seq(Step)
    BY DEF TypeOK, Plan
  <2>2. \A q \in PlanIds : \A i \in DOMAIN plans'[q].steps : plans'[q].steps[i] \in Step
    BY <2>1
  <2> QED
    BY <2>2 DEF StepsEarned, StepBacked
<1>1. StepBacked(q, s) => StepBacked(q, s)'
  BY BackedStays
<1>2. CASE UNCHANGED plans
  BY <1>1, <1>2 DEF StepsEarned
<1>3. ASSUME NEW p \in Procs, procs[p].pc = "write_plan", UpdatePlan(p)
      PROVE  StepBacked(q, s)'
  <2>1. CASE procs[p].plan = q
    <3>1. plans'[q].steps = procs[p].steps
      BY <1>3, <2>1 DEF UpdatePlan, TypeOK
    <3> QED
      BY <1>1, <1>3, <2>1, <3>1 DEF LocalInv, CopyBacked
  <2>2. CASE procs[p].plan # q
    BY <1>1, <1>3, <2>2 DEF UpdatePlan, TypeOK, StepsEarned
  <2> QED
    BY <2>1, <2>2
<1>4. ASSUME NEW p \in Procs, NEW n \in PlanIds, NEW t \in PlanTemplates,
             InsertPlan(p, n, t)
      PROVE  StepBacked(q, s)'
  <2>1. CASE n = q
    <3>1. plans'[q].steps = [k \in DOMAIN t |-> [type |-> t[k], status |-> "pending"]]
      BY <1>4, <2>1 DEF InsertPlan, TypeOK
    <3>2. s.status = "pending"
      BY <3>1
    <3> QED
      BY <3>2 DEF StepBacked
  <2>2. CASE n # q
    BY <1>1, <1>4, <2>2 DEF InsertPlan, TypeOK, StepsEarned
  <2> QED
    BY <2>1, <2>2
<1> QED
  BY <1>2, <1>3, <1>4, PlanWrites

\* A step of one goroutine touches no other goroutine's state.
LEMMA OthersStay ==
    ASSUME TypeOK, NEW p \in Procs, Serve(p) \/ Fail(p) \/ Accept(p),
           NEW o \in Procs, o # p
    PROVE  procs'[o] = procs[o]
<1>1. CASE Serve(p)
  BY <1>1 DEF TypeOK, Serve, InsertRequest, InsertRow, ProposalDone, PlanToolDone,
    ToolSucceeds, RunPlanTool, InsertPlan, RecordAgentActionRequestExecution, ReadPlan,
    WritePlan, ObserverProposes, ObserverDone, UpdateAgentActionRequestStatus
<1>2. CASE Fail(p)
  BY <1>2 DEF TypeOK, Fail, InsertFails, ToolFails, ReceiptFails, PlanStepFails,
    ObserverFails, StatusFails
<1>3. CASE Accept(p)
  BY <1>3 DEF TypeOK, Accept, CreatePlan, InsertPlan, CycleProposes, ReceivePatch
<1> QED
  BY <1>1, <1>2, <1>3

\* Where the handler goes after the plan step keeps what it knows.
LEMMA AfterPlanStepLocal ==
    ASSUME NEW l \in Proc, LocalInv(l)', l.pc \in {"read_plan", "write_plan"}
    PROVE  LocalInv(AfterPlanStep(l))'
<1>1. CASE l.mark = "done"
  <2> DEFINE todo == BuildObserverReplanActions(l.type, l.count)
  <2>1. PICK m : m = [l EXCEPT !.pc = "observe", !.into = NoPlan, !.todo = todo]
    OBVIOUS
  <2>2. m.pc = "observe" /\ m.req = l.req /\ m.type = l.type /\ m.plan = l.plan
        /\ m.decision = l.decision /\ m.mark = "done"
    BY <1>1, <2>1 DEF Proc
  <2>3. LocalInv(m)'
    BY <1>1, <2>2 DEF LocalInv, ControlOK, RowKnown, RunEarned, CopyBacked
  <2>4. AfterPlanStep(l) = m
    BY <1>1, <2>1 DEF AfterPlanStep
  <2> QED
    BY <2>3, <2>4
<1>2. CASE l.mark = "skipped"
  <2>1. PICK m : m = [l EXCEPT !.pc = "set_status"]
    OBVIOUS
  <2>2. m.pc = "set_status" /\ m.req = l.req /\ m.type = l.type /\ m.plan = l.plan
        /\ m.decision = l.decision /\ m.mark = "skipped"
    BY <1>2, <2>1 DEF Proc
  <2>3. LocalInv(m)'
    BY <1>2, <2>2 DEF LocalInv, ControlOK, RowKnown, RunEarned, CopyBacked
  <2>4. AfterPlanStep(l) = m
    BY <1>2, <2>1 DEF AfterPlanStep
  <2> QED
    BY <2>3, <2>4
<1>3. CASE l.mark \notin {"done", "skipped"}
  BY <1>3, IdleLocal DEF AfterPlanStep
<1> QED
  BY <1>1, <1>2, <1>3

\* A PATCH accepted: the handler knows its row and that it was asked.
LEMMA AcceptLocal ==
    ASSUME TypeOK, TypeOK', NEW p \in Procs, LocalInv(procs[p]), Accept(p),
           NEW m \in Proc, m = procs'[p]
    PROVE  LocalInv(m)'
<1>0. procs[p] \in Proc /\ LocalInv(procs[p])
  BY DEF TypeOK
<1>1. CASE CreatePlan(p)
  <2>1. PICK q \in PlanIds, t \in PlanTemplates :
          m = [procs[p] EXCEPT !.pc = "insert", !.into = q, !.todo = t]
    BY <1>1 DEF CreatePlan, InsertPlan, TypeOK
  <2>2. m.pc = "insert" /\ m.req = procs[p].req
    BY <1>0, <2>1 DEF Proc
  <2>3. procs[p].req = NoRequest
    BY <1>0, <1>1 DEF CreatePlan, LocalInv, ControlOK
  <2> QED
    BY <2>2, <2>3 DEF LocalInv, ControlOK, RowKnown, RunEarned, CopyBacked
<1>2. CASE CycleProposes(p)
  <2>1. PICK t \in PlanTemplates : m = [Idle EXCEPT !.pc = "insert", !.todo = t]
    BY <1>2 DEF CycleProposes, TypeOK
  <2>2. m.pc = "insert" /\ m.req = NoRequest
    BY <2>1 DEF Idle
  <2> QED
    BY <2>2 DEF LocalInv, ControlOK, RowKnown, RunEarned, CopyBacked
<1>3. ASSUME NEW r \in RequestIds, NEW d \in Decisions, ReceivePatch(p, r, d)
      PROVE  LocalInv(m)'
  <2>1. m.req = r /\ m.decision = d /\ m.type = requests[r].type
        /\ m.plan = requests[r].plan
        /\ m.mark = (IF d = "dismissed" THEN "skipped" ELSE "pending")
        /\ m.pc = (CASE d = "approved" -> "execute" [] d = "dismissed" -> "read_plan"
                     [] d = "pending" -> "set_status")
    BY <1>3 DEF ReceivePatch, TypeOK, Idle
  <2>2. d \in {"approved", "dismissed", "pending"}
    BY DEF Decision
  <2>3. requests' = requests /\ requests[r].status # "absent"
    BY <1>3 DEF ReceivePatch
  <2>4. patches'[r][d] > 0
    <3>1. d \in Decision /\ patches[r][d] \in Nat
      BY DEF TypeOK
    <3>2. patches'[r][d] = patches[r][d] + 1
      BY <1>3, <3>1 DEF ReceivePatch, TypeOK
    <3> QED
      BY <3>1, <3>2
  <2>5. r # NoRequest
    BY DEF RequestIds, NoRequest
  <2>6. ControlOK(m)'
    BY <2>1, <2>2, <2>5 DEF ControlOK
  <2>7. RowKnown(m)'
    BY <2>1, <2>3, <2>4 DEF RowKnown
  <2>8. RunEarned(m)' /\ CopyBacked(m)'
    BY <2>1, <2>2 DEF RunEarned, CopyBacked
  <2> QED
    BY <2>6, <2>7, <2>8 DEF LocalInv
<1> QED
  BY <1>1, <1>2, <1>3 DEF Accept

\* What a handler knows after each step it takes by itself.
LEMMA ServeLocal ==
    ASSUME TypeOK, TypeOK', StepsEarned, AbsentRows, Grows, NEW p \in Procs,
           NEW l \in Proc, l = procs[p], LocalInv(l), Serve(p),
           NEW m \in Proc, m = procs'[p]
    PROVE  LocalInv(m)'
<1>0. LocalInv(l)'
  BY LocalStays
<1>1. CASE InsertRequest(p) \/ ObserverProposes(p)
  <2>1. m = [l EXCEPT !.todo = Tail(l.todo)]
    BY <1>1 DEF InsertRequest, ObserverProposes, InsertRow, TypeOK
  <2>2. m.pc = l.pc /\ m.req = l.req /\ m.type = l.type /\ m.plan = l.plan
        /\ m.decision = l.decision /\ m.mark = l.mark
    BY <2>1 DEF Proc
  <2>3. l.pc # "write_plan"
    BY <1>1 DEF InsertRequest, ObserverProposes
  <2> QED
    BY <1>0, <2>2, <2>3 DEF LocalInv, ControlOK, RowKnown, RunEarned, CopyBacked
<1>2. CASE ProposalDone(p)
  BY <1>2, IdleLocal DEF ProposalDone, TypeOK
<1>3. CASE PlanToolDone(p) \/ ToolSucceeds(p)
  <2>1. l.req # NoRequest /\ l.decision = "approved"
    BY <1>3 DEF PlanToolDone, ToolSucceeds, LocalInv, ControlOK
  <2>2. m.pc = "receipt" /\ m.req = l.req /\ m.type = l.type /\ m.plan = l.plan
        /\ m.decision = l.decision /\ m.mark = "done"
    <3>1. CASE PlanToolDone(p)
      <4>1. m = [l EXCEPT !.pc = "receipt", !.mark = "done"]
        BY <3>1 DEF PlanToolDone, TypeOK
      <4> QED
        BY <4>1 DEF Proc
    <3>2. CASE ToolSucceeds(p)
      <4>1. PICK c \in CrawlCounts :
              m = [l EXCEPT !.pc = "receipt", !.mark = "done", !.count = c]
        BY <3>2 DEF ToolSucceeds, TypeOK
      <4> QED
        BY <4>1 DEF Proc
    <3> QED
      BY <1>3, <3>1, <3>2
  <2>3. runs'[l.req] > 0
    <3>1. l.req \in RequestIds /\ runs[l.req] \in Nat
      BY <2>1 DEF Proc, TypeOK
    <3>2. runs' = [runs EXCEPT ![l.req] = @ + 1]
      BY <1>3 DEF PlanToolDone, ToolSucceeds
    <3>3. runs'[l.req] = runs[l.req] + 1
      BY <3>1, <3>2 DEF TypeOK
    <3> QED
      BY <3>1, <3>3
  <2> QED
    BY <1>0, <2>1, <2>2, <2>3 DEF LocalInv, ControlOK, RowKnown, RunEarned, CopyBacked
<1>4. CASE RunPlanTool(p)
  <2>1. PICK q \in PlanIds, t \in PlanTemplates :
          m = [l EXCEPT !.pc = "insert", !.into = q, !.todo = t]
    BY <1>4 DEF RunPlanTool, ReviewTemplates, InsertPlan, TypeOK
  <2>2. m.pc = "insert" /\ m.req = l.req /\ m.type = l.type /\ m.plan = l.plan
        /\ m.decision = l.decision /\ m.mark = l.mark /\ l.pc = "execute"
    BY <1>4, <2>1 DEF Proc, RunPlanTool
  <2> QED
    BY <1>0, <2>2 DEF LocalInv, ControlOK, RowKnown, RunEarned, CopyBacked
<1>5. CASE RecordAgentActionRequestExecution(p)
  <2>1. m = [l EXCEPT !.pc = "read_plan"] /\ l.pc = "receipt"
    BY <1>5 DEF RecordAgentActionRequestExecution, TypeOK
  <2>2. m.pc = "read_plan" /\ m.req = l.req /\ m.type = l.type /\ m.plan = l.plan
        /\ m.decision = l.decision /\ m.mark = l.mark
    BY <2>1 DEF Proc
  <2>3. l.req \in RequestIds
    BY <2>1 DEF LocalInv, ControlOK, Proc
  <2>4. requests'[l.req].execution # "not_run"
    <3>1. PICK e \in {"succeeded", "failed"} :
            requests' = [requests EXCEPT ![l.req] = [requests[l.req] EXCEPT !.execution = e]]
      BY <1>5 DEF RecordAgentActionRequestExecution, WriteReceipt
    <3>2. requests'[l.req] = [requests[l.req] EXCEPT !.execution = e]
      BY <2>3, <3>1 DEF TypeOK
    <3>3. requests[l.req] \in Request
      BY <2>3 DEF TypeOK
    <3> QED
      BY <3>2, <3>3 DEF Request
  <2> QED
    BY <1>0, <2>1, <2>2, <2>4 DEF LocalInv, ControlOK, RowKnown, RunEarned, CopyBacked
<1>6. CASE ReadPlan(p)
  <2>0. l.pc = "read_plan"
    BY <1>6 DEF ReadPlan
  <2>1. CASE m = AfterPlanStep(l)
    BY <1>0, <2>0, <2>1, AfterPlanStepLocal
  <2>2. CASE m # AfterPlanStep(l)
    <3> DEFINE steps == plans[l.plan].steps
    <3>1. m = [l EXCEPT !.pc = "write_plan", !.steps = MarkFirst(steps, l.type, l.mark)]
          /\ l.plan # NoPlan
      BY <1>6, <2>2 DEF ReadPlan, TypeOK
    <3>2. m.pc = "write_plan" /\ m.req = l.req /\ m.type = l.type /\ m.plan = l.plan
          /\ m.decision = l.decision /\ m.mark = l.mark
          /\ m.steps = MarkFirst(steps, l.type, l.mark)
      BY <3>1 DEF Proc
    <3>3. l.plan \in PlanIds /\ l.req \in RequestIds /\ l.mark \in StepStatus
      BY <2>0, <3>1 DEF Proc, LocalInv, ControlOK
    <3>4. CopyBacked(m)'
      <4>1. SUFFICES ASSUME NEW i \in DOMAIN m.steps
                     PROVE  StepBacked(m.plan, m.steps[i])'
        BY DEF CopyBacked
      <4>2. steps \in Seq(Step)
        BY <3>3 DEF TypeOK, Plan
      <4>3. i \in DOMAIN steps /\ steps[i] \in Step
        BY <3>2, <4>2 DEF MarkFirst
      <4>4. StepBacked(l.plan, steps[i])
        BY <3>3, <4>3 DEF StepsEarned
      <4>5. CASE m.steps[i] = steps[i]
        <5>1. m.steps[i] \in Step /\ StepBacked(l.plan, m.steps[i])
          BY <4>3, <4>4, <4>5
        <5> QED
          BY <3>2, <3>3, <5>1, BackedStays
      <4>6. CASE m.steps[i] # steps[i]
        <5>1. m.steps[i] = [steps[i] EXCEPT !.status = l.mark] /\ steps[i].type = l.type
          BY <3>2, <4>3, <4>6, ZenonT(40) DEF MarkFirst, Markable
        <5>2. m.steps[i].type = l.type /\ m.steps[i].status = l.mark
          BY <4>3, <5>1 DEF Step
        <5>3. RowKnown(l)' /\ RunEarned(l)' /\ ControlOK(l) /\ l.req # NoRequest
          BY <1>0, <3>3 DEF LocalInv, RequestIds, NoRequest
        <5> QED
          BY <2>0, <3>2, <3>3, <5>2, <5>3 DEF RowKnown, RunEarned, ControlOK, StepBacked
      <4> QED
        BY <4>5, <4>6
    <3> QED
      BY <1>0, <2>0, <3>1, <3>2, <3>4 DEF LocalInv, ControlOK, RowKnown, RunEarned
  <2> QED
    BY <2>1, <2>2
<1>7. CASE WritePlan(p)
  <2>1. m = AfterPlanStep(l) /\ l.pc = "write_plan"
    BY <1>7 DEF WritePlan, TypeOK
  <2> QED
    BY <1>0, <2>1, AfterPlanStepLocal
<1>8. CASE ObserverDone(p)
  <2>1. m = [l EXCEPT !.pc = "set_status"] /\ l.pc = "observe"
    BY <1>8 DEF ObserverDone, TypeOK
  <2>2. m.pc = "set_status" /\ m.req = l.req /\ m.type = l.type /\ m.plan = l.plan
        /\ m.decision = l.decision /\ m.mark = l.mark
    BY <2>1 DEF Proc
  <2> QED
    BY <1>0, <2>1, <2>2 DEF LocalInv, ControlOK, RowKnown, RunEarned, CopyBacked
<1>9. CASE UpdateAgentActionRequestStatus(p)
  BY <1>9, IdleLocal DEF UpdateAgentActionRequestStatus, TypeOK
<1> QED
  BY <1>1, <1>2, <1>3, <1>4, <1>5, <1>6, <1>7, <1>8, <1>9 DEF Serve

\* What a handler knows after each of its error paths.
LEMMA FailLocal ==
    ASSUME TypeOK, TypeOK', AbsentRows, Grows, NEW p \in Procs,
           NEW l \in Proc, l = procs[p], LocalInv(l), Fail(p),
           NEW m \in Proc, m = procs'[p]
    PROVE  LocalInv(m)'
<1>0. LocalInv(l)'
  BY LocalStays
<1>1. CASE m = Idle
  BY <1>1, IdleLocal
<1>2. CASE m # Idle /\ (InsertFails(p) \/ ToolFails(p))
  <2>1. l.pc \in {"insert", "execute"} /\ l.req # NoRequest
    BY <1>2 DEF InsertFails, ToolFails, LocalInv, ControlOK, TypeOK
  <2>2. m.pc = "receipt" /\ m.req = l.req /\ m.type = l.type /\ m.plan = l.plan
        /\ m.decision = l.decision /\ m.mark = "failed"
    <3>1. \/ m = [l EXCEPT !.pc = "receipt", !.mark = "failed", !.todo = <<>>]
          \/ m = [l EXCEPT !.pc = "receipt", !.mark = "failed"]
      BY <1>2 DEF InsertFails, ToolFails, TypeOK
    <3> QED
      BY <3>1, ZenonT(40) DEF Proc
  <2> QED
    BY <1>0, <2>1, <2>2 DEF LocalInv, ControlOK, RowKnown, RunEarned, CopyBacked
<1>3. CASE m # Idle /\ ReceiptFails(p)
  <2>1. l.pc = "receipt" /\ l.mark # "done" /\ m = [l EXCEPT !.pc = "read_plan"]
    BY <1>3 DEF ReceiptFails, TypeOK
  <2>2. m.pc = "read_plan" /\ m.req = l.req /\ m.type = l.type /\ m.plan = l.plan
        /\ m.decision = l.decision /\ m.mark = l.mark
    BY <2>1 DEF Proc
  <2> QED
    BY <1>0, <2>1, <2>2 DEF LocalInv, ControlOK, RowKnown, RunEarned, CopyBacked
<1>4. CASE m # Idle /\ ObserverFails(p)
  <2>1. l.pc = "observe" /\ m = [l EXCEPT !.pc = "set_status", !.todo = <<>>]
    BY <1>4 DEF ObserverFails, TypeOK
  <2>2. m.pc = "set_status" /\ m.req = l.req /\ m.type = l.type /\ m.plan = l.plan
        /\ m.decision = l.decision /\ m.mark = l.mark
    BY <2>1 DEF Proc
  <2> QED
    BY <1>0, <2>1, <2>2 DEF LocalInv, ControlOK, RowKnown, RunEarned, CopyBacked
<1>5. CASE PlanStepFails(p) \/ StatusFails(p)
  BY <1>1, <1>5 DEF PlanStepFails, StatusFails, TypeOK
<1> QED
  BY <1>1, <1>2, <1>3, <1>4, <1>5 DEF Fail

\* The strengthened invariant is inductive.
LEMMA IInvNext == IInv /\ [Next]_vars => IInv'
<1> SUFFICES ASSUME IInv, [Next]_vars PROVE IInv'
  OBVIOUS
<1>1. TypeOK /\ AbsentRows /\ ReceiptEarned /\ StepsEarned
      /\ \A p \in Procs : LocalInv(procs[p])
  BY DEF IInv
<1>2. TypeOK' /\ Grows
  BY <1>1, NextType, RowsGrow
<1>3. ReceiptEarned' /\ AbsentRows' /\ StepsEarned'
  BY <1>1, <1>2, ReceiptEarnedStep, StepsEarnedStep
<1>4. ASSUME NEW o \in Procs, NEW m \in Proc, m = procs'[o]
      PROVE  LocalInv(m)'
  <2>0. procs[o] \in Proc
    BY <1>1 DEF TypeOK
  <2>1. ASSUME procs'[o] = procs[o] PROVE LocalInv(m)'
    BY <1>1, <1>2, <1>4, <2>0, <2>1, LocalStays
  <2>2. ASSUME NEW p \in Procs, Serve(p) \/ Fail(p) \/ Accept(p)
        PROVE  LocalInv(m)'
    <3>1. CASE o # p
      BY <1>1, <2>1, <2>2, <3>1, OthersStay
    <3>2. CASE o = p
      BY <1>1, <1>2, <1>4, <2>0, <2>2, <3>2, ServeLocal, FailLocal, AcceptLocal
    <3> QED
      BY <3>1, <3>2
  <2>3. CASE Crash
    BY <1>4, <2>3, IdleLocal DEF Crash
  <2>4. CASE UNCHANGED vars
    BY <2>1, <2>4 DEF vars
  <2> QED
    BY <2>2, <2>3, <2>4 DEF Next
<1>5. \A o \in Procs : LocalInv(procs[o])'
  <2>1. \A o \in Procs : procs'[o] \in Proc
    BY <1>2 DEF TypeOK
  <2> QED
    BY <1>4, <2>1 DEF LocalInv, ControlOK, RowKnown, RunEarned, CopyBacked, StepBacked
<1> QED
  BY <1>2, <1>3, <1>5 DEF IInv

\* The inductive invariant holds of the empty tables.
LEMMA IInvInit == Init => IInv
<1> SUFFICES ASSUME Init PROVE IInv
  OBVIOUS
<1>1. TypeOK
  BY InitType
<1>2. AbsentRows /\ ReceiptEarned
  BY DEF Init, AbsentRows, ReceiptEarned, AbsentRequest, NoPlan
<1>3. StepsEarned
  BY DEF Init, StepsEarned, AbsentPlan
<1>4. \A p \in Procs : LocalInv(procs[p])
  BY IdleLocal DEF Init
<1> QED
  BY <1>1, <1>2, <1>3, <1>4 DEF IInv

\* However handlers of the same row overlap, fail or are cut off by a restart, a
\* receipt that says "succeeded" and a status "approved" mean that the tool ran.
THEOREM ReceiptsAreEarned == Spec => []ReceiptEarned
<1>1. IInv => ReceiptEarned
  BY DEF IInv
<1> QED
  BY <1>1, IInvInit, IInvNext, PTL DEF Spec

\* Whatever handlers, failures and lost updates do to a plan, each of its steps
\* that is no longer pending is backed by a decision and, if done, by a run.
THEOREM StepsAreEarned == Spec => []StepsEarned
<1>1. IInv => StepsEarned
  BY DEF IInv
<1> QED
  BY <1>1, IInvInit, IInvNext, PTL DEF Spec
-----------------------------------------------------------------------------
(* Proposals made while an action is served lead away from it.             *)

\* How many further rounds of proposals an action may lead to.
Rank(type) ==
    IF type = "generate_daily_plan" THEN 3
    ELSE IF type \in CrawlTools THEN 2
    ELSE IF type \in {"discover_sources", "refresh_tasks", "rebuild_semantic_memory"} THEN 1
    ELSE 0

\* A row that serving a request adds ranks below the request: the plan tool and
\* the observer never propose what they answer, nor anything that leads to it.
ProposalsDescend ==
    \A p \in Procs, r \in RequestIds :
        /\ procs[p].req # NoRequest /\ procs'[p] # procs[p]
        /\ requests[r].status = "absent" /\ requests'[r].status # "absent"
        => Rank(requests'[r].type) < Rank(requests[procs[p].req].type)

Below(todo, type) == \A k \in DOMAIN todo : Rank(todo[k]) < Rank(type)
TodoBelow(l) ==
    l.req # NoRequest /\ l.pc \in {"insert", "observe"} => Below(l.todo, l.type)
RankInv == IInv /\ \A p \in Procs : TodoBelow(procs[p])

\* What the observer proposes ranks below what it has observed.
LEMMA ReplanBelow ==
    ASSUME NEW t, NEW c
    PROVE  Below(BuildObserverReplanActions(t, c), t)
<1>1. /\ DOMAIN <<"discover_sources", "validate_source_candidates">> = {1, 2}
      /\ DOMAIN <<"review_strong_matches", "sync_application_plans">> = {1, 2}
      /\ DOMAIN <<"validate_source_candidates">> = {1} /\ DOMAIN <<"send_feishu_report">> = {1}
      /\ DOMAIN <<"review_strong_matches">> = {1} /\ DOMAIN <<>> = {}
  OBVIOUS
<1>2. CASE t \in CrawlTools
  <2>1. Rank(t) = 2
    BY <1>2 DEF Rank, CrawlTools
  <2>2. /\ Rank("discover_sources") = 1 /\ Rank("validate_source_candidates") = 0
        /\ Rank("review_strong_matches") = 0 /\ Rank("sync_application_plans") = 0
    BY DEF Rank, CrawlTools
  <2>3. Below(<<"discover_sources", "validate_source_candidates">>, t)
    BY <1>1, <2>1, <2>2 DEF Below
  <2>4. Below(<<"review_strong_matches", "sync_application_plans">>, t)
    BY <1>1, <2>1, <2>2 DEF Below
  <2> QED
    BY <1>2, <2>3, <2>4 DEF BuildObserverReplanActions, CrawlTools
<1>3. CASE t \in {"discover_sources", "refresh_tasks", "rebuild_semantic_memory"}
  <2>1. Rank(t) = 1 /\ t \notin CrawlTools
    BY <1>3 DEF Rank, CrawlTools
  <2>2. /\ Rank("validate_source_candidates") = 0 /\ Rank("review_strong_matches") = 0
        /\ Rank("send_feishu_report") = 0
    BY DEF Rank, CrawlTools
  <2>3. /\ Below(<<"validate_source_candidates">>, t) /\ Below(<<"send_feishu_report">>, t)
        /\ Below(<<"review_strong_matches">>, t)
    BY <1>1, <2>1, <2>2 DEF Below
  <2> QED
    BY <1>3, <2>1, <2>3 DEF BuildObserverReplanActions
<1>4. CASE t \notin CrawlTools \cup {"discover_sources", "refresh_tasks", "rebuild_semantic_memory"}
  <2>1. BuildObserverReplanActions(t, c) = <<>>
    BY <1>4 DEF BuildObserverReplanActions
  <2> QED
    BY <1>1, <2>1 DEF Below
<1> QED
  BY <1>2, <1>3, <1>4

\* A plan that generate_daily_plan makes holds nothing of its own rank.
LEMMA ReviewBelow ==
    ASSUME NEW t \in ReviewTemplates
    PROVE  Below(t, "generate_daily_plan")
<1>1. \A a \in ReviewActionTypes : Rank(a) \in {0, 1, 2}
  BY DEF ReviewActionTypes, Rank, CrawlTools
<1>2. Rank("generate_daily_plan") = 3
  BY DEF Rank
<1>3. \A k \in DOMAIN t : t[k] \in ReviewActionTypes
  BY DEF ReviewTemplates
<1> QED
  BY <1>1, <1>2, <1>3 DEF Below

\* The list without its head ranks no higher.
LEMMA TailBelow ==
    ASSUME NEW s \in Seq(ActionTypes), s # <<>>, NEW t, Below(s, t)
    PROVE  Below(Tail(s), t) /\ Rank(Head(s)) < Rank(t)
<1>1. DOMAIN s = 1..Len(s) /\ Len(s) \in Nat /\ Len(s) # 0 /\ DOMAIN Tail(s) = 1..(Len(s) - 1)
  OBVIOUS
<1>2. Head(s) = s[1] /\ 1 \in DOMAIN s
  BY <1>1
<1>3. ASSUME NEW k \in DOMAIN Tail(s) PROVE Tail(s)[k] = s[k + 1] /\ k + 1 \in DOMAIN s
  BY <1>1, <1>3
<1> QED
  BY <1>2, <1>3 DEF Below

\* What every step keeps of the actions a handler is to propose.
LEMMA RankNext ==
    ASSUME RankInv, [Next]_vars
    PROVE  RankInv'
<1>0. TypeOK /\ IInv /\ IInv' /\ procs \in [Procs -> Proc]
  BY IInvNext DEF RankInv, IInv, TypeOK
<1>1. TodoBelow(Idle)
  BY DEF TodoBelow, Idle
<1>2. ASSUME NEW p \in Procs, Serve(p) \/ Fail(p) \/ Accept(p), NEW l, l = procs[p], NEW m, m = procs'[p]
      PROVE  TodoBelow(m)
  <2>1. l \in Proc /\ ControlOK(l) /\ TodoBelow(l)
    BY <1>0, <1>2 DEF RankInv, IInv, LocalInv
  <2>2. ASSUME m.pc \notin {"insert", "observe"} PROVE TodoBelow(m)
    BY <2>2 DEF TodoBelow
  <2>3. ASSUME NEW c, m = [l EXCEPT !.pc = c] \/ m = [l EXCEPT !.pc = c, !.todo = <<>>],
               c \notin {"insert", "observe"}
        PROVE  TodoBelow(m)
    BY <2>1, <2>2, <2>3 DEF Proc
  <2>4. ASSUME l.pc = "idle", NEW q \in PlanIds, NEW t \in PlanTemplates, InsertPlan(p, q, t)
        PROVE  TodoBelow(m)
    <3>1. m = [l EXCEPT !.pc = "insert", !.into = q, !.todo = t]
      BY <1>0, <1>2, <2>4 DEF InsertPlan
    <3>2. m.req = NoRequest
      BY <2>1, <2>4, <3>1 DEF Proc, ControlOK
    <3> QED
      BY <3>2 DEF TodoBelow
  <2>5. CASE CreatePlan(p)
    BY <1>2, <2>4, <2>5 DEF CreatePlan
  <2>6. CASE CycleProposes(p)
    <3>1. PICK t \in PlanTemplates : m = [Idle EXCEPT !.pc = "insert", !.todo = t]
      BY <1>0, <1>2, <2>6 DEF CycleProposes
    <3>2. m.req = NoRequest
      BY <3>1 DEF Idle
    <3> QED
      BY <3>2 DEF TodoBelow
  <2>7. ASSUME NEW r \in RequestIds, NEW d \in Decisions, ReceivePatch(p, r, d) PROVE TodoBelow(m)
    <3>1. m.pc = CASE d = "approved" -> "execute" [] d = "dismissed" -> "read_plan"
                   [] d = "pending" -> "set_status"
      BY <1>0, <1>2, <2>7 DEF ReceivePatch, Idle
    <3>2. d \in {"pending", "approved", "dismissed"}
      BY DEF Decision
    <3> QED
      BY <2>2, <3>1, <3>2
  <2>8. CASE InsertRequest(p) \/ ObserverProposes(p)
    <3>1. m = [l EXCEPT !.todo = Tail(l.todo)] /\ l.todo # <<>>
      BY <1>0, <1>2, <2>8 DEF InsertRequest, ObserverProposes, InsertRow
    <3>2. m.pc = l.pc /\ m.req = l.req /\ m.type = l.type /\ m.todo = Tail(l.todo)
          /\ l.todo \in Seq(ActionTypes)
      BY <2>1, <3>1 DEF Proc
    <3> QED
      BY <2>1, <3>1, <3>2, TailBelow DEF TodoBelow
  <2>9. CASE RunPlanTool(p)
    <3>1. PICK q \in PlanIds, t \in ReviewTemplates : InsertPlan(p, q, t)
      BY <2>9 DEF RunPlanTool
    <3>2. m = [l EXCEPT !.pc = "insert", !.into = q, !.todo = t]
      BY <1>0, <1>2, <3>1 DEF InsertPlan
    <3>3. m.todo = t /\ m.type = "generate_daily_plan"
      BY <1>2, <2>1, <2>9, <3>2 DEF RunPlanTool, Proc
    <3> QED
      BY <3>3, ReviewBelow DEF TodoBelow
  <2>10. CASE ReadPlan(p) \/ WritePlan(p)
    <3>1. \/ m = AfterPlanStep(l)
          \/ \E new : m = [l EXCEPT !.pc = "write_plan", !.steps = new]
      BY <1>0, <1>2, <2>10 DEF ReadPlan, WritePlan
    <3>2. CASE m = AfterPlanStep(l)
      <4>1. PICK todo : todo = BuildObserverReplanActions(l.type, l.count)
        OBVIOUS
      <4>2. CASE m = [l EXCEPT !.pc = "observe", !.into = NoPlan, !.todo = todo]
        <5>1. m.todo = todo /\ m.type = l.type
          BY <2>1, <4>2 DEF Proc
        <5>2. Below(todo, l.type)
          BY <4>1, ReplanBelow
        <5> QED
          BY <5>1, <5>2 DEF TodoBelow
      <4>3. \/ m = [l EXCEPT !.pc = "observe", !.into = NoPlan, !.todo = todo]
            \/ m = [l EXCEPT !.pc = "set_status"] \/ m = Idle
        BY <3>2, <4>1 DEF AfterPlanStep
      <4> QED
        BY <1>1, <2>3, <4>2, <4>3
    <3>3. ASSUME NEW new, m = [l EXCEPT !.pc = "write_plan", !.steps = new] PROVE TodoBelow(m)
      <4>1. m.pc = "write_plan"
        BY <2>1, <3>3 DEF Proc
      <4> QED
        BY <2>2, <4>1
    <3> QED
      BY <3>1, <3>2, <3>3
  <2>11. CASE ToolSucceeds(p) \/ PlanToolDone(p) \/ ToolFails(p)
    <3>1. \/ \E mark : m = [l EXCEPT !.pc = "receipt", !.mark = mark]
          \/ \E c \in CrawlCounts : m = [l EXCEPT !.pc = "receipt", !.mark = "done", !.count = c]
      BY <1>0, <1>2, <2>11 DEF ToolSucceeds, PlanToolDone, ToolFails
    <3>2. m.pc = "receipt"
      BY <2>1, <3>1 DEF Proc
    <3> QED
      BY <2>2, <3>2
  <2>12. CASE InsertFails(p)
    <3>1. m = Idle \/ m = [l EXCEPT !.pc = "receipt", !.mark = "failed", !.todo = <<>>]
      BY <1>0, <1>2, <2>12 DEF InsertFails
    <3>2. m = Idle \/ m.pc = "receipt"
      BY <2>1, <3>1 DEF Proc
    <3> QED
      BY <1>1, <2>2, <3>2
  <2>13. CASE \/ ProposalDone(p) \/ UpdateAgentActionRequestStatus(p) \/ StatusFails(p)
              \/ PlanStepFails(p) \/ RecordAgentActionRequestExecution(p) \/ ReceiptFails(p)
              \/ ObserverDone(p) \/ ObserverFails(p)
    <3>1. \/ m = Idle \/ m = [l EXCEPT !.pc = "read_plan"] \/ m = [l EXCEPT !.pc = "set_status"]
          \/ m = [l EXCEPT !.pc = "set_status", !.todo = <<>>]
      BY <1>0, <1>2, <2>13 DEF ProposalDone, UpdateAgentActionRequestStatus, StatusFails,
        PlanStepFails, RecordAgentActionRequestExecution, ReceiptFails, ObserverDone, ObserverFails
    <3> QED
      BY <1>1, <2>3, <3>1, ZenonT(40)
  <2> QED
    BY <1>2, <2>5, <2>6, <2>7, <2>8, <2>9, <2>10, <2>11, <2>12, <2>13 DEF Serve, Fail, Accept
<1>3. ASSUME NEW o \in Procs, NEW m, m = procs'[o] PROVE TodoBelow(m)
  <2>1. CASE procs'[o] = procs[o]
    BY <1>3, <2>1 DEF RankInv
  <2>2. ASSUME NEW p \in Procs, Serve(p) \/ Fail(p) \/ Accept(p) PROVE TodoBelow(m)
    <3>1. CASE o = p
      BY <1>2, <1>3, <2>2, <3>1
    <3>2. CASE o # p
      BY <1>0, <2>1, <2>2, <3>2, OthersStay DEF IInv
    <3> QED
      BY <3>1, <3>2
  <2>3. CASE Crash
    BY <1>1, <1>3, <2>3 DEF Crash
  <2>4. CASE UNCHANGED vars
    BY <2>1, <2>4 DEF vars
  <2> QED
    BY <2>2, <2>3, <2>4 DEF Next
<1> QED
  BY <1>0, <1>3 DEF RankInv, TodoBelow, Below

\* Proposals do not feed each other: whatever is approved, in whatever order and
\* by however many handlers, each row added by serving an action has a lower
\* rank than that action, so a chain of follow-ups is at most four actions long.
THEOREM FollowUpsDescend == Spec => [][ProposalsDescend]_vars
<1>1. Init => RankInv
  <2>1. Init => \A p \in Procs : TodoBelow(procs[p])
    BY DEF Init, TodoBelow, Idle
  <2> QED
    BY <2>1, IInvInit DEF RankInv
<1>2. RankInv /\ [Next]_vars => [ProposalsDescend]_vars
  <2> SUFFICES ASSUME RankInv, [Next]_vars, NEW p \in Procs, NEW r \in RequestIds,
                      procs[p].req # NoRequest, procs'[p] # procs[p],
                      requests[r].status = "absent", requests'[r].status # "absent"
               PROVE  Rank(requests'[r].type) < Rank(requests[procs[p].req].type)
    BY DEF ProposalsDescend
  <2>1. TypeOK /\ requests \in [RequestIds -> Request] /\ requests[r] \in Request
        /\ procs[p] \in Proc /\ LocalInv(procs[p])
    BY DEF RankInv, IInv, TypeOK
  <2>2. ASSUME NEW o \in Procs, WriteReceipt(o) PROVE FALSE
    <3>1. PICK e : requests' = [requests EXCEPT ![procs[o].req].execution = e]
      BY <2>2 DEF WriteReceipt
    <3>2. requests'[r] = requests[r] \/ requests'[r] = [requests[r] EXCEPT !.execution = e]
      BY <2>1, <3>1
    <3> QED
      BY <2>1, <3>2 DEF Request
  <2>3. ASSUME NEW o \in Procs, SetStatus(o) PROVE FALSE
    <3>1. r = procs[o].req
      BY <2>1, <2>3 DEF SetStatus
    <3>2. procs[o].req # NoRequest /\ requests[procs[o].req].status # "absent"
      BY <2>3 DEF SetStatus, RankInv, IInv, LocalInv, ControlOK, RowKnown
    <3> QED
      BY <3>1, <3>2
  <2>4. PICK o \in Procs, x \in RequestIds : procs[o].pc \in {"insert", "observe"} /\ InsertRow(o, x)
    BY <2>2, <2>3, RequestWrites
  <2>5. x = r /\ o = p
    BY <2>1, <2>4 DEF InsertRow, TypeOK
  <2>6. PICK l : l = procs[p]
    OBVIOUS
  <2>7. l.todo \in Seq(ActionTypes) /\ l.todo # <<>> /\ requests'[r].type = Head(l.todo)
    BY <2>1, <2>4, <2>5, <2>6 DEF InsertRow, Proc
  <2>8. Below(l.todo, l.type)
    BY <2>4, <2>5, <2>6 DEF RankInv, TodoBelow
  <2>9. requests[l.req].type = l.type
    BY <2>1, <2>6 DEF LocalInv, RowKnown
  <2> QED
    BY <2>6, <2>7, <2>8, <2>9, TailBelow
<1> QED
  BY <1>1, <1>2, RankNext, PTL DEF Spec

=============================================================================
