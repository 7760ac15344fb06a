--------------------------- MODULE ActionApproval ---------------------------
(***************************************************************************)
(* The human approval gate: suggested actions (rows of                     *)
(* agent_action_requests), the work plans they belong to (rows of          *)
(* agent_plans, whose steps are one JSON column), the tool executor behind *)
(* PATCH /agent/actions/:id and the observer that proposes follow-up       *)
(* actions from an execution receipt.                                      *)
(*                                                                         *)
(* A process is one goroutine of the HTTP server serving one request. This *)
(* code opens no SQL transaction: each statement is atomic by itself and   *)
(* two handlers interleave between any two statements.                     *)
(***************************************************************************)
EXTENDS Naturals, Sequences, FiniteSets

CONSTANTS
    Procs,          \* goroutines serving requests at the same time
    MaxRequests,    \* bound: rows of agent_action_requests
    MaxPlans,       \* bound: rows of agent_plans
    MaxPatches,     \* bound: PATCHes sent for one row
    MaxRepeats,     \* bound: PATCHes of one decision sent for one row
    MaxProposals,   \* bound: proposals made by chats, reviews and cycles
    Decisions,      \* the decisions the users of this instance send
    PlanTemplates,  \* action lists a chat reply, a review or a cycle proposes
    CrawlCounts,    \* <<jobs created, duplicates found>> a crawl may report
    Faults          \* which failures happen: subset of FaultKinds

FaultKinds == {"db", "tool", "crash"}
RequestIds == 1..MaxRequests
PlanIds == 1..MaxPlans
NoRequest == 0
NoPlan == 0   \* plan_id of a request that belongs to no plan

CrawlTools == {"run_crawl", "add_recommended_and_crawl"}
ActionTypes == CrawlTools \cup
    {"refresh_tasks", "sync_application_plans", "send_feishu_report",
     "discover_sources", "generate_daily_plan", "inspect_source_health",
     "validate_source_candidates", "review_parser_gaps",
     "rebuild_semantic_memory", "review_strong_matches", "review_manual_check"}

\* What a review proposes; it names an action at most once.
ReviewActionTypes == CrawlTools \cup
    {"refresh_tasks", "discover_sources", "review_strong_matches", "review_manual_check"}
ReviewTemplates == {t \in PlanTemplates :
    /\ \A i \in DOMAIN t : t[i] \in ReviewActionTypes
    /\ \A i, j \in DOMAIN t : t[i] = t[j] => i = j}

Decision == {"pending", "approved", "dismissed"}
Execution == {"not_run", "succeeded", "failed"}
StepStatus == {"pending", "done", "failed", "skipped"}
PlanStatus == {"draft", "waiting_approval", "done", "failed"}

ASSUME ApprovalAssumption ==
    /\ MaxRequests \in Nat /\ MaxPlans \in Nat
    /\ MaxPatches \in Nat /\ MaxRepeats \in Nat /\ MaxProposals \in Nat
    /\ Decisions \subseteq Decision
    /\ PlanTemplates \subseteq Seq(ActionTypes) \ {<<>>}
    /\ CrawlCounts \subseteq Nat \X Nat /\ CrawlCounts # {}
    /\ Faults \subseteq FaultKinds

\* The counting behind the approval gate needs no more than this.
ASSUME ProcsAssumption == IsFiniteSet(Procs)

VARIABLES
    requests,  \* agent_action_requests; a row not inserted yet is "absent"
    plans,     \* agent_plans; a row not inserted yet is "absent"
    procs,     \* the goroutines' local state
    runs,      \* history: tool runs that returned success, per request
    patches,   \* history: PATCHes accepted, per request and decision
    proposals  \* history: how many proposals were made

vars == <<requests, plans, procs, runs, patches, proposals>>

Request == [plan : PlanIds \cup {NoPlan}, type : ActionTypes \cup {"none"},
            status : Decision \cup {"absent"}, execution : Execution]
Step == [type : ActionTypes, status : StepStatus]
Plan == [steps : Seq(Step), status : PlanStatus \cup {"absent"}, completed : BOOLEAN]
Proc ==
    [pc : {"idle", "execute", "insert", "receipt", "read_plan", "write_plan",
           "observe", "set_status"},
     req : RequestIds \cup {NoRequest},  \* the row this PATCH is about
     decision : Decision,                \* the status the PATCH asks for
     type : ActionTypes \cup {"none"},   \* its action_type, as read
     plan : PlanIds \cup {NoPlan},       \* its plan_id, as read
     mark : StepStatus,                  \* what the plan step is to become
     count : CrawlCounts,                \* what the receipt's message reports
     steps : Seq(Step),                  \* the plan's steps to write back
     into : PlanIds \cup {NoPlan},       \* plan_id of the rows being inserted
     todo : Seq(ActionTypes)]            \* actions whose row is still to insert

AbsentRequest ==
    [plan |-> NoPlan, type |-> "none", status |-> "absent", execution |-> "not_run"]
AbsentPlan == [steps |-> <<>>, status |-> "absent", completed |-> FALSE]
Idle ==
    [pc |-> "idle", req |-> NoRequest, decision |-> "pending", type |-> "none",
     plan |-> NoPlan, mark |-> "pending", count |-> CHOOSE c \in CrawlCounts : TRUE,
     steps |-> <<>>, into |-> NoPlan, todo |-> <<>>]

Init ==
    /\ requests = [r \in RequestIds |-> AbsentRequest]
    /\ plans = [q \in PlanIds |-> AbsentPlan]
    /\ procs = [p \in Procs |-> Idle]
    /\ runs = [r \in RequestIds |-> 0]
    /\ patches = [r \in RequestIds |-> [d \in Decision |-> 0]]
    /\ proposals = 0

-----------------------------------------------------------------------------
(* Pure functions of the code.                                             *)

\* The AUTOINCREMENT id the next INSERT gets: rows are never deleted.
FreshRequest(r) ==
    /\ requests[r].status = "absent"
    /\ \A s \in RequestIds : s < r => requests[s].status # "absent"
FreshPlan(q) ==
    /\ plans[q].status = "absent"
    /\ \A s \in PlanIds : s < q => plans[s].status # "absent"

\* Mutant: a skipped step does not count as settled.
DeriveIgnoringSkipped(steps) ==
    IF DOMAIN steps = {} THEN "draft"
    ELSE IF \E i \in DOMAIN steps : steps[i].status = "failed" THEN "failed"
    ELSE IF \A i \in DOMAIN steps : steps[i].status = "done" THEN "done"
    ELSE "waiting_approval"

deriveAgentPlanStatus(steps) ==
    IF DOMAIN steps = {} THEN "draft"
    ELSE IF \E i \in DOMAIN steps : steps[i].status = "failed" THEN "failed"
    ELSE IF \A i \in DOMAIN steps : steps[i].status \in {"done", "skipped"} THEN "done"
    ELSE "waiting_approval"

\* Mutant: any open step is taken.
MarkableAnyType(steps, type) == {i \in DOMAIN steps : steps[i].status # "done"}

\* The steps RecordAgentPlanStepExecution may mark: they are matched by their
\* action type, not by the request that was decided.
Markable(steps, type) ==
    {i \in DOMAIN steps : steps[i].type = type /\ steps[i].status # "done"}

MarkFirst(steps, type, mark) ==
    LET M == Markable(steps, type)
    IN  [i \in DOMAIN steps |->
            IF i \in M /\ \A j \in M : i <= j
            THEN [steps[i] EXCEPT !.status = mark]
            ELSE steps[i]]

\* strings.Contains(message, "created 0" | "0 jobs" | "found 0") on the
\* receipts "Created c jobs, found d duplicates, ..." of run_crawl and
\* "... created c jobs, ..." of add_recommended_and_crawl.
LooksEmpty(type, count) ==
    \/ count[1] % 10 = 0
    \/ type = "run_crawl" /\ count[2] = 0

\* Mutant: validating candidates proposes to discover more.
ReplanForEver(type, count) ==
    IF type \in CrawlTools \cup {"validate_source_candidates"} THEN <<"discover_sources">>
    ELSE <<"validate_source_candidates">>

BuildObserverReplanActions(type, count) ==
    CASE type \in CrawlTools /\ LooksEmpty(type, count) ->
            <<"discover_sources", "validate_source_candidates">>
      [] type \in CrawlTools /\ ~LooksEmpty(type, count) ->
            <<"review_strong_matches", "sync_application_plans">>
      [] type = "discover_sources" -> <<"validate_source_candidates">>
      [] type = "refresh_tasks" -> <<"send_feishu_report">>
      [] type = "rebuild_semantic_memory" -> <<"review_strong_matches">>
      [] OTHER -> <<>>

\* Mutant: the failure branch falls through instead of answering 409.
AfterPlanStepFallsThrough(l) ==
    IF l.mark = "done" THEN [l EXCEPT !.pc = "observe"]
    ELSE [l EXCEPT !.pc = "set_status"]

\* Where the handler goes once the linked plan step is dealt with.
AfterPlanStep(l) ==
    IF l.mark = "done"
    THEN [l EXCEPT !.pc = "observe", !.into = NoPlan,
                   !.todo = BuildObserverReplanActions(l.type, l.count)]
    ELSE IF l.mark = "skipped" THEN [l EXCEPT !.pc = "set_status"]
    ELSE Idle   \* 409: the request stays as it is

-----------------------------------------------------------------------------
(* Proposals: a chat reply or a review becomes a plan row and then one     *)
(* request row per action; a multi-agent cycle becomes request rows only.  *)

InsertPlan(p, q, template) ==
    /\ FreshPlan(q)
    /\ plans' = [plans EXCEPT ![q] =
            [steps |-> [i \in DOMAIN template |->
                            [type |-> template[i], status |-> "pending"]],
             status |-> "waiting_approval", completed |-> FALSE]]
    /\ procs' = [procs EXCEPT ![p] =
            [@ EXCEPT !.pc = "insert", !.into = q, !.todo = template]]
    /\ UNCHANGED <<requests, runs, patches>>

CreatePlan(p) ==
    /\ procs[p].pc = "idle" /\ proposals < MaxProposals
    /\ \E q \in PlanIds, t \in PlanTemplates : InsertPlan(p, q, t)
    /\ proposals' = proposals + 1

CycleProposes(p) ==
    /\ procs[p].pc = "idle" /\ proposals < MaxProposals
    /\ \E t \in PlanTemplates : procs' = [procs EXCEPT ![p] =
            [Idle EXCEPT !.pc = "insert", !.todo = t]]
    /\ proposals' = proposals + 1
    /\ UNCHANGED <<requests, plans, runs, patches>>

InsertRow(p, r) ==
    /\ procs[p].todo # <<>>
    /\ FreshRequest(r)
    /\ requests' = [requests EXCEPT ![r] =
            [plan |-> procs[p].into, type |-> Head(procs[p].todo),
             status |-> "pending", execution |-> "not_run"]]
    /\ procs' = [procs EXCEPT ![p] = [@ EXCEPT !.todo = Tail(procs[p].todo)]]
    /\ UNCHANGED <<plans, runs, patches, proposals>>

InsertRequest(p) ==
    /\ procs[p].pc = "insert"
    /\ \E r \in RequestIds : InsertRow(p, r)

\* The last row is in: the proposal is complete, or the tool that generated
\* the daily plan returns success to its executor.
ProposalDone(p) ==
    /\ procs[p].pc = "insert" /\ procs[p].todo = <<>> /\ procs[p].req = NoRequest
    /\ procs' = [procs EXCEPT ![p] = Idle]
    /\ UNCHANGED <<requests, plans, runs, patches, proposals>>

PlanToolDone(p) ==
    /\ procs[p].pc = "insert" /\ procs[p].todo = <<>> /\ procs[p].req # NoRequest
    /\ procs' = [procs EXCEPT ![p] = [@ EXCEPT !.pc = "receipt", !.mark = "done"]]
    /\ runs' = [runs EXCEPT ![procs[p].req] = @ + 1]
    /\ UNCHANGED <<requests, plans, patches, proposals>>

\* An INSERT fails: the plan and the rows already inserted stay.
InsertFails(p) ==
    /\ "db" \in Faults
    /\ procs[p].pc = "insert" /\ procs[p].todo # <<>>
    /\ procs' = [procs EXCEPT ![p] =
            IF @.req = NoRequest THEN Idle
            ELSE [@ EXCEPT !.pc = "receipt", !.mark = "failed", !.todo = <<>>]]
    /\ UNCHANGED <<requests, plans, runs, patches, proposals>>

-----------------------------------------------------------------------------
(* PATCH /agent/actions/:id.  The row's current status is not looked at.   *)

ReceivePatch(p, r, d) ==
    /\ procs[p].pc = "idle"
    /\ requests[r].status # "absent"
    /\ patches[r][d] < MaxRepeats
    /\ patches[r]["pending"] + patches[r]["approved"] + patches[r]["dismissed"] < MaxPatches
    /\ patches' = [patches EXCEPT ![r][d] = @ + 1]
    /\ procs' = [procs EXCEPT ![p] =
            [Idle EXCEPT
                !.pc = CASE d = "approved" -> "execute"
                         [] d = "dismissed" -> "read_plan"
                         [] d = "pending" -> "set_status",
                !.req = r, !.decision = d,
                !.type = requests[r].type, !.plan = requests[r].plan,
                !.mark = IF d = "dismissed" THEN "skipped" ELSE "pending"]]
    /\ UNCHANGED <<requests, plans, runs, proposals>>

\* The executor runs the tool; what the tool does to the rest of the system
\* belongs to the other modules, its receipt to this one.  For
\* generate_daily_plan this is the review without an actionable step.
ToolSucceeds(p) ==
    /\ procs[p].pc = "execute"
    /\ \E c \in CrawlCounts : procs' = [procs EXCEPT ![p] =
            [@ EXCEPT !.pc = "receipt", !.mark = "done", !.count = c]]
    /\ runs' = [runs EXCEPT ![procs[p].req] = @ + 1]
    /\ UNCHANGED <<requests, plans, patches, proposals>>

\* generate_daily_plan turns the current review into a plan of its own.
RunPlanTool(p) ==
    /\ procs[p].pc = "execute" /\ procs[p].type = "generate_daily_plan"
    /\ \E q \in PlanIds, t \in ReviewTemplates : InsertPlan(p, q, t)
    /\ UNCHANGED proposals

ToolFails(p) ==
    /\ "tool" \in Faults
    /\ procs[p].pc = "execute"
    /\ procs' = [procs EXCEPT ![p] = [@ EXCEPT !.pc = "receipt", !.mark = "failed"]]
    /\ UNCHANGED <<requests, plans, runs, patches, proposals>>

WriteReceipt(p) ==
    requests' = [requests EXCEPT ![procs[p].req].execution =
                    IF procs[p].mark = "done" THEN "succeeded" ELSE "failed"]

RecordAgentActionRequestExecution(p) ==
    /\ procs[p].pc = "receipt"
    /\ WriteReceipt(p)
    /\ procs' = [procs EXCEPT ![p] = [@ EXCEPT !.pc = "read_plan"]]
    /\ UNCHANGED <<plans, runs, patches, proposals>>

\* Mutant: a lost receipt makes the handler run the tool again.
ReceiptRetries(p) ==
    /\ "db" \in Faults
    /\ procs[p].pc = "receipt"
    /\ procs' = [procs EXCEPT ![p] = [@ EXCEPT !.pc = "execute"]]
    /\ UNCHANGED <<requests, plans, runs, patches, proposals>>

\* The UPDATE or the SELECT after it fails.  After a success the handler
\* answers 500; after a failure it ignores the error and goes on.
ReceiptFails(p) ==
    /\ "db" \in Faults
    /\ procs[p].pc = "receipt"
    /\ WriteReceipt(p) \/ UNCHANGED requests
    /\ procs' = [procs EXCEPT ![p] =
            IF @.mark = "done" THEN Idle ELSE [@ EXCEPT !.pc = "read_plan"]]
    /\ UNCHANGED <<plans, runs, patches, proposals>>

\* RecordAgentPlanStepExecution, first half: read the plan and mark the step
\* in memory.
ReadPlan(p) ==
    LET l == procs[p]
        nothing == IF l.plan = NoPlan THEN TRUE
                   ELSE Markable(plans[l.plan].steps, l.type) = {}
    IN  /\ l.pc = "read_plan"
        /\ \/ /\ nothing
              /\ procs' = [procs EXCEPT ![p] = AfterPlanStep(l)]
           \/ /\ ~nothing
              /\ procs' = [procs EXCEPT ![p] =
                    [l EXCEPT !.pc = "write_plan",
                              !.steps = MarkFirst(plans[l.plan].steps, l.type, l.mark)]]
        /\ UNCHANGED <<requests, plans, runs, patches, proposals>>

\* Mutant: the plan's status is left for somebody else to write.
UpdateStepsOnly(p) ==
    plans' = [plans EXCEPT ![procs[p].plan].steps = procs[p].steps]

\* ... second half: one UPDATE writes every step, the status and completed_at.
UpdatePlan(p) ==
    LET s == deriveAgentPlanStatus(procs[p].steps)
    IN  plans' = [plans EXCEPT ![procs[p].plan] =
            [steps |-> procs[p].steps, status |-> s, completed |-> s = "done"]]

WritePlan(p) ==
    /\ procs[p].pc = "write_plan"
    /\ UpdatePlan(p)
    /\ procs' = [procs EXCEPT ![p] = AfterPlanStep(@)]
    /\ UNCHANGED <<requests, runs, patches, proposals>>

\* The SELECT, the UPDATE or the SELECT after it fails: the handler returns.
PlanStepFails(p) ==
    /\ "db" \in Faults
    /\ \/ procs[p].pc = "read_plan" /\ procs[p].plan # NoPlan /\ UNCHANGED plans
       \/ procs[p].pc = "write_plan" /\ (UpdatePlan(p) \/ UNCHANGED plans)
    /\ procs' = [procs EXCEPT ![p] = Idle]
    /\ UNCHANGED <<requests, runs, patches, proposals>>

\* recordToolObserverCycle: the replan proposals are rows without a plan.
ObserverProposes(p) ==
    /\ procs[p].pc = "observe"
    /\ \E r \in RequestIds : InsertRow(p, r)

ObserverDone(p) ==
    /\ procs[p].pc = "observe" /\ procs[p].todo = <<>>
    /\ procs' = [procs EXCEPT ![p] = [@ EXCEPT !.pc = "set_status"]]
    /\ UNCHANGED <<requests, plans, runs, patches, proposals>>

\* Recording the cycle or a proposal fails: logged, the handler goes on.
ObserverFails(p) ==
    /\ "db" \in Faults
    /\ procs[p].pc = "observe" /\ procs[p].todo # <<>>
    /\ procs' = [procs EXCEPT ![p] = [@ EXCEPT !.pc = "set_status", !.todo = <<>>]]
    /\ UNCHANGED <<requests, plans, runs, patches, proposals>>

UpdateAgentActionRequestStatus(p) ==
    /\ procs[p].pc = "set_status"
    /\ requests' = [requests EXCEPT ![procs[p].req].status = procs[p].decision]
    /\ procs' = [procs EXCEPT ![p] = Idle]
    /\ UNCHANGED <<plans, runs, patches, proposals>>

StatusFails(p) ==
    /\ "db" \in Faults
    /\ procs[p].pc = "set_status"
    /\ procs' = [procs EXCEPT ![p] = Idle]
    /\ UNCHANGED <<requests, plans, runs, patches, proposals>>

\* The server process stops and is started again; only the rows survive.
Crash ==
    /\ "crash" \in Faults
    /\ \E p \in Procs : procs[p].pc # "idle"
    /\ procs' = [p \in Procs |-> Idle]
    /\ UNCHANGED <<requests, plans, runs, patches, proposals>>

-----------------------------------------------------------------------------

\* The steps a goroutine takes by itself once its request has been accepted.
Serve(p) ==
    \/ InsertRequest(p) \/ ProposalDone(p) \/ PlanToolDone(p)
    \/ ToolSucceeds(p) \/ RunPlanTool(p)
    \/ RecordAgentActionRequestExecution(p) \/ ReadPlan(p) \/ WritePlan(p)
    \/ ObserverProposes(p) \/ ObserverDone(p)
    \/ UpdateAgentActionRequestStatus(p)

Fail(p) ==
    \/ InsertFails(p) \/ ToolFails(p) \/ ReceiptFails(p) \/ PlanStepFails(p)
    \/ ObserverFails(p) \/ StatusFails(p)

Accept(p) ==
    \/ CreatePlan(p) \/ CycleProposes(p)
    \/ \E r \in RequestIds, d \in Decisions : ReceivePatch(p, r, d)

Next == (\E p \in Procs : Serve(p) \/ Fail(p) \/ Accept(p)) \/ Crash

Spec == Init /\ [][Next]_vars

\* A pending suggestion is eventually decided by the user, and the server
\* keeps running the goroutines it has started.
Decide(r) == \E p \in Procs, d \in Decisions : requests[r].status = "pending" /\ ReceivePatch(p, r, d)

FairSpec ==
    /\ Spec
    /\ \A p \in Procs : WF_vars(Serve(p))
    /\ \A r \in RequestIds : SF_vars(Decide(r))
-----------------------------------------------------------------------------
(* Properties.                                                             *)

TypeOK ==
    /\ requests \in [RequestIds -> Request]
    /\ plans \in [PlanIds -> Plan]
    /\ procs \in [Procs -> Proc]
    /\ runs \in [RequestIds -> Nat]
    /\ patches \in [RequestIds -> [Decision -> Nat]]
    /\ proposals \in Nat

\* The approval gate: a tool returns success for a request at most as often as
\* the user approved that request, whatever fails or is retried in between.
ApprovalGate == \A r \in RequestIds : runs[r] <= patches[r]["approved"]

\* A request that shows as approved, or whose receipt says "succeeded", was
\* really executed: no receipt and no status is written for a run that did not
\* happen, also when handlers of the same request overlap or the server stops.
ReceiptEarned ==
    \A r \in RequestIds :
        /\ requests[r].execution = "succeeded" => runs[r] > 0
        /\ requests[r].status = "approved" =>
                runs[r] > 0 /\ requests[r].execution # "not_run"

\* The status and completed_at a plan shows are those its steps imply, even
\* when handlers overwrite each other's copy of the steps.
PlanStatusDerived ==
    \A q \in PlanIds : plans[q].status # "absent" =>
        /\ plans[q].status = deriveAgentPlanStatus(plans[q].steps)
        /\ plans[q].completed <=> plans[q].status = "done"

\* A plan never claims work nobody did: a step is done only if the tool
\* succeeded for some request of this plan and action type, skipped only if the
\* user dismissed such a request, failed only if the user approved one.
StepBacked(q, step) ==
    step.status # "pending" =>
        \E r \in RequestIds :
            /\ requests[r].plan = q /\ requests[r].type = step.type
            /\ step.status = "done" => runs[r] > 0
            /\ step.status = "skipped" => patches[r]["dismissed"] > 0
            /\ step.status = "failed" => patches[r]["approved"] > 0

StepsEarned ==
    \A q \in PlanIds : \A i \in DOMAIN plans[q].steps : StepBacked(q, plans[q].steps[i])

\* When every suggestion of a plan has been approved or dismissed and no
\* handler is at work, the plan is done: nothing keeps it waiting.  So it is
\* when handlers do not overlap, nothing fails and no plan names an action
\* twice; otherwise RecordAgentPlanStepExecution may lose or mix up a step.
ResolvedPlanIsDone ==
    \A q \in PlanIds :
        (/\ plans[q].status # "absent"
         /\ \A p \in Procs : procs[p].pc = "idle"
         /\ \A r \in RequestIds : requests[r].plan = q => requests[r].status # "pending")
            => plans[q].status = "done"

\* Observer proposals do not feed each other for ever: a user who keeps
\* deciding pending suggestions ends with an empty queue.
QueueDrains == <>[](\A r \in RequestIds : requests[r].status # "pending")

-----------------------------------------------------------------------------
(* What a handler's local copy guarantees about the rows while other       *)
(* handlers run: the strengthening that makes the invariants inductive.    *)

\* The control of a handler: which request, mark and decision go with its pc.
ControlOK(l) ==
    /\ l.pc \notin {"idle", "insert"} => l.req # NoRequest
    /\ l.pc = "idle" => l.req = NoRequest
    /\ l.req # NoRequest =>
        /\ l.mark \in {"done", "failed"} => l.decision = "approved"
        /\ l.mark = "skipped" => l.decision = "dismissed"
        /\ l.pc \in {"execute", "insert", "receipt"} => l.decision = "approved"
        /\ l.pc = "receipt" => l.mark \in {"done", "failed"}
        /\ l.pc \in {"read_plan", "write_plan"} => l.mark # "pending"
        /\ l.pc = "observe" => l.mark = "done"
        /\ l.pc = "set_status" /\ l.decision = "approved" => l.mark = "done"
    /\ l.pc = "write_plan" => l.plan # NoPlan

\* What the handler read of its row still holds of it.
RowKnown(l) ==
    l.req # NoRequest =>
        /\ requests[l.req].status # "absent"
        /\ requests[l.req].type = l.type /\ requests[l.req].plan = l.plan
        /\ patches[l.req][l.decision] > 0

\* A handler that says "done" ran the tool, and past "receipt" has told so.
RunEarned(l) ==
    l.req # NoRequest /\ l.mark = "done" =>
        /\ runs[l.req] > 0
        /\ l.pc \in {"read_plan", "write_plan", "observe", "set_status"} =>
                requests[l.req].execution # "not_run"

\* The steps a handler is about to write claim only work that was done.
CopyBacked(l) ==
    l.pc = "write_plan" => \A i \in DOMAIN l.steps : StepBacked(l.plan, l.steps[i])

LocalInv(l) == ControlOK(l) /\ RowKnown(l) /\ RunEarned(l) /\ CopyBacked(l)

AbsentRows ==
    \A r \in RequestIds : requests[r].status = "absent" =>
        requests[r].plan = NoPlan /\ requests[r].execution = "not_run"

IInv ==
    /\ TypeOK /\ AbsentRows /\ ReceiptEarned /\ StepsEarned
    /\ \A p \in Procs : LocalInv(procs[p])

\* The handlers about to run the tool of a request, or waiting for it.
Due(l, r) == l.req = r /\ l.pc \in {"execute", "insert"}
DueFor(r) == {p \in Procs : Due(procs[p], r)}

\* Every approval is used up by at most one run, finished or still due.
GateInv == \A r \in RequestIds : runs[r] + Cardinality(DueFor(r)) <= patches[r]["approved"]
=============================================================================
