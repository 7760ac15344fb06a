------------------------- MODULE ApprovalGateProofs -------------------------
(***************************************************************************)
(* The approval gate itself: no tool succeeds more often than its request  *)
(* was approved.  Each handler that has been approved and has not finished *)
(* its tool is counted against one approval.                               *)
(***************************************************************************)
EXTENDS ActionApprovalProofs, FiniteSetTheorems

\* What a step of the goroutine p may do to the account of request r.
Keeps(p, r) ==
    /\ runs'[r] = runs[r] /\ patches'[r]["approved"] = patches[r]["approved"]
    /\ Due(procs'[p], r) => Due(procs[p], r)
Finishes(p, r) ==
    /\ runs'[r] = runs[r] + 1 /\ patches'[r]["approved"] = patches[r]["approved"]
    /\ Due(procs[p], r) /\ ~Due(procs'[p], r)
Approves(p, r) ==
    /\ runs'[r] = runs[r] /\ patches'[r]["approved"] = patches[r]["approved"] + 1

\* A proposal, and a PATCH of any status.
LEMMA AcceptBalance ==
    ASSUME IInv, NEW p \in Procs, Accept(p), NEW r \in RequestIds
    PROVE  Keeps(p, r) \/ Approves(p, r)
<1>0. procs[p] \in Proc /\ ControlOK(procs[p]) /\ r # NoRequest
  BY DEF IInv, TypeOK, LocalInv, RequestIds, NoRequest
<1>1. CASE CreatePlan(p)
  BY <1>0, <1>1 DEF IInv, TypeOK, CreatePlan, InsertPlan, Keeps, Due, ControlOK, Proc
<1>2. CASE CycleProposes(p)
  BY <1>0, <1>2 DEF IInv, TypeOK, CycleProposes, Keeps, Due, Idle
<1>3. ASSUME NEW x \in RequestIds, NEW d \in Decisions, ReceivePatch(p, x, d)
      PROVE  Keeps(p, r) \/ Approves(p, r)
  <2>1. d \in Decision /\ runs' = runs
    BY <1>3, ApprovalAssumption DEF ReceivePatch
  <2>2. patches'[r]["approved"] = IF x = r /\ d = "approved" THEN patches[r]["approved"] + 1
                                  ELSE patches[r]["approved"]
    BY <1>3 DEF ReceivePatch, IInv, TypeOK, Decision
  <2>3. CASE x = r /\ d = "approved"
    BY <2>1, <2>2, <2>3 DEF Approves
  <2>4. CASE ~(x = r /\ d = "approved")
    <3>1. procs'[p].req = x /\ (d # "approved" => procs'[p].pc \in {"read_plan", "set_status"})
      BY <1>3, <2>1 DEF ReceivePatch, IInv, TypeOK, Idle, Decision
    <3> QED
      BY <2>1, <2>2, <2>4, <3>1 DEF Keeps, Due
  <2> QED
    BY <2>3, <2>4
<1> QED
  BY <1>1, <1>2, <1>3 DEF Accept

\* A goroutine that serves its request by itself: a run is counted exactly when
\* the handler stops being due.
LEMMA ServeBalance ==
    ASSUME IInv, NEW p \in Procs, Serve(p), NEW r \in RequestIds
    PROVE  Keeps(p, r) \/ Finishes(p, r)
<1>0. /\ procs[p] \in Proc /\ ControlOK(procs[p]) /\ r # NoRequest
      /\ runs \in [RequestIds -> Nat] /\ DOMAIN procs = Procs
  BY DEF IInv, TypeOK, LocalInv, RequestIds, NoRequest
<1>1. CASE InsertRequest(p) \/ ObserverProposes(p)
  BY <1>0, <1>1 DEF InsertRequest, ObserverProposes, InsertRow, Keeps, Due, Proc
<1>2. CASE ProposalDone(p)
  BY <1>0, <1>2 DEF ProposalDone, Keeps, Due, Idle
<1>3. CASE PlanToolDone(p)
  BY <1>0, <1>3 DEF PlanToolDone, Keeps, Finishes, Due, Proc
<1>4. CASE ToolSucceeds(p)
  BY <1>0, <1>4 DEF ToolSucceeds, Keeps, Finishes, Due, Proc
<1>5. CASE RunPlanTool(p)
  BY <1>0, <1>5 DEF RunPlanTool, InsertPlan, Keeps, Due, Proc
<1>6. CASE RecordAgentActionRequestExecution(p)
  BY <1>0, <1>6 DEF RecordAgentActionRequestExecution, Keeps, Due, Proc
<1>7. AfterPlanStep(procs[p]).pc \in {"observe", "set_status", "idle"}
  BY <1>0 DEF AfterPlanStep, Idle, Proc
<1>8. CASE ReadPlan(p)
  BY <1>0, <1>7, <1>8, ZenonT(40) DEF ReadPlan, Keeps, Due, Proc
<1>9. CASE WritePlan(p)
  BY <1>0, <1>7, <1>9 DEF WritePlan, Keeps, Due, Proc
<1>10. CASE ObserverDone(p)
  BY <1>0, <1>10 DEF ObserverDone, Keeps, Due, Proc
<1>11. CASE UpdateAgentActionRequestStatus(p)
  BY <1>0, <1>11 DEF UpdateAgentActionRequestStatus, Keeps, Due, Idle
<1> QED
  BY <1>1, <1>2, <1>3, <1>4, <1>5, <1>6, <1>8, <1>9, <1>10, <1>11 DEF Serve

\* No error path counts a run or makes a handler due again.
LEMMA FailBalance ==
    ASSUME IInv, NEW p \in Procs, Fail(p), NEW r \in RequestIds
    PROVE  Keeps(p, r)
<1>0. procs[p] \in Proc /\ r # NoRequest /\ DOMAIN procs = Procs
  BY DEF IInv, TypeOK, RequestIds, NoRequest
<1>1. CASE InsertFails(p)
  BY <1>0, <1>1 DEF InsertFails, Keeps, Due, Proc, Idle
<1>2. CASE ToolFails(p)
  BY <1>0, <1>2 DEF ToolFails, Keeps, Due, Proc
<1>3. CASE ReceiptFails(p)
  BY <1>0, <1>3 DEF ReceiptFails, Keeps, Due, Proc, Idle
<1>4. CASE PlanStepFails(p)
  BY <1>0, <1>4 DEF PlanStepFails, Keeps, Due, Idle
<1>5. CASE ObserverFails(p)
  BY <1>0, <1>5 DEF ObserverFails, Keeps, Due, Proc
<1>6. CASE StatusFails(p)
  BY <1>0, <1>6 DEF StatusFails, Keeps, Due, Idle
<1> QED
  BY <1>1, <1>2, <1>3, <1>4, <1>5, <1>6 DEF Fail

\* The handlers due for r, with and without the one that moves.
LEMMA DueSplit ==
    ASSUME NEW p \in Procs, NEW r
    PROVE  /\ IsFiniteSet(DueFor(r)) /\ Cardinality(DueFor(r)) \in Nat
           /\ IsFiniteSet(DueFor(r) \ {p}) /\ Cardinality(DueFor(r) \ {p}) \in Nat
           /\ Cardinality(DueFor(r)) =
                Cardinality(DueFor(r) \ {p}) + (IF Due(procs[p], r) THEN 1 ELSE 0)
<1>1. IsFiniteSet(DueFor(r))
  <2>1. DueFor(r) \in SUBSET Procs
    BY DEF DueFor
  <2> QED
    BY <2>1, ProcsAssumption, FS_Subset
<1>2. p \in DueFor(r) <=> Due(procs[p], r)
  BY DEF DueFor
<1>3. Cardinality(DueFor(r)) \in Nat
  BY <1>1, FS_CardinalityType
<1>4. /\ IsFiniteSet(DueFor(r) \ {p})
      /\ Cardinality(DueFor(r) \ {p}) =
            IF p \in DueFor(r) THEN Cardinality(DueFor(r)) - 1 ELSE Cardinality(DueFor(r))
  BY <1>1, FS_RemoveElement
<1>5. Cardinality(DueFor(r) \ {p}) \in Nat
  BY <1>4, FS_CardinalityType
<1> QED
  BY <1>1, <1>2, <1>3, <1>4, <1>5

\* A step of one handler keeps the account of every request.
LEMMA GateStep ==
    ASSUME IInv, IInv', GateInv, NEW p \in Procs, Serve(p) \/ Fail(p) \/ Accept(p),
           NEW r \in RequestIds
    PROVE  runs'[r] + Cardinality(DueFor(r)') <= patches'[r]["approved"]
<1> DEFINE k == Cardinality(DueFor(r) \ {p})
<1>1. DueFor(r)' \ {p} = DueFor(r) \ {p}
  BY OthersStay DEF IInv, DueFor
<1>2. k \in Nat /\ Cardinality(DueFor(r)) = k + (IF Due(procs[p], r) THEN 1 ELSE 0)
  BY DueSplit
<1>3. Cardinality(DueFor(r)') = k + (IF Due(procs'[p], r) THEN 1 ELSE 0)
  <2>1. IsFiniteSet(DueFor(r)')
    <3>1. DueFor(r)' \in SUBSET Procs
      BY DEF DueFor
    <3> QED
      BY <3>1, ProcsAssumption, FS_Subset
  <2>2. p \in DueFor(r)' <=> Due(procs'[p], r)
    BY DEF DueFor, Due
  <2>3. Cardinality(DueFor(r)' \ {p}) =
          IF p \in DueFor(r)' THEN Cardinality(DueFor(r)') - 1 ELSE Cardinality(DueFor(r)')
    BY <2>1, FS_RemoveElement
  <2>4. Cardinality(DueFor(r)') \in Nat
    BY <2>1, FS_CardinalityType
  <2>5. Cardinality(DueFor(r)' \ {p}) = k
    BY <1>1
  <2> HIDE DEF k
  <2> QED
    BY <1>2, <2>2, <2>3, <2>4, <2>5
<1>4. runs[r] \in Nat /\ patches[r]["approved"] \in Nat
      /\ runs[r] + Cardinality(DueFor(r)) <= patches[r]["approved"]
  BY DEF IInv, TypeOK, GateInv, Decision
<1>5. Keeps(p, r) \/ Finishes(p, r) \/ Approves(p, r)
  BY ServeBalance, FailBalance, AcceptBalance
<1> HIDE DEF k
<1> QED
  BY <1>2, <1>3, <1>4, <1>5 DEF Keeps, Finishes, Approves

\* The account is kept by every step; a restart only forgets handlers.
LEMMA GateNext == IInv /\ IInv' /\ GateInv /\ [Next]_vars => GateInv'
<1> SUFFICES ASSUME IInv, IInv', GateInv, [Next]_vars, NEW r \in RequestIds
             PROVE  runs'[r] + Cardinality(DueFor(r)') <= patches'[r]["approved"]
  BY DEF GateInv
<1>1. CASE \E p \in Procs : Serve(p) \/ Fail(p) \/ Accept(p)
  BY <1>1, GateStep
<1>2. CASE Crash
  <2>1. DueFor(r)' = {}
    BY <1>2 DEF Crash, DueFor, Due, Idle
  <2>2. Cardinality({}) = 0
    BY FS_EmptySet
  <2>3. PICK p \in Procs : TRUE
    BY <1>2 DEF Crash
  <2>4. Cardinality(DueFor(r)) \in Nat
    BY <2>3, DueSplit
  <2>5. runs[r] \in Nat /\ patches[r]["approved"] \in Nat
        /\ runs[r] + Cardinality(DueFor(r)) <= patches[r]["approved"]
    BY DEF IInv, TypeOK, GateInv, Decision
  <2>6. runs'[r] = runs[r] /\ patches'[r]["approved"] = patches[r]["approved"]
    BY <1>2 DEF Crash
  <2> QED
    BY <2>1, <2>2, <2>4, <2>5, <2>6
<1>3. CASE UNCHANGED vars
  BY <1>3 DEF vars, GateInv, DueFor
<1> QED
  BY <1>1, <1>2, <1>3 DEF Next

\* At the start nothing has run and nothing is due.
LEMMA GateInit == Init => GateInv
<1> SUFFICES ASSUME Init, NEW r \in RequestIds
             PROVE  runs[r] + Cardinality(DueFor(r)) <= patches[r]["approved"]
  BY DEF GateInv
<1>1. DueFor(r) = {}
  BY DEF Init, DueFor, Due, Idle
<1>2. runs[r] = 0 /\ patches[r]["approved"] = 0
  BY DEF Init, Decision
<1> QED
  BY <1>1, <1>2, FS_EmptySet

\* The account bounds the runs, because no negative number of handlers is due.
LEMMA GateImplies == IInv /\ GateInv => ApprovalGate
<1> SUFFICES ASSUME IInv, GateInv, NEW r \in RequestIds
             PROVE  runs[r] <= patches[r]["approved"]
  BY DEF ApprovalGate
<1>1. runs[r] \in Nat /\ patches[r]["approved"] \in Nat
      /\ runs[r] + Cardinality(DueFor(r)) <= patches[r]["approved"]
  BY DEF IInv, TypeOK, GateInv, Decision
<1>2. DueFor(r) \in SUBSET Procs
  BY DEF DueFor
<1>3. Cardinality(DueFor(r)) \in Nat
  BY <1>2, ProcsAssumption, FS_Subset, FS_CardinalityType
<1> QED
  BY <1>1, <1>3

\* However often a decision is sent, whatever overlaps, fails or is restarted, the
\* tool of a request succeeds at most as often as the user approved that request.
THEOREM GateHolds == Spec => []ApprovalGate
  BY IInvInit, IInvNext, GateInit, GateNext, GateImplies, PTL DEF Spec
=============================================================================
