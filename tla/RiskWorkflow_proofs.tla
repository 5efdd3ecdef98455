------------------------ MODULE RiskWorkflow_proofs ------------------------
(* Theorems about RiskWorkflow, for any number of requests, plans, steps and *)
(* escalations and for any set of operations and edits.                      *)
EXTENDS RiskWorkflow, TLAPS

-----------------------------------------------------------------------------
(* The inductive invariant: what a request in flight may still write has     *)
(* been earned when it lands.  Its operators take the values they talk about *)
(* as arguments, so that they apply before and after a step alike.           *)

Done(plans) == \E p \in Plans : plans[p] = "COMPLETED"

\* The moves of PATCH bodies that leave the rejection stage alone.
Entry(from, to) == from \in OwnerStages /\ to \in {"PENDING_MANAGEMENT_APPROVAL",
                                                   "PENDING_COMPLIANCE_REVIEW"}
Forward(from, to) ==
  \/ Entry(from, to)
  \/ from = "PENDING_MANAGEMENT_APPROVAL" /\ to = "PENDING_COMPLIANCE_REVIEW"
  \/ from = "PENDING_COMPLIANCE_REVIEW" /\ to = "APPROVED"
  \/ from = "APPROVED" /\ to = "PENDING_AMENDMENT"
  \/ from = "PENDING_OWNER_COMPLETION_APPROVAL"
       /\ to \in {"PENDING_MANAGEMENT_CLOSURE_APPROVAL", "PENDING_COMPLIANCE_CLOSURE"}
  \/ from = "PENDING_MANAGEMENT_CLOSURE_APPROVAL" /\ to = "PENDING_COMPLIANCE_CLOSURE"
  \/ from = "PENDING_COMPLIANCE_CLOSURE" /\ to = "CLOSED"
  \/ from \in {"PENDING_RISK_OWNER_APPROVAL", "PENDING_REVISION"} /\ to = "CANCELLED"

Submission(p) == /\ p.expect = "APPROVED" /\ p.to = "PENDING_OWNER_COMPLETION_APPROVAL"
                 /\ p.stage = Keep
Rejection(p)  == /\ p.expect \in Statuses /\ p.to = "PENDING_REVISION"
                 /\ p.stage = RejectionStage(p.expect) /\ p.stage # NoStage
Resubmission(p, signed, plans) ==
  /\ p.expect = "PENDING_REVISION" /\ p.stage = NoStage
  /\ \/ p.to = "PENDING_RISK_OWNER_APPROVAL"
     \/ /\ p.to \in {"PENDING_OWNER_COMPLETION_APPROVAL", "PENDING_MANAGEMENT_CLOSURE_APPROVAL"}
        /\ Done(plans) /\ RequiredSignOffs(p.to) \subseteq signed

\* What a PATCH that is about to be sent may be.
Earned(p, ofa, signed, plans) ==
  \/ p.to = Keep /\ p.stage = Keep
  \/ p.stage = Keep /\ Forward(p.expect, p.to) /\ (Entry(p.expect, p.to) => ofa = "SET")
  \/ Submission(p) /\ Done(plans)
  \/ Rejection(p)
  \/ Resubmission(p, signed, plans)

Justified(q, ofa, signed, plans) ==
  /\ q.pc \in {"patch", "submit"} => Earned(q.patch, ofa, signed, plans)
  /\ q.pc = "stamp" => q.patch.stage = Keep /\ Entry(q.patch.expect, q.patch.to)
  /\ q.pc = "listPlans" => Submission(q.patch)
  /\ q.pc \notin {"patch", "submit", "stamp", "listPlans"} => q.patch.to = Keep

Consistent(rk, signed, plans) ==
  /\ rk.status = "PENDING_REVISION" => rk.stage # NoStage
  /\ rk.stage # NoStage => rk.status \in {"PENDING_REVISION", "CANCELLED"}
  /\ rk.stage \in CompletionStages =>
       Done(plans) /\ RequiredSignOffs(ResubmitTarget(rk.stage)) \subseteq signed
  /\ RequiredSignOffs(rk.status) \subseteq signed
  /\ "OWNER" \in signed => rk.ofa = "SET"
  /\ rk.status \in ClosurePath => Done(plans)

IInv == /\ TypeOK
        /\ Consistent(risk, signedOff, planStatus)
        /\ \A r \in Requests : Justified(req[r], risk.ofa, signedOff, planStatus)

-----------------------------------------------------------------------------
(* Types.                                                                    *)

\* What Begin and Continue store is a request's state.
LEMMA IdleType == /\ NoChange \in Patches /\ Idle \in ReqStates
                  /\ \A pc \in PCs, patch \in Patches : Patching(pc, patch) \in ReqStates
                  /\ \A from, to \in Statuses : Transition(from, to) \in Patches
<1>1. NoChange \in Patches
  BY DEF NoChange, Patches, Keep
<1>2. Idle \in ReqStates
  BY <1>1 DEF Idle, ReqStates, PCs
<1>3. ASSUME NEW pc \in PCs, NEW patch \in Patches PROVE Patching(pc, patch) \in ReqStates
  BY <1>2 DEF Patching, Idle, ReqStates
<1>4. ASSUME NEW from \in Statuses, NEW to \in Statuses PROVE Transition(from, to) \in Patches
  BY DEF Transition, NoChange, Patches, Keep
<1> QED
  BY <1>1, <1>2, <1>3, <1>4

\* Serving a request one step further keeps the requests typed.
LEMMA ReqType ==
  ASSUME TypeOK, NEW r \in Requests, NEW next \in ReqStates, Continue(r, next)
  PROVE  req' \in [Requests -> ReqStates]
BY DEF TypeOK, Continue

\* A request that begins leaves the store alone.
LEMMA BeginType ==
  ASSUME TypeOK, NEW r \in Requests, NEW next \in ReqStates, NEW op, Begin(r, op, next)
  PROVE  TypeOK'
BY DEF TypeOK, StoreTypeOK, Begin, storeVars

\* A PATCH that the entity accepts keeps the rows typed.
LEMMA UpdateRiskType ==
  ASSUME StoreTypeOK, NEW p \in Patches, UpdateRisk(p)
  PROVE  StoreTypeOK'
<1>1. /\ Set(p.to, risk.status) \in Statuses
      /\ Set(p.stage, risk.stage) \in RejectionStages \cup {NoStage}
      /\ Set(p.ofa, risk.ofa) \in {"NULL", "SET"}
      /\ Set(p.gross, risk.gross) \in Levels
      /\ Set(p.approver, risk.approver) \in {"NULL", "NAMED"}
      /\ Set(p.due, risk.due) \in Dates
      /\ risk.residual \in Levels
  BY DEF StoreTypeOK, Risks, Patches, Set
<1>2. risk' \in Risks
  BY <1>1 DEF UpdateRisk, Risks
<1>3. ASSUME NEW p1 \in Plans
      PROVE  applyActionSteps(stepStatus[p1], p.steps) \in [Steps -> RowStates]
  BY DEF applyActionSteps, StoreTypeOK, RowStates
<1>4. stepStatus' \in [Plans -> [Steps -> RowStates]]
  BY <1>3, FirstPlanAssumption DEF UpdateRisk, StoreTypeOK
<1>5. signedOff' \subseteq RejectionStages
  BY DEF UpdateRisk, StoreTypeOK, SignOff, RejectionStages, CompletionStages
<1> QED
  BY <1>2, <1>4, <1>5 DEF UpdateRisk, StoreTypeOK

\* An accepted edit is a PATCH body.
LEMMA EditType ==
  ASSUME TypeOK, NEW e \in Edits
  PROVE  editPatch(e) \in Patches
<1>1. e \in EditRequests
  BY EditsAssumption
<1>2. /\ "PENDING_AMENDMENT" \in Statuses /\ risk.due \in Dates /\ risk.status \in Statuses
  BY DEF TypeOK, StoreTypeOK, Risks, Statuses, OwnerStages
<1>3. /\ e.gross \in Levels \cup {Keep} /\ e.approver \in {"NAMED", Keep}
      /\ e.due \in Dates \cup {Same, Keep} /\ e.steps \in SUBSET Steps
  BY <1>1 DEF EditRequests
<1>4. (IF e.due = Same THEN risk.due ELSE e.due) \in Dates \cup {Keep}
  BY <1>2, <1>3
<1>5. editBody(e) \in Patches
  BY <1>2, <1>3, <1>4 DEF editBody, NoChange, Patches
<1> QED
  BY <1>2, <1>5 DEF editPatch, Patches

\* The statuses that the backend names are statuses of the table.
LEMMA StatusNames ==
  {"PENDING_RISK_OWNER_APPROVAL", "PENDING_AMENDMENT", "PENDING_MANAGEMENT_APPROVAL",
   "PENDING_COMPLIANCE_REVIEW", "PENDING_REVISION", "APPROVED", "ESCALATED",
   "PENDING_OWNER_COMPLETION_APPROVAL", "PENDING_MANAGEMENT_CLOSURE_APPROVAL",
   "PENDING_COMPLIANCE_CLOSURE", "CLOSED", "CANCELLED"} \subseteq Statuses
BY DEF Statuses, OwnerStages, ClosurePath, InRemediation, Terminal

\* Handlers that read the risk and leave one PATCH.
LEMMA DecisionType ==
  ASSUME TypeOK, NEW r \in Requests,
         OwnerApprove(r) \/ ManagementApprove(r) \/ Approve(r) \/ Reject(r) \/ Resubmit(r)
           \/ Close(r) \/ Cancel(r) \/ Update(r) \/ Complete(r)
  PROVE  TypeOK'
<1>1. risk.status \in Statuses
  BY DEF TypeOK, StoreTypeOK, Risks
<1>2. \A to \in Statuses, pc \in PCs : Patching(pc, Transition(risk.status, to)) \in ReqStates
  BY <1>1, IdleType
<1>3. {"stamp", "patch", "listPlans"} \subseteq PCs
  BY DEF PCs
<1>4. CASE OwnerApprove(r)
  <2>1. \A to \in {"PENDING_MANAGEMENT_APPROVAL", "PENDING_COMPLIANCE_REVIEW",
                    "PENDING_MANAGEMENT_CLOSURE_APPROVAL", "PENDING_COMPLIANCE_CLOSURE"},
           pc \in {"stamp", "patch"} : Patching(pc, Transition(risk.status, to)) \in ReqStates
    BY <1>2, <1>3, StatusNames
  <2>2. \E to \in {"PENDING_MANAGEMENT_APPROVAL", "PENDING_COMPLIANCE_REVIEW",
                    "PENDING_MANAGEMENT_CLOSURE_APPROVAL", "PENDING_COMPLIANCE_CLOSURE"},
           pc \in {"stamp", "patch"} :
             Begin(r, "OwnerApprove", Patching(pc, Transition(risk.status, to)))
    BY <1>4 DEF OwnerApprove
  <2> QED
    BY <2>1, <2>2, BeginType
<1>5. CASE ManagementApprove(r)
  BY <1>2, <1>3, <1>5, StatusNames, BeginType DEF ManagementApprove
<1>6. CASE Approve(r)
  BY <1>2, <1>3, <1>6, StatusNames, BeginType DEF Approve
<1>7. CASE Reject(r)
  <2>1. RejectionStage(risk.status) \in RejectionStages \cup {NoStage}
    BY DEF RejectionStage, RejectionStages, CompletionStages
  <2>2. Transition(risk.status, "PENDING_REVISION") \in Patches
    BY <1>1, IdleType, StatusNames
  <2>3. [Transition(risk.status, "PENDING_REVISION") EXCEPT !.stage = RejectionStage(risk.status)]
          \in Patches
    BY <2>1, <2>2 DEF Patches
  <2> QED
    BY <1>3, <1>7, <2>3, IdleType, BeginType DEF Reject
<1>8. CASE Resubmit(r)
  <2>1. ResubmitTarget(risk.stage) \in Statuses
    BY StatusNames DEF ResubmitTarget
  <2>2. Transition(risk.status, ResubmitTarget(risk.stage)) \in Patches
    BY <1>1, <2>1, IdleType
  <2>3. [Transition(risk.status, ResubmitTarget(risk.stage)) EXCEPT !.stage = NoStage] \in Patches
    BY <2>2 DEF Patches
  <2> QED
    BY <1>3, <1>8, <2>3, IdleType, BeginType DEF Resubmit
<1>9. CASE Close(r)
  BY <1>2, <1>3, <1>9, StatusNames, BeginType DEF Close
<1>10. CASE Cancel(r)
  BY <1>2, <1>3, <1>10, StatusNames, BeginType DEF Cancel
<1>11. CASE Update(r)
  BY <1>3, <1>11, EditType, IdleType, BeginType DEF Update
<1>12. CASE Complete(r)
  <2>1. Patching("listPlans", Transition("APPROVED", "PENDING_OWNER_COMPLETION_APPROVAL")) \in ReqStates
    BY <1>3, IdleType, StatusNames
  <2> QED
    BY <1>12, <2>1, BeginType DEF Complete
<1> QED
  BY <1>4, <1>5, <1>6, <1>7, <1>8, <1>9, <1>10, <1>11, <1>12

\* The other requests that begin.
LEMMA StartType ==
  ASSUME TypeOK, NEW r \in Requests,
         EscalateRisk(r) \/ JobList(r) \/ Comment(r) \/ CompletePlan(r) \/ DeleteEvidence(r)
  PROVE  TypeOK'
<1>1. \A pc \in PCs : Patching(pc, NoChange) \in ReqStates
  BY IdleType
<1>2. \A pc \in PCs, e \in Escalations : [Idle EXCEPT !.pc = pc, !.todo = {e}] \in ReqStates
  BY IdleType DEF ReqStates
<1>3. \A pc \in PCs, p \in Plans : [Idle EXCEPT !.pc = pc, !.plan = p] \in ReqStates
  BY IdleType DEF ReqStates
<1>4. {"reescalate", "check", "lookup", "listSteps", "delete"} \subseteq PCs
  BY DEF PCs
<1>5. OpenEscalations \subseteq Escalations /\ evidence \subseteq Plans
  BY DEF OpenEscalations, TypeOK, StoreTypeOK
<1>6. CASE EscalateRisk(r)
  BY <1>1, <1>4, <1>6, BeginType DEF EscalateRisk
<1>7. CASE JobList(r)
  BY <1>1, <1>4, <1>7, BeginType DEF JobList
<1>8. CASE Comment(r)
  BY <1>2, <1>4, <1>5, <1>8, BeginType DEF Comment
<1>9. CASE CompletePlan(r)
  BY <1>3, <1>4, <1>9, BeginType DEF CompletePlan
<1>10. CASE DeleteEvidence(r)
  BY <1>3, <1>4, <1>5, <1>10, BeginType DEF DeleteEvidence
<1> QED
  BY <1>6, <1>7, <1>8, <1>9, <1>10

\* A request goes on, and the store stays typed.
LEMMA ContinueType ==
  ASSUME TypeOK, StoreTypeOK', NEW r \in Requests, NEW next \in ReqStates, Continue(r, next)
  PROVE  TypeOK'
BY ReqType DEF TypeOK

LEMMA StoreUnchangedType ==
  ASSUME StoreTypeOK, UNCHANGED storeVars
  PROVE  StoreTypeOK'
BY DEF StoreTypeOK, storeVars

\* Steps that only read the store.
LEMMA ReadType ==
  ASSUME TypeOK, NEW r \in Requests,
         PatchRefused(r) \/ ListPlans(r) \/ ListOpenEscalations(r) \/ JobEscalate(r)
           \/ CountOpen(r) \/ CommentLookup(r) \/ ListSteps(r) \/ Abandon(r)
  PROVE  TypeOK'
<1>1. StoreTypeOK'
  BY StoreUnchangedType DEF TypeOK, PatchRefused, ListPlans, ListOpenEscalations, JobEscalate,
     CountOpen, CommentLookup, ListSteps, Abandon
<1>2. req[r] \in ReqStates /\ Idle \in ReqStates
  BY IdleType DEF TypeOK
<1>3. \A pc \in PCs : [req[r] EXCEPT !.pc = pc] \in ReqStates /\ Patching(pc, NoChange) \in ReqStates
  BY <1>2, IdleType DEF ReqStates
<1>4. {"submit", "resolve", "count", "flip", "answer", "finish"} \subseteq PCs
  BY DEF PCs
<1>5. [Idle EXCEPT !.pc = "resolve", !.todo = OpenEscalations] \in ReqStates
  BY <1>2, <1>4 DEF ReqStates, OpenEscalations
<1>6. \E next \in ReqStates : Continue(r, next)
  <2>1. CASE PatchRefused(r) \/ Abandon(r)
    BY <1>2, <2>1 DEF PatchRefused, Abandon, End
  <2>2. CASE ListPlans(r)
    BY <1>2, <1>3, <1>4, <2>2 DEF ListPlans, End
  <2>3. CASE ListOpenEscalations(r)
    BY <1>2, <1>5, <2>3 DEF ListOpenEscalations
  <2>4. CASE JobEscalate(r)
    BY <1>2, <1>3, <1>4, <2>4 DEF JobEscalate
  <2>5. CASE CountOpen(r)
    BY <1>2, <1>3, <1>4, <2>5 DEF CountOpen
  <2>6. CASE CommentLookup(r)
    BY <1>2, <1>3, <1>4, <2>6 DEF CommentLookup
  <2>7. CASE ListSteps(r)
    BY <1>2, <1>3, <1>4, <2>7 DEF ListSteps
  <2> QED
    BY <2>1, <2>2, <2>3, <2>4, <2>5, <2>6, <2>7
<1> QED
  BY <1>1, <1>6, ContinueType

\* Steps that write rows of the store for a request.
LEMMA WriteType ==
  ASSUME TypeOK, NEW r \in Requests,
         SetOwnerFirstApprovedAt(r) \/ PatchRisk(r) \/ ResolveEscalation(r) \/ ReescalateRisk(r)
           \/ FlipEscalated(r) \/ CommentEscalation(r) \/ FinishPlan(r) \/ DeleteEvidenceRow(r)
  PROVE  TypeOK'
<1>1. /\ StoreTypeOK /\ risk \in Risks /\ escs \in [Escalations -> EscStates]
      /\ planStatus \in [Plans -> RowStates] /\ evidence \subseteq Plans
  BY DEF TypeOK, StoreTypeOK
<1>2. req[r] \in ReqStates /\ Idle \in ReqStates
  BY IdleType DEF TypeOK
<1>3. "ESCALATED" \in Statuses /\ "APPROVED" \in Statuses
  BY StatusNames
<1>4. CASE SetOwnerFirstApprovedAt(r)
  <2>1. [NoChange EXCEPT !.ofa = "SET"] \in Patches
    BY IdleType DEF Patches
  <2>2. StoreTypeOK'
    BY <1>1, <1>4, <2>1, UpdateRiskType DEF SetOwnerFirstApprovedAt
  <2>3. [req[r] EXCEPT !.pc = "patch"] \in ReqStates
    BY <1>2 DEF ReqStates, PCs
  <2> QED
    BY <1>4, <2>2, <2>3, ContinueType DEF SetOwnerFirstApprovedAt
<1>5. CASE PatchRisk(r)
  <2>1. StoreTypeOK'
    BY <1>1, <1>2, <1>5, UpdateRiskType DEF PatchRisk, ReqStates
  <2>2. [Idle EXCEPT !.pc = "listOpen"] \in ReqStates
    BY <1>2 DEF ReqStates, PCs
  <2> QED
    BY <1>2, <1>5, <2>1, <2>2, ContinueType DEF PatchRisk
<1>6. CASE ResolveEscalation(r)
  <2>1. PICK e \in req[r].todo :
          /\ UpdateRiskEscalation(e)
          /\ Continue(r, IF req[r].todo = {e} THEN Idle ELSE [req[r] EXCEPT !.todo = @ \ {e}])
    BY <1>6 DEF ResolveEscalation
  <2>2. StoreTypeOK'
    BY <1>1, <2>1 DEF UpdateRiskEscalation, StoreTypeOK, EscStates
  <2>3. [req[r] EXCEPT !.todo = @ \ {e}] \in ReqStates
    BY <1>2 DEF ReqStates
  <2> QED
    BY <1>2, <2>1, <2>2, <2>3, ContinueType
<1>7. ASSUME NEW resolved, EscalateRow(resolved)
      PROVE  StoreTypeOK'
  <2>1. risk' \in Risks
    BY <1>1, <1>3, <1>7 DEF EscalateRow, InsertEscalation, Risks
  <2>2. escs' \in [Escalations -> EscStates]
    BY <1>1, <1>7 DEF EscalateRow, InsertEscalation, EscStates
  <2> QED
    BY <1>1, <1>7, <2>1, <2>2 DEF EscalateRow, InsertEscalation, StoreTypeOK
<1>8. CASE ReescalateRisk(r)
  <2>1. StoreTypeOK'
    BY <1>1, <1>7, <1>8, StoreUnchangedType DEF ReescalateRisk, Reescalate
  <2> QED
    BY <1>2, <1>8, <2>1, ContinueType DEF ReescalateRisk, End
<1>9. CASE FlipEscalated(r)
  <2>1. StoreTypeOK'
    BY <1>1, <1>7, <1>9, StoreUnchangedType DEF FlipEscalated
  <2> QED
    BY <1>2, <1>9, <2>1, ContinueType DEF FlipEscalated, End
<1>10. CASE CommentEscalation(r)
  <2>1. ASSUME NEW e, AnswerEscalation(e) PROVE StoreTypeOK'
    <3>1. risk' \in Risks
      BY <1>1, <1>3, <2>1 DEF AnswerEscalation, Risks
    <3>2. escs' \in [Escalations -> EscStates]
      BY <1>1, <2>1 DEF AnswerEscalation, EscStates
    <3> QED
      BY <1>1, <2>1, <3>1, <3>2 DEF AnswerEscalation, StoreTypeOK
  <2>2. StoreTypeOK'
    BY <1>1, <1>10, <2>1, StoreUnchangedType DEF CommentEscalation
  <2> QED
    BY <1>2, <1>10, <2>2, ContinueType DEF CommentEscalation, End
<1>11. CASE FinishPlan(r)
  <2>1. StoreTypeOK'
    BY <1>1, <1>11, StoreUnchangedType DEF FinishPlan, CompleteRiskActionPlan, StoreTypeOK, RowStates
  <2> QED
    BY <1>2, <1>11, <2>1, ContinueType DEF FinishPlan, End
<1>12. CASE DeleteEvidenceRow(r)
  <2>1. StoreTypeOK'
    BY <1>1, <1>12 DEF DeleteEvidenceRow, DeleteRiskEvidence, StoreTypeOK
  <2> QED
    BY <1>2, <1>12, <2>1, ContinueType DEF DeleteEvidenceRow, End
<1> QED
  BY <1>4, <1>5, <1>6, <1>8, <1>9, <1>10, <1>11, <1>12

\* Calls that are a single transaction, and the calendar.
LEMMA CallType ==
  ASSUME TypeOK, AssessRisk \/ ActionPlanCall \/ DayPasses
  PROVE  TypeOK'
<1>1. StoreTypeOK /\ risk \in Risks /\ req' = req
  BY DEF TypeOK, StoreTypeOK, AssessRisk, ActionPlanCall, DayPasses
<1>2. CASE AssessRisk
  <2>1. PICK level \in Levels, approver \in {"NAMED", Keep}, due \in Dates \cup {Keep} :
          CreateRiskAssessment(level, approver, due)
    BY <1>2 DEF AssessRisk
  <2>2. risk' \in Risks
    BY <1>1, <2>1 DEF CreateRiskAssessment, Risks, Set, Keep
  <2> QED
    BY <1>1, <2>1, <2>2 DEF CreateRiskAssessment, StoreTypeOK, TypeOK
<1>3. CASE ActionPlanCall
  <2>1. CASE \E p \in Plans, ss \in SUBSET Steps : CreateRiskActionPlan(p, ss)
    <3>1. PICK p \in Plans, ss \in SUBSET Steps : CreateRiskActionPlan(p, ss)
      BY <2>1
    <3>2. [s \in Steps |-> IF s \in ss THEN "PENDING" ELSE "ABSENT"] \in [Steps -> RowStates]
      BY DEF RowStates
    <3> QED
      BY <1>1, <3>1, <3>2 DEF CreateRiskActionPlan, StoreTypeOK, TypeOK, RowStates
  <2>2. CASE \E p \in Plans, s \in Steps, v \in {"PENDING", "COMPLETED"} : UpdateRiskActionStep(p, s, v)
    BY <1>1, <2>2 DEF UpdateRiskActionStep, StoreTypeOK, TypeOK, RowStates
  <2>3. CASE \E p \in Plans : CreateRiskEvidence(p)
    BY <1>1, <2>3 DEF CreateRiskEvidence, StoreTypeOK, TypeOK
  <2> QED
    BY <1>3, <2>1, <2>2, <2>3 DEF ActionPlanCall
<1>4. CASE DayPasses
  <2>1. risk' \in Risks
    BY <1>1, <1>4 DEF DayPasses, Risks, Dates
  <2> QED
    BY <1>1, <1>4, <2>1 DEF DayPasses, StoreTypeOK, TypeOK
<1> QED
  BY <1>2, <1>3, <1>4

LEMMA InitType == Init => TypeOK
<1> SUFFICES ASSUME Init PROVE TypeOK
  OBVIOUS
<1>1. risk \in Risks
  <2>1. {"PENDING_RISK_OWNER_APPROVAL"} \subseteq Statuses /\ {"LOWER"} \subseteq Levels
    BY StatusNames DEF Levels
  <2> QED
    BY <2>1 DEF Init, CreateRisk, Risks
<1>2. planStatus \in [Plans -> RowStates] /\ stepStatus \in [Plans -> [Steps -> RowStates]]
  BY DEF Init, CreateRisk, RowStates
<1> QED
  BY <1>1, <1>2, IdleType DEF Init, CreateRisk, TypeOK, StoreTypeOK, EscStates

LEMMA NextType == TypeOK /\ [Next]_vars => TypeOK'
<1> SUFFICES ASSUME TypeOK, [Next]_vars PROVE TypeOK'
  OBVIOUS
<1>1. CASE UNCHANGED vars
  BY <1>1 DEF TypeOK, StoreTypeOK, vars
<1>2. ASSUME NEW r \in Requests, Serve(r) PROVE TypeOK'
  BY <1>2, DecisionType, StartType, ReadType, WriteType DEF Serve
<1> QED
  BY <1>1, <1>2, CallType DEF Next

\* Rows and requests keep their types, in every interleaving.
THEOREM TypeCorrect == Spec => []TypeOK
BY InitType, NextType, PTL DEF Spec

-----------------------------------------------------------------------------
(* Facts about the tables of RiskStatus.                                     *)

\* A move forward adds the one sign-off that the next status requires.
LEMMA ForwardMoves ==
  ASSUME NEW from, NEW to, Forward(from, to)
  PROVE  /\ RequiredSignOffs(to) \subseteq RequiredSignOffs(from) \cup SignOff(from, to)
         /\ "OWNER" \in SignOff(from, to) => Entry(from, to)
         /\ to \in ClosurePath => from \in ClosurePath
         /\ to \in Statuses \ {"PENDING_REVISION"}
         /\ from = "PENDING_REVISION" => to = "CANCELLED"
<1>1. to \in Statuses \ {"PENDING_REVISION"}
  BY StatusNames DEF Forward, Entry
<1>2. to \in ClosurePath => from \in ClosurePath
  BY DEF Forward, Entry, ClosurePath
<1>3. "OWNER" \in SignOff(from, to) => Entry(from, to)
  BY DEF SignOff, Entry
<1>4. RequiredSignOffs(to) \subseteq RequiredSignOffs(from) \cup SignOff(from, to)
  BY DEF Forward, Entry, RequiredSignOffs, SignOff, OwnerStages, InRemediation
<1> QED
  BY <1>1, <1>2, <1>3, <1>4 DEF Forward, Entry, OwnerStages

\* A rejection on the closure path is resubmitted to where it was rejected.
LEMMA Rejections ==
  ASSUME NEW from \in Statuses, RejectionStage(from) # NoStage
  PROVE  /\ SignOff(from, "PENDING_REVISION") = {} /\ RequiredSignOffs("PENDING_REVISION") = {}
         /\ RejectionStage(from) \in CompletionStages =>
              from \in ClosurePath /\ ResubmitTarget(RejectionStage(from)) = from
BY DEF RejectionStage, SignOff, RequiredSignOffs, CompletionStages, ResubmitTarget, ClosurePath,
   OwnerStages, InRemediation

\* Where a resubmission leads, and that it signs nothing off.
LEMMA Resubmissions ==
  ASSUME NEW stage
  PROVE  /\ stage \notin CompletionStages => ResubmitTarget(stage) = "PENDING_RISK_OWNER_APPROVAL"
         /\ stage \in CompletionStages => ResubmitTarget(stage) \in
              {"PENDING_OWNER_COMPLETION_APPROVAL", "PENDING_MANAGEMENT_CLOSURE_APPROVAL"}
         /\ SignOff("PENDING_REVISION", ResubmitTarget(stage)) = {}
         /\ RequiredSignOffs("PENDING_RISK_OWNER_APPROVAL") = {}
BY DEF ResubmitTarget, CompletionStages, SignOff, RequiredSignOffs, OwnerStages, InRemediation

-----------------------------------------------------------------------------
(* The store stays consistent under every write that the requests make.      *)

LEMMA NoSignOff == \A status : SignOff(status, status) = {}
BY DEF SignOff, OwnerStages

LEMMA PatchConsistent ==
  ASSUME risk \in Risks, NEW p \in Patches, UpdateRisk(p),
         Consistent(risk, signedOff, planStatus), Earned(p, risk.ofa, signedOff, planStatus)
  PROVE  Consistent(risk', signedOff', planStatus')
<1>1. /\ risk'.status = Set(p.to, risk.status) /\ risk'.stage = Set(p.stage, risk.stage)
      /\ risk'.ofa = Set(p.ofa, risk.ofa) /\ planStatus' = planStatus
      /\ signedOff' = signedOff \cup SignOff(risk.status, risk'.status)
  BY DEF UpdateRisk
<1>2. risk.ofa = "SET" => risk'.ofa = "SET"
  BY <1>1 DEF Set, Patches
<1>3. p.to # Keep => risk.status = p.expect \/ p.expect = Keep
  BY DEF UpdateRisk, PatchAccepted
<1>4. Keep \notin Statuses /\ Keep \notin RejectionStages /\ Keep # NoStage
  BY DEF Keep, Statuses, OwnerStages, ClosurePath, InRemediation, Terminal, RejectionStages,
     CompletionStages, NoStage
<1>5. CASE p.to = Keep /\ p.stage = Keep
  <2>1. risk'.status = risk.status /\ risk'.stage = risk.stage /\ signedOff' = signedOff
    BY <1>1, <1>5, NoSignOff DEF Set
  <2> QED
    BY <1>1, <1>2, <2>1 DEF Consistent
<1>6. CASE p.stage = Keep /\ Forward(p.expect, p.to) /\ (Entry(p.expect, p.to) => risk.ofa = "SET")
  <2>1. p.to \in Statuses /\ p.expect # Keep
    BY <1>4, <1>6, ForwardMoves DEF Forward, Entry, OwnerStages, Keep
  <2>2. /\ risk.status = p.expect /\ risk'.status = p.to /\ risk'.stage = risk.stage
        /\ signedOff' = signedOff \cup SignOff(risk.status, risk'.status)
    BY <1>1, <1>3, <1>4, <1>6, <2>1 DEF Set
  <2>3. Forward(risk.status, risk'.status)
    BY <1>6, <2>2
  <2>4. RequiredSignOffs(risk'.status) \subseteq signedOff'
    BY <2>2, <2>3, ForwardMoves DEF Consistent
  <2>5. "OWNER" \in signedOff' => risk'.ofa = "SET"
    BY <1>2, <1>6, <2>2, <2>3, ForwardMoves DEF Consistent
  <2>6. risk'.status \in ClosurePath => Done(planStatus')
    BY <1>1, <2>3, ForwardMoves DEF Consistent
  <2>7. /\ risk'.status # "PENDING_REVISION"
        /\ risk'.stage # NoStage => risk'.status \in {"PENDING_REVISION", "CANCELLED"}
    <3>1. risk'.status # "PENDING_REVISION" /\ (risk.status = "PENDING_REVISION" => risk'.status = "CANCELLED")
      BY <2>3, ForwardMoves
    <3>2. risk.status # "CANCELLED"
      BY <2>3 DEF Forward, Entry, OwnerStages
    <3> QED
      BY <2>2, <3>1, <3>2 DEF Consistent
  <2>8. risk'.stage \in CompletionStages =>
          Done(planStatus') /\ RequiredSignOffs(ResubmitTarget(risk'.stage)) \subseteq signedOff'
    BY <1>1, <2>2 DEF Consistent
  <2> QED
    BY <2>4, <2>5, <2>6, <2>7, <2>8 DEF Consistent
<1>7. CASE Submission(p) /\ Done(planStatus)
  <2>1. /\ risk.status = "APPROVED" /\ risk'.status = "PENDING_OWNER_COMPLETION_APPROVAL"
        /\ risk'.stage = risk.stage
    BY <1>1, <1>3, <1>7 DEF Submission, Set, Keep
  <2>2. SignOff(risk.status, risk'.status) = {} /\ RequiredSignOffs(risk'.status) = RequiredSignOffs(risk.status)
    BY <2>1 DEF SignOff, RequiredSignOffs, OwnerStages, InRemediation
  <2> QED
    BY <1>1, <1>2, <1>7, <2>1, <2>2 DEF Consistent
<1>8. CASE Rejection(p)
  <2>1. /\ risk.status = p.expect /\ risk'.status = "PENDING_REVISION" /\ risk.status \in Statuses
        /\ risk'.stage = RejectionStage(risk.status) /\ RejectionStage(risk.status) # NoStage
    BY <1>1, <1>3, <1>4, <1>8 DEF Rejection, Set, Keep, RejectionStage
  <2>2. signedOff' = signedOff
    BY <1>1, <2>1, Rejections
  <2>3. "PENDING_REVISION" \notin ClosurePath
    BY DEF ClosurePath
  <2> QED
    BY <1>1, <1>2, <2>1, <2>2, <2>3, Rejections DEF Consistent
<1>9. CASE Resubmission(p, signedOff, planStatus)
  <2>1. /\ risk.status = "PENDING_REVISION" /\ risk'.status = p.to /\ risk'.stage = NoStage
        /\ p.to # "PENDING_REVISION"
    BY <1>1, <1>3, <1>4, <1>9 DEF Resubmission, Set, Keep, NoStage
  <2>2. SignOff(risk.status, risk'.status) = {} /\ RequiredSignOffs("PENDING_RISK_OWNER_APPROVAL") = {}
    BY <1>9, <2>1 DEF Resubmission, SignOff, RequiredSignOffs, OwnerStages, InRemediation
  <2>3. NoStage \notin CompletionStages /\ "PENDING_RISK_OWNER_APPROVAL" \notin ClosurePath
    BY DEF NoStage, CompletionStages, ClosurePath
  <2> QED
    BY <1>1, <1>2, <1>9, <2>1, <2>2, <2>3 DEF Consistent, Resubmission
<1> QED
  BY <1>5, <1>6, <1>7, <1>8, <1>9 DEF Earned

\* What is never taken back.
Grows == /\ risk.ofa = "SET" => risk'.ofa = "SET"
         /\ signedOff \subseteq signedOff'
         /\ Done(planStatus) => Done(planStatus')

StoreStep == Grows /\ Consistent(risk', signedOff', planStatus')

\* Writes that touch neither status, stage, stamp nor sign-offs.
LEMMA NeutralStep ==
  ASSUME Consistent(risk, signedOff, planStatus),
         risk'.status = risk.status, risk'.stage = risk.stage, risk'.ofa = risk.ofa,
         signedOff' = signedOff, Done(planStatus) => Done(planStatus')
  PROVE  StoreStep
BY DEF StoreStep, Grows, Consistent

LEMMA ReadStep ==
  ASSUME Consistent(risk, signedOff, planStatus), UNCHANGED storeVars
  PROVE  StoreStep
BY NeutralStep DEF storeVars

LEMMA PatchStep ==
  ASSUME risk \in Risks, NEW p \in Patches, UpdateRisk(p),
         Consistent(risk, signedOff, planStatus), Earned(p, risk.ofa, signedOff, planStatus)
  PROVE  StoreStep
<1>1. Grows
  BY DEF Grows, UpdateRisk, Set, Patches
<1> QED
  BY <1>1, PatchConsistent DEF StoreStep

\* Escalating an APPROVED risk and answering the escalation need no new sign-off.
LEMMA EscalationStep ==
  ASSUME risk \in Risks, Consistent(risk, signedOff, planStatus),
         (\E resolved : EscalateRow(resolved)) \/ (\E e : AnswerEscalation(e))
  PROVE  StoreStep
<1>1. /\ risk.status \in InRemediation /\ risk'.status \in InRemediation
      /\ risk'.stage = risk.stage /\ risk'.ofa = risk.ofa
      /\ signedOff' = signedOff /\ planStatus' = planStatus
  BY DEF EscalateRow, InsertEscalation, AnswerEscalation, Risks, InRemediation
<1>2. \A status \in InRemediation :
        /\ RequiredSignOffs(status) = {"OWNER", "COMPLIANCE"}
        /\ status \notin ClosurePath \cup {"PENDING_REVISION", "CANCELLED"}
  BY DEF InRemediation, RequiredSignOffs, ClosurePath
<1> QED
  BY <1>1, <1>2 DEF StoreStep, Grows, Consistent

-----------------------------------------------------------------------------
(* Every step of a request leaves it with a PATCH that is earned.            *)

\* What the request r holds after the step is justified by the store after it.
Justifies(r) == \E next : /\ Continue(r, next)
                          /\ Justified(next, risk'.ofa, signedOff', planStatus')

\* A justified request stays justified while the store grows.
LEMMA JustifiedStable ==
  ASSUME NEW q, Grows, Justified(q, risk.ofa, signedOff, planStatus)
  PROVE  Justified(q, risk'.ofa, signedOff', planStatus')
<1>1. Earned(q.patch, risk.ofa, signedOff, planStatus)
        => Earned(q.patch, risk'.ofa, signedOff', planStatus')
  BY DEF Grows, Earned, Resubmission
<1> QED
  BY <1>1 DEF Justified

\* Requests without a PATCH are justified whatever the store.
LEMMA NothingPending ==
  ASSUME NEW ofa, NEW signed, NEW plans
  PROVE  /\ Justified(Idle, ofa, signed, plans)
         /\ \A pc \in PCs \ {"patch", "submit", "stamp", "listPlans"} :
              /\ Justified(Patching(pc, NoChange), ofa, signed, plans)
              /\ \A todo : Justified([Idle EXCEPT !.pc = pc, !.todo = todo], ofa, signed, plans)
              /\ \A plan : Justified([Idle EXCEPT !.pc = pc, !.plan = plan], ofa, signed, plans)
BY DEF Justified, Idle, Patching, NoChange

\* The fields of what a handler leaves.
LEMMA TransitionFields ==
  ASSUME NEW from, NEW to
  PROVE  /\ Transition(from, to).expect = from /\ Transition(from, to).to = to
         /\ Transition(from, to).stage = Keep
         /\ \A stage : LET p == [Transition(from, to) EXCEPT !.stage = stage] IN
              p.expect = from /\ p.to = to /\ p.stage = stage
BY DEF Transition, NoChange

LEMMA PatchingFields ==
  ASSUME NEW pc, NEW patch
  PROVE  Patching(pc, patch).pc = pc /\ Patching(pc, patch).patch = patch
BY DEF Patching, Idle

LEMMA PatchPending ==
  ASSUME NEW patch, NEW ofa, NEW signed, NEW plans
  PROVE  /\ Earned(patch, ofa, signed, plans) => Justified(Patching("patch", patch), ofa, signed, plans)
         /\ patch.stage = Keep /\ Entry(patch.expect, patch.to)
              => Justified(Patching("stamp", patch), ofa, signed, plans)
         /\ Submission(patch) => Justified(Patching("listPlans", patch), ofa, signed, plans)
BY PatchingFields DEF Justified

\* Whatever a handler decides to send, it has earned it or will have by then.
LEMMA DecisionEarned ==
  ASSUME IInv, NEW r \in Requests,
         OwnerApprove(r) \/ ManagementApprove(r) \/ Approve(r) \/ Reject(r) \/ Resubmit(r)
           \/ Close(r) \/ Cancel(r) \/ Update(r) \/ Complete(r)
  PROVE  \E op, next : Begin(r, op, next) /\ Justified(next, risk.ofa, signedOff, planStatus)
<1>1. /\ risk.status \in Statuses /\ risk.ofa \in {"NULL", "SET"}
      /\ Consistent(risk, signedOff, planStatus)
  BY DEF IInv, TypeOK, StoreTypeOK, Risks
<1> DEFINE J(next) == Justified(next, risk.ofa, signedOff, planStatus)
<1>2. ASSUME NEW to, Forward(risk.status, to), Entry(risk.status, to) => risk.ofa = "SET"
      PROVE  J(Patching("patch", Transition(risk.status, to)))
  BY <1>2, TransitionFields, PatchPending DEF Earned
<1>3. CASE OwnerApprove(r)
  <2>1. CASE risk.status \in OwnerStages
    <3>1. PICK to \in {"PENDING_MANAGEMENT_APPROVAL", "PENDING_COMPLIANCE_REVIEW"} :
            Begin(r, "OwnerApprove", Patching(IF risk.ofa = "NULL" THEN "stamp" ELSE "patch",
                                              Transition(risk.status, to)))
      BY <1>3, <2>1 DEF OwnerApprove, OwnerStages
    <3>2. Entry(risk.status, to) /\ Forward(risk.status, to)
      BY <2>1 DEF Entry, Forward
    <3>3. J(Patching("stamp", Transition(risk.status, to)))
      BY <3>2, TransitionFields, PatchPending
    <3>4. risk.ofa # "NULL" => J(Patching("patch", Transition(risk.status, to)))
      BY <1>1, <1>2, <3>2
    <3> QED
      BY <3>1, <3>3, <3>4
  <2>2. CASE risk.status \notin OwnerStages
    <3>1. PICK to \in {"PENDING_MANAGEMENT_CLOSURE_APPROVAL", "PENDING_COMPLIANCE_CLOSURE"} :
            /\ risk.status = "PENDING_OWNER_COMPLETION_APPROVAL"
            /\ Begin(r, "OwnerApprove", Patching("patch", Transition(risk.status, to)))
      BY <1>3, <2>2 DEF OwnerApprove
    <3>2. Forward(risk.status, to) /\ ~Entry(risk.status, to)
      BY <3>1 DEF Forward, Entry
    <3> QED
      BY <1>2, <3>1, <3>2
  <2> QED
    BY <2>1, <2>2
<1>4. CASE ManagementApprove(r) \/ Approve(r) \/ Close(r) \/ Cancel(r)
  <2> DEFINE Sends(op, to) == /\ Forward(risk.status, to) /\ ~Entry(risk.status, to)
                              /\ Begin(r, op, Patching("patch", Transition(risk.status, to)))
  <2>1. ManagementApprove(r) => \/ Sends("ManagementApprove", "PENDING_COMPLIANCE_REVIEW")
                                \/ Sends("ManagementApprove", "PENDING_COMPLIANCE_CLOSURE")
    BY DEF ManagementApprove, Forward, Entry, OwnerStages
  <2>2. Approve(r) => Sends("Approve", "APPROVED")
    BY DEF Approve, Forward, Entry
  <2>3. Close(r) => Sends("Close", "CLOSED")
    BY DEF Close, Forward, Entry
  <2>4. Cancel(r) => Sends("Cancel", "CANCELLED")
    BY DEF Cancel, cancellable, Forward, Entry
  <2>5. \E op, to : Sends(op, to)
    BY <1>4, <2>1, <2>2, <2>3, <2>4
  <2> QED
    BY <1>2, <2>5
<1>5. CASE Reject(r)
  <2> DEFINE p == [Transition(risk.status, "PENDING_REVISION") EXCEPT !.stage = RejectionStage(risk.status)]
  <2>1. Rejection(p)
    BY <1>1, <1>5, TransitionFields DEF Rejection, Reject
  <2> QED
    BY <1>5, <2>1, PatchPending DEF Reject, Earned
<1>6. CASE Resubmit(r)
  <2> DEFINE p == [Transition(risk.status, ResubmitTarget(risk.stage)) EXCEPT !.stage = NoStage]
  <2>1. /\ p.expect = "PENDING_REVISION" /\ p.to = ResubmitTarget(risk.stage) /\ p.stage = NoStage
    BY <1>6, TransitionFields DEF Resubmit
  <2>2. Resubmission(p, signedOff, planStatus)
    BY <1>1, <2>1, Resubmissions DEF Resubmission, Consistent
  <2> QED
    BY <1>6, <2>2, PatchPending DEF Resubmit, Earned
<1>7. CASE Update(r)
  <2>1. PICK e \in Edits : Begin(r, "Update", Patching("patch", editPatch(e)))
    BY <1>7 DEF Update
  <2>2. editPatch(e).stage = Keep /\ editPatch(e).expect = risk.status
    BY DEF editPatch, editBody, NoChange
  <2>3. \/ editPatch(e).to = Keep
        \/ editPatch(e).to = "PENDING_AMENDMENT" /\ risk.status = "APPROVED"
    BY DEF editPatch, editBody, NoChange
  <2>4. Earned(editPatch(e), risk.ofa, signedOff, planStatus)
    BY <2>2, <2>3 DEF Earned, Forward, Entry, OwnerStages
  <2> QED
    BY <2>1, <2>4, PatchPending
<1>8. CASE Complete(r)
  <2> DEFINE p == Transition("APPROVED", "PENDING_OWNER_COMPLETION_APPROVAL")
  <2>1. Submission(p)
    BY TransitionFields DEF Submission
  <2> QED
    BY <1>8, <2>1, PatchPending DEF Complete
<1> QED
  BY <1>3, <1>4, <1>5, <1>6, <1>7, <1>8

LEMMA StartEarned ==
  ASSUME NEW r \in Requests,
         EscalateRisk(r) \/ JobList(r) \/ Comment(r) \/ CompletePlan(r) \/ DeleteEvidence(r)
  PROVE  \E op, next : Begin(r, op, next) /\ Justified(next, risk.ofa, signedOff, planStatus)
BY NothingPending DEF EscalateRisk, JobList, Comment, CompletePlan, DeleteEvidence, PCs

\* A step preserves the invariant when the store's part of it is a StoreStep and
\* the request's part leaves something justified.
LEMMA BeginStep ==
  ASSUME IInv, NEW r \in Requests, NEW op, NEW next, Begin(r, op, next),
         Justified(next, risk.ofa, signedOff, planStatus)
  PROVE  StoreStep /\ Justifies(r)
<1>1. StoreStep
  BY ReadStep DEF Begin, IInv
<1>2. Continue(r, next) /\ Justified(next, risk'.ofa, signedOff', planStatus')
  BY DEF Begin, Continue, storeVars
<1> QED
  BY <1>1, <1>2 DEF Justifies

LEMMA ReadEarned ==
  ASSUME IInv, NEW r \in Requests,
         PatchRefused(r) \/ ListPlans(r) \/ ListOpenEscalations(r) \/ JobEscalate(r)
           \/ CountOpen(r) \/ CommentLookup(r) \/ ListSteps(r) \/ Abandon(r)
  PROVE  /\ UNCHANGED storeVars
         /\ \E next : Continue(r, next) /\ Justified(next, risk.ofa, signedOff, planStatus)
<1>1. UNCHANGED storeVars
  BY DEF PatchRefused, ListPlans, ListOpenEscalations, JobEscalate, CountOpen, CommentLookup,
     ListSteps, Abandon
<1> DEFINE J(next) == Justified(next, risk.ofa, signedOff, planStatus)
<1>2. J(req[r]) /\ req[r] \in ReqStates
  BY DEF IInv, TypeOK
<1>3. J(Idle) /\ \A pc \in {"resolve", "count", "flip"} :
                   J(Patching(pc, NoChange)) /\ \A todo : J([Idle EXCEPT !.pc = pc, !.todo = todo])
  BY NothingPending DEF PCs
<1>4. \A pc \in {"answer", "finish"} :
        req[r].pc \in {"lookup", "listSteps"} => J([req[r] EXCEPT !.pc = pc])
  BY <1>2 DEF Justified, ReqStates
<1>5. CASE ListPlans(r)
  <2>1. Submission(req[r].patch)
    BY <1>2, <1>5 DEF ListPlans, Justified
  <2>2. hasCompletedPlan => Earned(req[r].patch, risk.ofa, signedOff, planStatus)
    BY <2>1 DEF hasCompletedPlan, Done, Earned
  <2>3. hasCompletedPlan => J([req[r] EXCEPT !.pc = "submit"])
    BY <1>2, <2>2 DEF Justified, ReqStates
  <2> QED
    BY <1>1, <1>3, <1>5, <2>3 DEF ListPlans, End
<1>6. CASE PatchRefused(r) \/ Abandon(r)
  BY <1>1, <1>3, <1>6 DEF PatchRefused, Abandon, End
<1>7. CASE ListOpenEscalations(r)
  BY <1>1, <1>3, <1>7 DEF ListOpenEscalations
<1>8. CASE JobEscalate(r) \/ CountOpen(r)
  BY <1>1, <1>3, <1>8 DEF JobEscalate, CountOpen
<1>9. CASE CommentLookup(r) \/ ListSteps(r)
  BY <1>1, <1>3, <1>4, <1>9 DEF CommentLookup, ListSteps
<1> QED
  BY <1>5, <1>6, <1>7, <1>8, <1>9

LEMMA WriteStep ==
  ASSUME IInv, NEW r \in Requests,
         SetOwnerFirstApprovedAt(r) \/ PatchRisk(r) \/ ResolveEscalation(r) \/ ReescalateRisk(r)
           \/ FlipEscalated(r) \/ CommentEscalation(r) \/ FinishPlan(r) \/ DeleteEvidenceRow(r)
  PROVE  StoreStep /\ Justifies(r)
<1>1. /\ risk \in Risks /\ planStatus \in [Plans -> RowStates]
      /\ req[r] \in ReqStates /\ req[r].patch \in Patches
      /\ Consistent(risk, signedOff, planStatus)
      /\ Justified(req[r], risk.ofa, signedOff, planStatus)
  BY DEF IInv, TypeOK, StoreTypeOK, ReqStates
<1>2. End(r) => Justifies(r)
  BY NothingPending DEF End, Justifies
<1>3. CASE SetOwnerFirstApprovedAt(r)
  <2> DEFINE stamp == [NoChange EXCEPT !.ofa = "SET"]
             next  == [req[r] EXCEPT !.pc = "patch"]
  <2>1. /\ stamp \in Patches /\ stamp.to = Keep /\ stamp.stage = Keep /\ stamp.ofa = "SET"
    BY IdleType DEF Patches, NoChange
  <2>2. StoreStep
    BY <1>1, <1>3, <2>1, PatchStep DEF SetOwnerFirstApprovedAt, Earned
  <2>3. risk'.ofa = "SET"
    BY <1>3, <2>1 DEF SetOwnerFirstApprovedAt, UpdateRisk, Set, Keep
  <2>4. next.pc = "patch" /\ next.patch = req[r].patch
    BY <1>1 DEF ReqStates
  <2>5. Earned(next.patch, risk'.ofa, signedOff', planStatus')
    BY <1>1, <1>3, <2>3, <2>4 DEF SetOwnerFirstApprovedAt, Justified, Earned, Forward
  <2> QED
    BY <1>3, <2>2, <2>4, <2>5 DEF SetOwnerFirstApprovedAt, Justifies, Justified
<1>4. CASE PatchRisk(r)
  <2>1. StoreStep
    BY <1>1, <1>4, PatchStep DEF PatchRisk, Justified
  <2>2. \A ofa, signed, plans : /\ Justified(Idle, ofa, signed, plans)
                                /\ Justified([Idle EXCEPT !.pc = "listOpen"], ofa, signed, plans)
    BY DEF Justified, Idle, NoChange
  <2> QED
    BY <1>4, <2>1, <2>2 DEF PatchRisk, Justifies
<1>5. CASE ResolveEscalation(r)
  <2>1. PICK e \in req[r].todo :
          /\ UpdateRiskEscalation(e)
          /\ Continue(r, IF req[r].todo = {e} THEN Idle ELSE [req[r] EXCEPT !.todo = @ \ {e}])
    BY <1>5 DEF ResolveEscalation
  <2>2. StoreStep
    BY <1>1, <2>1, NeutralStep DEF UpdateRiskEscalation
  <2>3. Justified([req[r] EXCEPT !.todo = @ \ {e}], risk'.ofa, signedOff', planStatus')
    BY <1>1, <1>5 DEF ResolveEscalation, Justified, ReqStates
  <2> QED
    BY <2>1, <2>2, <2>3, NothingPending DEF Justifies
<1>6. CASE ReescalateRisk(r) \/ FlipEscalated(r) \/ CommentEscalation(r)
  <2>1. \/ \E resolved : EscalateRow(resolved)
        \/ \E e : AnswerEscalation(e)
        \/ UNCHANGED storeVars
    BY <1>6 DEF ReescalateRisk, Reescalate, FlipEscalated, CommentEscalation
  <2>2. StoreStep
    BY <1>1, <2>1, EscalationStep, ReadStep
  <2> QED
    BY <1>2, <1>6, <2>2 DEF ReescalateRisk, FlipEscalated, CommentEscalation
<1>7. CASE FinishPlan(r)
  <2>1. Done(planStatus) => Done(planStatus')
    BY <1>1, <1>7 DEF FinishPlan, CompleteRiskActionPlan, Done, storeVars
  <2>2. StoreStep
    BY <1>1, <1>7, <2>1, NeutralStep DEF FinishPlan, CompleteRiskActionPlan, storeVars
  <2> QED
    BY <1>2, <1>7, <2>2 DEF FinishPlan
<1>8. CASE DeleteEvidenceRow(r)
  <2>1. StoreStep
    BY <1>1, <1>8, NeutralStep DEF DeleteEvidenceRow, DeleteRiskEvidence
  <2> QED
    BY <1>2, <1>8, <2>1 DEF DeleteEvidenceRow
<1> QED
  BY <1>3, <1>4, <1>5, <1>6, <1>7, <1>8

LEMMA CallStep ==
  ASSUME IInv, AssessRisk \/ ActionPlanCall \/ DayPasses
  PROVE  StoreStep /\ req' = req
<1>1. /\ risk \in Risks /\ planStatus \in [Plans -> RowStates]
      /\ Consistent(risk, signedOff, planStatus)
  BY DEF IInv, TypeOK, StoreTypeOK
<1>2. CASE AssessRisk
  <2>1. /\ risk'.status = risk.status /\ risk'.stage = risk.stage /\ risk'.ofa = risk.ofa
        /\ signedOff' = signedOff /\ planStatus' = planStatus
    BY <1>1, <1>2 DEF AssessRisk, CreateRiskAssessment, Risks
  <2> QED
    BY <1>1, <1>2, <2>1, NeutralStep DEF AssessRisk
<1>3. CASE ActionPlanCall
  <2>1. risk' = risk /\ signedOff' = signedOff
    BY <1>3 DEF ActionPlanCall, CreateRiskActionPlan, UpdateRiskActionStep, CreateRiskEvidence
  <2>2. Done(planStatus) => Done(planStatus')
    BY <1>1, <1>3 DEF ActionPlanCall, CreateRiskActionPlan, UpdateRiskActionStep,
       CreateRiskEvidence, Done
  <2> QED
    BY <1>1, <1>3, <2>1, <2>2, NeutralStep DEF ActionPlanCall
<1>4. CASE DayPasses
  <2>1. /\ risk'.status = risk.status /\ risk'.stage = risk.stage /\ risk'.ofa = risk.ofa
        /\ signedOff' = signedOff /\ planStatus' = planStatus
    BY <1>1, <1>4 DEF DayPasses, Risks
  <2> QED
    BY <1>1, <1>4, <2>1, NeutralStep DEF DayPasses
<1> QED
  BY <1>2, <1>3, <1>4

-----------------------------------------------------------------------------
(* The invariant is inductive, and implies the properties of the runs.       *)

\* A step that leaves what r holds justified leaves every request justified.
LEMMA RequestStep ==
  ASSUME IInv, TypeOK', NEW r \in Requests, StoreStep, Justifies(r)
  PROVE  IInv'
<1>1. ASSUME NEW q \in Requests PROVE Justified(req'[q], risk'.ofa, signedOff', planStatus')
  <2>1. PICK next : Continue(r, next) /\ Justified(next, risk'.ofa, signedOff', planStatus')
    BY DEF Justifies
  <2>2. req'[q] = IF q = r THEN next ELSE req[q]
    BY <2>1 DEF Continue, IInv, TypeOK
  <2> QED
    BY <2>1, <2>2, JustifiedStable DEF IInv, StoreStep
<1> QED
  BY <1>1 DEF IInv, StoreStep

LEMMA InitInvariant == Init => IInv
<1> SUFFICES ASSUME Init PROVE IInv
  OBVIOUS
<1>1. /\ risk.status = "PENDING_RISK_OWNER_APPROVAL" /\ risk.stage = NoStage /\ signedOff = {}
  BY DEF Init, CreateRisk
<1>2. Consistent(risk, signedOff, planStatus)
  BY <1>1 DEF Consistent, RequiredSignOffs, OwnerStages, InRemediation, ClosurePath,
     CompletionStages, NoStage
<1>3. \A r \in Requests : Justified(req[r], risk.ofa, signedOff, planStatus)
  BY NothingPending DEF Init
<1> QED
  BY <1>2, <1>3, InitType DEF IInv

LEMMA NextInvariant == IInv /\ [Next]_vars => IInv'
<1> SUFFICES ASSUME IInv, [Next]_vars PROVE IInv'
  OBVIOUS
<1>1. TypeOK'
  BY NextType DEF IInv
<1>2. ASSUME NEW r \in Requests, Serve(r) PROVE StoreStep /\ Justifies(r)
  <2>1. CASE OwnerApprove(r) \/ ManagementApprove(r) \/ Approve(r) \/ Reject(r) \/ Resubmit(r)
               \/ Close(r) \/ Cancel(r) \/ Update(r) \/ Complete(r)
    BY <2>1, DecisionEarned, BeginStep
  <2>2. CASE EscalateRisk(r) \/ JobList(r) \/ Comment(r) \/ CompletePlan(r) \/ DeleteEvidence(r)
    BY <2>2, StartEarned, BeginStep
  <2>3. CASE PatchRefused(r) \/ ListPlans(r) \/ ListOpenEscalations(r) \/ JobEscalate(r)
               \/ CountOpen(r) \/ CommentLookup(r) \/ ListSteps(r) \/ Abandon(r)
    <3>1. /\ UNCHANGED storeVars
          /\ \E next : Continue(r, next) /\ Justified(next, risk.ofa, signedOff, planStatus)
      BY <2>3, ReadEarned
    <3>2. StoreStep
      BY <3>1, ReadStep DEF IInv
    <3> QED
      BY <3>1, <3>2 DEF Justifies, storeVars
  <2>4. CASE SetOwnerFirstApprovedAt(r) \/ PatchRisk(r) \/ ResolveEscalation(r)
               \/ ReescalateRisk(r) \/ FlipEscalated(r) \/ CommentEscalation(r)
               \/ FinishPlan(r) \/ DeleteEvidenceRow(r)
    BY <2>4, WriteStep
  <2> QED
    BY <1>2, <2>1, <2>2, <2>3, <2>4 DEF Serve
<1>3. CASE \E r \in Requests : Serve(r)
  BY <1>1, <1>2, <1>3, RequestStep
<1>4. CASE AssessRisk \/ ActionPlanCall \/ DayPasses
  <2>1. StoreStep /\ req' = req
    BY <1>4, CallStep
  <2>2. \A r \in Requests : Justified(req'[r], risk'.ofa, signedOff', planStatus')
    BY <2>1, JustifiedStable DEF IInv, StoreStep
  <2> QED
    BY <1>1, <2>1, <2>2 DEF IInv, StoreStep
<1>5. CASE UNCHANGED vars
  BY <1>1, <1>5 DEF vars, IInv
<1> QED
  BY <1>3, <1>4, <1>5 DEF Next

\* What a request in flight may still write has been earned when it lands.
THEOREM Invariance == Spec => []IInv
BY InitInvariant, NextInvariant, PTL DEF Spec

\* No late PATCH, rejection or resubmission lets a risk skip an approval.
THEOREM SignOffsHold == Spec => []SignOffsBehindStatus
<1>1. IInv => SignOffsBehindStatus
  BY DEF IInv, Consistent, SignOffsBehindStatus
<1> QED
  BY <1>1, Invariance, PTL

\* The stage that Resubmit routes by is on record exactly while it is needed.
THEOREM RejectionStageHolds == Spec => []RejectionStageRecorded
<1>1. IInv => RejectionStageRecorded
  BY DEF IInv, Consistent, RejectionStageRecorded
<1> QED
  BY <1>1, Invariance, PTL

\* Every owner approval is stamped, although the stamp is a PATCH of its own.
THEOREM StampHolds == Spec => []StampBehindOwnerApproval
<1>1. IInv => StampBehindOwnerApproval
  BY DEF IInv, Consistent, StampBehindOwnerApproval
<1> QED
  BY <1>1, Invariance, PTL

\* No risk reaches the closure path without a completed plan.
THEOREM FinishedPlanHolds == Spec => []FinishedPlanBehindClosure
<1>1. IInv => FinishedPlanBehindClosure
  BY DEF IInv, Consistent, FinishedPlanBehindClosure, Done
<1> QED
  BY <1>1, Invariance, PTL

LEMMA TableAdmitsForward ==
  ASSUME NEW from, NEW to, Forward(from, to)
  PROVE  isValidRiskTransition(from, to)
BY DEF Forward, Entry, OwnerStages, isValidRiskTransition, allowedRiskTransitions

LEMMA TableAdmitsEarned ==
  ASSUME NEW p \in Patches, p.to # Keep, NEW ofa, NEW signed, NEW plans, Earned(p, ofa, signed, plans)
  PROVE  isValidRiskTransition(p.expect, p.to)
<1>1. CASE Forward(p.expect, p.to)
  BY <1>1, TableAdmitsForward
<1>2. CASE Submission(p)
  BY <1>2 DEF Submission, isValidRiskTransition, allowedRiskTransitions
<1>3. CASE Rejection(p)
  <2>1. p.expect \in {"PENDING_RISK_OWNER_APPROVAL", "PENDING_AMENDMENT",
                      "PENDING_MANAGEMENT_APPROVAL", "PENDING_COMPLIANCE_REVIEW",
                      "PENDING_OWNER_COMPLETION_APPROVAL", "PENDING_MANAGEMENT_CLOSURE_APPROVAL"}
    BY <1>3 DEF Rejection, RejectionStage, OwnerStages
  <2> QED
    BY <1>3, <2>1 DEF Rejection, isValidRiskTransition, allowedRiskTransitions
<1>4. CASE Resubmission(p, signed, plans)
  BY <1>4 DEF Resubmission, isValidRiskTransition, allowedRiskTransitions
<1> QED
  BY <1>1, <1>2, <1>3, <1>4 DEF Earned

\* The entity's table never refuses a move the backend has decided to make.
THEOREM TableAdmitsHolds == Spec => []TableAdmitsWorkflow
<1>1. ASSUME IInv PROVE TableAdmitsWorkflow
  <2> SUFFICES ASSUME NEW r \in Requests, req[r].patch.to # Keep
               PROVE  isValidRiskTransition(req[r].patch.expect, req[r].patch.to)
    BY DEF TableAdmitsWorkflow
  <2>1. /\ req[r].patch \in Patches
        /\ Justified(req[r], risk.ofa, signedOff, planStatus)
    BY <1>1 DEF IInv, TypeOK, ReqStates
  <2>2. CASE req[r].pc \in {"patch", "submit"}
    BY <2>1, <2>2, TableAdmitsEarned DEF Justified
  <2>3. CASE req[r].pc = "stamp"
    BY <2>1, <2>3, TableAdmitsForward DEF Justified, Forward
  <2>4. CASE req[r].pc = "listPlans"
    BY <2>1, <2>4 DEF Justified, Submission, isValidRiskTransition, allowedRiskTransitions
  <2> QED
    BY <2>1, <2>2, <2>3, <2>4 DEF Justified
<1> QED
  BY <1>1, Invariance, PTL

-----------------------------------------------------------------------------
(* Action properties.                                                        *)

\* What a request's step does to the plans: only FinishPlan completes one.
LEMMA PlanStep ==
  ASSUME [Next]_vars
  PROVE  \/ UNCHANGED planStatus
         \/ \E p \in Plans, ss \in SUBSET Steps : CreateRiskActionPlan(p, ss)
         \/ \E p : CompleteRiskActionPlan(p)
<1>1. ASSUME NEW r, Serve(r)
      PROVE  UNCHANGED planStatus \/ \E p : CompleteRiskActionPlan(p)
  <2>1. CASE FinishPlan(r)
    BY SMTT(30), <2>1 DEF FinishPlan, storeVars
  <2>2. CASE ~FinishPlan(r)
    BY <1>1, <2>2 DEF Serve, Begin, storeVars, OwnerApprove, SetOwnerFirstApprovedAt,
       ManagementApprove, Approve, Reject, Resubmit, Close, Cancel, Update, PatchRisk, PatchRefused,
       Complete, ListPlans, ListOpenEscalations, ResolveEscalation, EscalateRisk, ReescalateRisk,
       JobList, JobEscalate, CountOpen, FlipEscalated, Comment, CommentLookup, CommentEscalation,
       CompletePlan, ListSteps, DeleteEvidence, DeleteEvidenceRow, Abandon,
       UpdateRisk, UpdateRiskEscalation, Reescalate, EscalateRow, InsertEscalation,
       AnswerEscalation, DeleteRiskEvidence
  <2> QED
    BY <2>1, <2>2
<1> QED
  BY <1>1 DEF Next, vars, AssessRisk, CreateRiskAssessment, ActionPlanCall, UpdateRiskActionStep,
     CreateRiskEvidence, DayPasses

\* A plan is completed on evidence that is there at that moment.
THEOREM EvidenceHolds == Spec => EvidenceAtCompletion
<1>1. ASSUME TypeOK, [Next]_vars
      PROVE  [\A p \in Plans : planStatus[p] # "COMPLETED" /\ planStatus'[p] = "COMPLETED"
                                 => p \in evidence]_vars
  <2>1. planStatus \in [Plans -> RowStates]
    BY <1>1 DEF TypeOK, StoreTypeOK
  <2> QED
    BY <1>1, <2>1, PlanStep DEF CreateRiskActionPlan, CompleteRiskActionPlan
<1> QED
  BY <1>1, TypeCorrect, PTL DEF Spec, EvidenceAtCompletion

\* What ApprovedPlanIsFixed rests on: the first plan is never created again,
\* and an edit of its steps is guarded by the status its fate was decided from.
EditsGuarded ==
  /\ planStatus[FirstPlan] # "ABSENT"
  /\ \A r \in Requests : LET p == req[r].patch IN
       p.steps # {} => p.expect # Keep /\ (p.expect = "APPROVED" => p.to = "PENDING_AMENDMENT")
GuardedEdit(p) == p.steps # {} => p.expect # Keep /\ (p.expect = "APPROVED" => p.to = "PENDING_AMENDMENT")

\* A request sends what it decided to send, an edit, or nothing that has steps.
LEMMA RequestPatch ==
  ASSUME TypeOK, NEW r \in Requests, Serve(r), GuardedEdit(req[r].patch)
  PROVE  \E next : Continue(r, next) /\ GuardedEdit(next.patch)
<1>1. /\ req[r] \in ReqStates /\ risk.status \in Statuses
      /\ Keep \notin Statuses
  BY DEF TypeOK, StoreTypeOK, Risks, Keep, Statuses, OwnerStages, ClosurePath, InRemediation, Terminal
<1>2. \A from, to, pc : Patching(pc, Transition(from, to)).patch.steps = {}
  BY DEF Patching, Idle, Transition, NoChange
<1>3. \A from, to, stage :
        Patching("patch", [Transition(from, to) EXCEPT !.stage = stage]).patch.steps = {}
  BY DEF Patching, Idle, Transition, NoChange
<1>4. \A e : GuardedEdit(Patching("patch", editPatch(e)).patch)
  <2>1. \A e : /\ editPatch(e).expect = risk.status /\ editPatch(e).steps = e.steps
               /\ risk.status = "APPROVED" /\ e.steps # {} => editPatch(e).to = "PENDING_AMENDMENT"
    BY DEF editPatch, editBody, restrictedChanged, NoChange
  <2> QED
    BY <1>1, <2>1, PatchingFields DEF GuardedEdit
<1>5. \A pc, todo, plan : /\ Idle.patch.steps = {} /\ Patching(pc, NoChange).patch.steps = {}
                          /\ [Idle EXCEPT !.pc = pc].patch.steps = {}
                          /\ [Idle EXCEPT !.pc = pc, !.todo = todo].patch.steps = {}
                          /\ [Idle EXCEPT !.pc = pc, !.plan = plan].patch.steps = {}
  BY DEF Idle, Patching, NoChange
<1>6. \A pc, todo : /\ [req[r] EXCEPT !.pc = pc].patch = req[r].patch
                    /\ [req[r] EXCEPT !.todo = todo].patch = req[r].patch
  BY <1>1 DEF ReqStates
<1>7. CASE OwnerApprove(r) \/ ManagementApprove(r) \/ Approve(r) \/ Close(r) \/ Cancel(r) \/ Complete(r)
  BY <1>2, <1>7 DEF OwnerApprove, ManagementApprove, Approve, Close, Cancel, Complete,
     Begin, Continue, GuardedEdit
<1>8. CASE Reject(r) \/ Resubmit(r)
  <2>1. \E op, next : Begin(r, op, next) /\ next.patch.steps = {}
    BY <1>3, <1>8 DEF Reject, Resubmit
  <2> QED
    BY <2>1 DEF Begin, Continue, GuardedEdit
<1>9. CASE Update(r)
  BY <1>4, <1>9 DEF Update, Begin, Continue
<1>10. CASE EscalateRisk(r) \/ JobList(r) \/ Comment(r) \/ CompletePlan(r) \/ DeleteEvidence(r)
  <2>1. \E op, next : Begin(r, op, next) /\ next.patch.steps = {}
    BY <1>5, <1>10 DEF EscalateRisk, JobList, Comment, CompletePlan, DeleteEvidence
  <2> QED
    BY <2>1 DEF Begin, Continue, GuardedEdit
<1>11. CASE \/ SetOwnerFirstApprovedAt(r) \/ ListPlans(r) \/ ResolveEscalation(r)
            \/ CommentLookup(r) \/ ListSteps(r)
  <2>1. \E next : Continue(r, next) /\ (next.patch.steps = {} \/ next.patch = req[r].patch)
    <3>1. CASE SetOwnerFirstApprovedAt(r)
      BY <1>6, <3>1 DEF SetOwnerFirstApprovedAt
    <3>2. CASE ListPlans(r)
      BY <1>5, <1>6, <3>2 DEF ListPlans, End
    <3>3. CASE ResolveEscalation(r)
      BY <1>5, <1>6, <3>3 DEF ResolveEscalation
    <3>4. CASE CommentLookup(r)
      BY <1>5, <1>6, <3>4 DEF CommentLookup
    <3>5. CASE ListSteps(r)
      BY <1>5, <1>6, <3>5 DEF ListSteps
    <3> QED
      BY <1>11, <3>1, <3>2, <3>3, <3>4, <3>5
  <2> QED
    BY <2>1 DEF GuardedEdit
<1>12. CASE \/ PatchRisk(r) \/ PatchRefused(r) \/ ListOpenEscalations(r) \/ ReescalateRisk(r)
            \/ JobEscalate(r) \/ CountOpen(r) \/ FlipEscalated(r) \/ CommentEscalation(r)
            \/ FinishPlan(r) \/ DeleteEvidenceRow(r) \/ Abandon(r)
  <2>1. CASE PatchRisk(r)
    BY <1>5, <2>1 DEF PatchRisk, GuardedEdit
  <2>2. CASE ListOpenEscalations(r)
    BY <1>5, <2>2 DEF ListOpenEscalations, GuardedEdit
  <2>3. CASE JobEscalate(r)
    BY <1>5, <2>3 DEF JobEscalate, GuardedEdit
  <2>4. CASE CountOpen(r)
    BY <1>5, <2>4 DEF CountOpen, GuardedEdit
  <2>5. End(r) => \E next : Continue(r, next) /\ GuardedEdit(next.patch)
    BY <1>5 DEF End, GuardedEdit
  <2> QED
    BY <1>12, <2>1, <2>2, <2>3, <2>4, <2>5 DEF PatchRefused, ReescalateRisk, FlipEscalated,
       CommentEscalation, FinishPlan, DeleteEvidenceRow, Abandon
<1> QED
  BY <1>7, <1>8, <1>9, <1>10, <1>11, <1>12 DEF Serve

LEMMA EditsGuardedInvariant == Spec => [](TypeOK /\ EditsGuarded)
<1>1. Init => EditsGuarded
  BY FirstPlanAssumption DEF Init, CreateRisk, EditsGuarded, GuardedEdit, Idle, NoChange
<1>2. ASSUME TypeOK, EditsGuarded, [Next]_vars PROVE EditsGuarded'
  <2>1. planStatus'[FirstPlan] # "ABSENT"
    BY <1>2, PlanStep, FirstPlanAssumption DEF EditsGuarded, TypeOK, StoreTypeOK,
       CreateRiskActionPlan, CompleteRiskActionPlan
  <2>2. ASSUME NEW q \in Requests PROVE GuardedEdit(req'[q].patch)
    <3>1. GuardedEdit(req[q].patch)
      BY <1>2 DEF EditsGuarded, GuardedEdit
    <3>2. CASE \E r \in Requests : Serve(r)
      <4>1. PICK r \in Requests : Serve(r)
        BY <3>2
      <4>2. GuardedEdit(req[r].patch)
        BY <1>2 DEF EditsGuarded, GuardedEdit
      <4>3. PICK next : Continue(r, next) /\ GuardedEdit(next.patch)
        BY <1>2, <4>1, <4>2, RequestPatch
      <4>4. req'[q] = IF q = r THEN next ELSE req[q]
        BY <1>2, <4>3 DEF Continue, TypeOK
      <4> QED
        BY <3>1, <4>3, <4>4
    <3>3. CASE req' = req
      BY <3>1, <3>3
    <3> QED
      BY <1>2, <3>2, <3>3 DEF Next, vars, AssessRisk, ActionPlanCall, DayPasses
  <2> QED
    BY <2>1, <2>2 DEF EditsGuarded, GuardedEdit
<1> QED
  BY <1>1, <1>2, InitType, NextType, PTL DEF Spec

\* What a step does to the planned steps.
LEMMA PlannedStepsStep ==
  ASSUME TypeOK, EditsGuarded, [Next]_vars
  PROVE  \/ PlannedSteps' = PlannedSteps
         \/ \E r \in Requests : UpdateRisk(req[r].patch) /\ req[r].patch.steps # {}
<1>1. stepStatus' = stepStatus => PlannedSteps' = PlannedSteps
  BY DEF PlannedSteps
<1>2. ASSUME NEW r \in Requests, Serve(r), PlannedSteps' # PlannedSteps
      PROVE  UpdateRisk(req[r].patch) /\ req[r].patch.steps # {}
  <2>1. CASE PatchRisk(r)
    BY SMTT(30), <1>1, <1>2, <2>1 DEF PatchRisk, UpdateRisk
  <2>2. CASE ~PatchRisk(r)
    <3>1. UpdateRisk([NoChange EXCEPT !.ofa = "SET"]) => stepStatus' = stepStatus
      BY DEF UpdateRisk, NoChange
    <3> QED
      BY <1>1, <1>2, <2>2, <3>1 DEF Serve, Begin, storeVars, OwnerApprove, SetOwnerFirstApprovedAt,
         ManagementApprove, Approve, Reject, Resubmit, Close, Cancel, Update, PatchRefused,
         Complete, ListPlans, ListOpenEscalations, ResolveEscalation, EscalateRisk, ReescalateRisk,
         JobList, JobEscalate, CountOpen, FlipEscalated, Comment, CommentLookup, CommentEscalation,
         CompletePlan, ListSteps, FinishPlan, DeleteEvidence, DeleteEvidenceRow, Abandon,
         UpdateRiskEscalation, Reescalate, EscalateRow, InsertEscalation, AnswerEscalation,
         CompleteRiskActionPlan, DeleteRiskEvidence
  <2> QED
    BY <2>1, <2>2
<1>3. CASE ActionPlanCall
  <2>1. stepStatus \in [Plans -> [Steps -> RowStates]] /\ planStatus[FirstPlan] # "ABSENT"
    BY DEF TypeOK, StoreTypeOK, EditsGuarded
  <2>2. CASE \E p \in Plans, ss \in SUBSET Steps : CreateRiskActionPlan(p, ss)
    BY <2>1, <2>2, FirstPlanAssumption DEF CreateRiskActionPlan, PlannedSteps
  <2>3. CASE \E p \in Plans, s \in Steps, v \in {"PENDING", "COMPLETED"} : UpdateRiskActionStep(p, s, v)
    <3>1. PICK p \in Plans, s \in Steps, v \in {"PENDING", "COMPLETED"} : UpdateRiskActionStep(p, s, v)
      BY <2>3
    <3>2. \A t \in Steps : (stepStatus'[FirstPlan][t] = "ABSENT") <=> (stepStatus[FirstPlan][t] = "ABSENT")
      BY <2>1, <3>1, FirstPlanAssumption DEF UpdateRiskActionStep
    <3> QED
      BY <3>2 DEF PlannedSteps
  <2>4. CASE \E p \in Plans : CreateRiskEvidence(p)
    BY <1>1, <2>4 DEF CreateRiskEvidence
  <2> QED
    BY <1>3, <2>2, <2>3, <2>4 DEF ActionPlanCall
<1> QED
  BY <1>1, <1>2, <1>3 DEF Next, vars, AssessRisk, CreateRiskAssessment, DayPasses

\* The approved plan of an APPROVED risk changes only on its way back to the owner.
THEOREM ApprovedPlanHolds == Spec => ApprovedPlanIsFixed
<1>1. ASSUME TypeOK, EditsGuarded, [Next]_vars
      PROVE  [risk.status = "APPROVED" /\ PlannedSteps' # PlannedSteps
                => risk'.status = "PENDING_AMENDMENT"]_vars
  <2> SUFFICES ASSUME risk.status = "APPROVED", PlannedSteps' # PlannedSteps
               PROVE  risk'.status = "PENDING_AMENDMENT"
    OBVIOUS
  <2>1. PICK r \in Requests : UpdateRisk(req[r].patch) /\ req[r].patch.steps # {}
    BY <1>1, PlannedStepsStep
  <2>2. req[r].patch.expect = "APPROVED" /\ req[r].patch.to = "PENDING_AMENDMENT"
    BY <1>1, <2>1 DEF EditsGuarded, GuardedEdit, UpdateRisk, PatchAccepted
  <2> QED
    BY <2>1, <2>2 DEF UpdateRisk, Set, Keep
<1> QED
  BY <1>1, EditsGuardedInvariant, PTL DEF Spec, ApprovedPlanIsFixed

-----------------------------------------------------------------------------
(* Refinement: overlapping requests move the risk as single decisions would. *)

\* The instance reads the tables of RiskStatus as RiskWorkflow does.
LEMMA SameTables ==
  /\ \A from, to : Lifecycle!SignOff(from, to) = SignOff(from, to)
  /\ \A from : Lifecycle!RejectionStage(from) = RejectionStage(from)
  /\ Lifecycle!NoStage = NoStage /\ Lifecycle!Statuses = Statuses
  /\ Lifecycle!OwnerStages = OwnerStages
BY DEF Lifecycle!SignOff, SignOff, Lifecycle!RejectionStage, RejectionStage, Lifecycle!NoStage,
   NoStage, Lifecycle!Statuses, Statuses, Lifecycle!OwnerStages, OwnerStages,
   Lifecycle!ClosurePath, ClosurePath, Lifecycle!InRemediation, InRemediation,
   Lifecycle!Terminal, Terminal

\* The effect of a write on what the lifecycle sees.
LEMMA Moves ==
  ASSUME NEW from, NEW to, risk.status = from, risk'.status = to,
         signedOff' = signedOff \cup SignOff(from, to)
  PROVE  Lifecycle!Move(from, to)
BY SameTables DEF Lifecycle!Move

\* A PATCH that is earned is one decision of the lifecycle, or moves nothing.
LEMMA PatchLifecycle ==
  ASSUME risk \in Risks, NEW p \in Patches, UpdateRisk(p),
         Earned(p, risk.ofa, signedOff, planStatus)
  PROVE  [Lifecycle!Next]_(Lifecycle!vars)
<1>1. /\ risk'.status = Set(p.to, risk.status)
      /\ signedOff' = signedOff \cup SignOff(risk.status, risk'.status)
      /\ Keep \notin Statuses
  BY DEF UpdateRisk, Keep, Statuses, OwnerStages, ClosurePath, InRemediation, Terminal
<1>2. p.to # Keep => risk.status = p.expect \/ p.expect = Keep
  BY DEF UpdateRisk, PatchAccepted
<1>3. CASE p.to = Keep
  <2>1. risk'.status = risk.status /\ signedOff' = signedOff
    BY <1>1, <1>3, NoSignOff DEF Set
  <2> QED
    BY <2>1 DEF Lifecycle!vars
<1>4. CASE p.to # Keep /\ p.expect # Keep
  <2>1. p.expect = risk.status /\ Lifecycle!Move(risk.status, p.to)
    BY <1>1, <1>2, <1>4, Moves DEF Set
  <2>2. CASE Forward(p.expect, p.to)
    BY <2>1, <2>2, SameTables DEF Forward, Entry, Lifecycle!Next, Lifecycle!OwnerSigns,
       Lifecycle!ManagementSigns, Lifecycle!ComplianceSigns, Lifecycle!Amended, Lifecycle!Closed,
       Lifecycle!Cancelled
  <2>3. CASE Submission(p)
    BY <2>1, <2>3 DEF Submission, Lifecycle!Next, Lifecycle!Submitted
  <2>4. CASE Rejection(p)
    BY <2>1, <2>4, SameTables DEF Rejection, Lifecycle!Next, Lifecycle!Rejected
  <2>5. CASE Resubmission(p, signedOff, planStatus)
    <3>1. /\ RequiredSignOffs("PENDING_OWNER_COMPLETION_APPROVAL") = {"OWNER", "COMPLIANCE"}
          /\ RequiredSignOffs("PENDING_MANAGEMENT_CLOSURE_APPROVAL") =
               {"OWNER", "COMPLIANCE", "COMPLETION_OWNER"}
      BY DEF RequiredSignOffs, InRemediation
    <3> QED
      BY <2>1, <2>5, <3>1 DEF Resubmission, Lifecycle!Next, Lifecycle!Resubmitted
  <2> QED
    BY <1>4, <2>2, <2>3, <2>4, <2>5 DEF Earned
<1>5. CASE p.expect = Keep /\ p.to # Keep
  BY <1>1, <1>5, SameTables DEF Earned, Forward, Entry, OwnerStages, Submission, Rejection,
     Resubmission, Keep
<1> QED
  BY <1>3, <1>4, <1>5

LEMMA LifecycleStep ==
  ASSUME IInv, [Next]_vars
  PROVE  [Lifecycle!Next]_(Lifecycle!vars)
<1>1. /\ risk \in Risks
      /\ \A r \in Requests : /\ req[r] \in ReqStates /\ req[r].patch \in Patches
                             /\ Justified(req[r], risk.ofa, signedOff, planStatus)
  BY DEF IInv, TypeOK, StoreTypeOK, ReqStates
<1>2. risk'.status = risk.status /\ signedOff' = signedOff => UNCHANGED Lifecycle!vars
  BY DEF Lifecycle!vars
<1>3. ASSUME NEW r \in Requests, Serve(r) PROVE [Lifecycle!Next]_(Lifecycle!vars)
  <2>1. CASE PatchRisk(r)
    BY <1>1, <2>1, PatchLifecycle DEF PatchRisk, Justified
  <2>2. CASE SetOwnerFirstApprovedAt(r)
    <3> DEFINE stamp == [NoChange EXCEPT !.ofa = "SET"]
    <3>1. stamp \in Patches /\ stamp.to = Keep /\ stamp.stage = Keep
      BY IdleType DEF Patches, NoChange
    <3> QED
      BY <1>1, <2>2, <3>1, PatchLifecycle DEF SetOwnerFirstApprovedAt, Earned
  <2>3. ASSUME NEW resolved, EscalateRow(resolved) PROVE Lifecycle!Next
    <3>1. /\ risk.status = "APPROVED" /\ risk'.status = "ESCALATED"
          /\ signedOff' = signedOff /\ SignOff("APPROVED", "ESCALATED") = {}
      BY <1>1, <2>3 DEF EscalateRow, InsertEscalation, Risks, SignOff, OwnerStages
    <3> QED
      BY <3>1, Moves DEF Lifecycle!Next, Lifecycle!Escalated
  <2>4. ASSUME NEW e, AnswerEscalation(e) PROVE Lifecycle!Next
    <3>1. /\ risk.status = "ESCALATED" /\ risk'.status = "APPROVED"
          /\ signedOff' = signedOff /\ SignOff("ESCALATED", "APPROVED") = {}
      BY <1>1, <2>4 DEF AnswerEscalation, Risks, SignOff, OwnerStages
    <3> QED
      BY <3>1, Moves DEF Lifecycle!Next, Lifecycle!Answered
  <2>5. CASE ReescalateRisk(r) \/ FlipEscalated(r) \/ CommentEscalation(r)
    BY <1>2, <2>3, <2>4, <2>5 DEF ReescalateRisk, Reescalate, FlipEscalated, CommentEscalation, storeVars
  <2>6. CASE ResolveEscalation(r) \/ FinishPlan(r) \/ DeleteEvidenceRow(r)
    BY <1>2, <2>6 DEF ResolveEscalation, UpdateRiskEscalation, FinishPlan, CompleteRiskActionPlan,
       DeleteEvidenceRow, DeleteRiskEvidence, storeVars
  <2>7. CASE OwnerApprove(r) \/ ManagementApprove(r) \/ Approve(r) \/ Reject(r) \/ Resubmit(r)
               \/ Close(r) \/ Cancel(r) \/ Update(r) \/ Complete(r)
    BY <1>2, <2>7, DecisionEarned DEF Begin, storeVars
  <2>8. CASE EscalateRisk(r) \/ JobList(r) \/ Comment(r) \/ CompletePlan(r) \/ DeleteEvidence(r)
    BY <1>2, <2>8, StartEarned DEF Begin, storeVars
  <2>9. CASE PatchRefused(r) \/ ListPlans(r) \/ ListOpenEscalations(r) \/ JobEscalate(r)
               \/ CountOpen(r) \/ CommentLookup(r) \/ ListSteps(r) \/ Abandon(r)
    BY <1>2, <2>9, ReadEarned DEF storeVars
  <2> QED
    BY <1>3, <2>1, <2>2, <2>5, <2>6, <2>7, <2>8, <2>9 DEF Serve
<1>4. CASE AssessRisk \/ ActionPlanCall \/ DayPasses
  <2>1. risk'.status = risk.status /\ signedOff' = signedOff
    BY <1>1, <1>4 DEF AssessRisk, CreateRiskAssessment, ActionPlanCall, CreateRiskActionPlan,
       UpdateRiskActionStep, CreateRiskEvidence, DayPasses, Risks
  <2> QED
    BY <1>2, <2>1
<1>5. CASE UNCHANGED vars
  BY <1>2, <1>5 DEF vars
<1> QED
  BY <1>3, <1>4, <1>5 DEF Next

\* Every behaviour of the workflow, whatever its requests read and when they
\* write, is a behaviour of the lifecycle.
THEOREM Refinement == Spec => ImplementsLifecycle
<1>1. Init => Lifecycle!Init
  BY DEF Init, CreateRisk, Lifecycle!Init
<1> QED
  BY <1>1, LifecycleStep, Invariance, PTL DEF Spec, ImplementsLifecycle, Lifecycle!Spec

-----------------------------------------------------------------------------
(* Escalations that can be answered.  A submission resolves what it lists    *)
(* after it has moved the risk; as long as the risk does not come back to    *)
(* remediation meanwhile, no escalation of an ESCALATED risk is among that.  *)

\* A revision of the completion that sends the risk to the start of the chain: Resubmit
\* never asks for it, unless it has read the stage of a rejection before.
LateResubmission == risk.stage \in CompletionStages /\ risk'.status = "PENDING_RISK_OWNER_APPROVAL"

\* The risk has been submitted, and has not been re-approved since.
Submitted(rk) ==
  \/ rk.status \in ClosurePath
  \/ rk.status \in {"PENDING_REVISION", "CANCELLED"} /\ rk.stage \in CompletionStages

Resolving(q) == q.pc \in {"listOpen", "resolve"}

\* A request lists and resolves escalations only of a submitted risk.
Listed(q, rk) == /\ q.pc = "submit" => Submission(q.patch)
                 /\ Resolving(q) => Submitted(rk)

EscInv == EscalatedCanBeAnswered /\ \A r \in Requests : Listed(req[r], risk)

\* Where a submitted risk goes by a PATCH that is earned.
LEMMA SubmittedMoves ==
  ASSUME NEW from, from \in ClosurePath \cup {"PENDING_REVISION", "CANCELLED"}
  PROVE  /\ \A to : Forward(from, to) => to \in ClosurePath \/ (from = "PENDING_REVISION" /\ to = "CANCELLED")
         /\ RejectionStage(from) # NoStage => RejectionStage(from) \in CompletionStages
         /\ from \notin {"APPROVED", "ESCALATED"}
<1>1. from \notin OwnerStages /\ from \notin {"APPROVED", "ESCALATED"}
  BY DEF ClosurePath, OwnerStages
<1>2. ASSUME NEW to, Forward(from, to)
      PROVE  to \in ClosurePath \/ (from = "PENDING_REVISION" /\ to = "CANCELLED")
  <2>1. ~Entry(from, to) /\ from \notin {"PENDING_MANAGEMENT_APPROVAL", "PENDING_COMPLIANCE_REVIEW",
                                          "PENDING_RISK_OWNER_APPROVAL", "APPROVED"}
    BY <1>1 DEF Entry, ClosurePath, OwnerStages
  <2>2. \/ to \in {"PENDING_MANAGEMENT_CLOSURE_APPROVAL", "PENDING_COMPLIANCE_CLOSURE", "CLOSED"}
        \/ from = "PENDING_REVISION" /\ to = "CANCELLED"
    BY <1>2, <2>1 DEF Forward
  <2> QED
    BY <2>2 DEF ClosurePath
<1>3. RejectionStage(from) # NoStage => RejectionStage(from) \in CompletionStages
  BY <1>1 DEF RejectionStage, ClosurePath, CompletionStages, OwnerStages
<1> QED
  BY <1>1, <1>2, <1>3

\* A PATCH that is earned never escalates the risk, and leaves a submitted risk submitted.
LEMMA PatchSubmitted ==
  ASSUME risk \in Risks, NEW p \in Patches, UpdateRisk(p), Earned(p, risk.ofa, signedOff, planStatus)
  PROVE  /\ risk'.status = "ESCALATED" => risk.status = "ESCALATED"
         /\ Submitted(risk) /\ ~LateResubmission => Submitted(risk')
         /\ Submission(p) => Submitted(risk')
<1>1. /\ risk'.status = Set(p.to, risk.status) /\ risk'.stage = Set(p.stage, risk.stage)
      /\ p.expect \in {Keep, risk.status} /\ risk.status \in Statuses /\ Keep \notin Statuses
      /\ Keep \notin RejectionStages \cup {NoStage}
  BY DEF UpdateRisk, PatchAccepted, Risks, Keep, Statuses, OwnerStages, ClosurePath, InRemediation, Terminal,
     RejectionStages, CompletionStages, NoStage
<1>2. CASE p.to = Keep /\ p.stage = Keep
  <2>1. risk'.status = risk.status /\ risk'.stage = risk.stage
    BY <1>1, <1>2 DEF Set
  <2>2. ~Submission(p)
    BY <1>2 DEF Submission, Keep
  <2> QED
    BY <2>1, <2>2 DEF Submitted
<1>3. CASE p.stage = Keep /\ Forward(p.expect, p.to)
  <2>1. p.expect = risk.status /\ p.to \notin {Keep, "ESCALATED", "PENDING_OWNER_COMPLETION_APPROVAL"}
    BY <1>1, <1>3 DEF Forward, Entry, Keep, OwnerStages
  <2>2. risk'.status = p.to /\ risk'.stage = risk.stage
    BY <1>1, <1>3, <2>1 DEF Set
  <2>3. ASSUME Submitted(risk) PROVE Submitted(risk')
    <3>1. risk.status \in ClosurePath \cup {"PENDING_REVISION", "CANCELLED"}
      BY <2>3 DEF Submitted
    <3>2. p.to \in ClosurePath \/ (risk.status = "PENDING_REVISION" /\ p.to = "CANCELLED")
      BY <1>3, <2>1, <3>1, SubmittedMoves
    <3>3. "PENDING_REVISION" \notin ClosurePath
      BY DEF ClosurePath
    <3> QED
      BY <2>2, <2>3, <3>2, <3>3 DEF Submitted
  <2>4. ~Submission(p)
    BY <2>1 DEF Submission
  <2> QED
    BY <2>1, <2>2, <2>3, <2>4
<1>4. CASE Submission(p)
  <2>1. risk'.status = "PENDING_OWNER_COMPLETION_APPROVAL"
    BY <1>1, <1>4 DEF Submission, Set, Keep
  <2> QED
    BY <2>1 DEF Submitted, ClosurePath
<1>5. CASE Rejection(p)
  <2>1. p.expect = risk.status /\ risk'.status = "PENDING_REVISION" /\ p.stage = RejectionStage(risk.status)
        /\ p.stage # NoStage
    BY <1>1, <1>5 DEF Rejection, Set, Keep
  <2>2. p.stage # Keep
    BY <2>1 DEF RejectionStage, Keep, NoStage
  <2>3. risk'.stage = p.stage
    BY <1>1, <2>2 DEF Set
  <2>4. Submitted(risk) => p.stage \in CompletionStages
    BY <2>1, SubmittedMoves DEF Submitted
  <2> QED
    BY <1>5, <2>1, <2>3, <2>4 DEF Submitted, Submission, Rejection
<1>6. CASE Resubmission(p, signedOff, planStatus)
  <2>1. p.expect = risk.status /\ risk.status = "PENDING_REVISION" /\ risk'.status = p.to
        /\ p.to \in {"PENDING_RISK_OWNER_APPROVAL", "PENDING_OWNER_COMPLETION_APPROVAL",
                     "PENDING_MANAGEMENT_CLOSURE_APPROVAL"}
    BY <1>1, <1>6 DEF Resubmission, Set, Keep
  <2>2. ASSUME Submitted(risk), ~LateResubmission PROVE p.to # "PENDING_RISK_OWNER_APPROVAL"
    BY <2>1, <2>2 DEF Submitted, LateResubmission, ClosurePath
  <2>3. p.to # "PENDING_RISK_OWNER_APPROVAL" => Submitted(risk')
    BY <2>1 DEF Submitted, ClosurePath
  <2> QED
    BY <1>6, <2>1, <2>2, <2>3 DEF Resubmission, Submission
<1> QED
  BY <1>2, <1>3, <1>4, <1>5, <1>6 DEF Earned

\* What a step does to the store, and to the request r that takes it.
StaysAnswerable == /\ Submitted(risk) => Submitted(risk')
                   /\ EscalatedCanBeAnswered'

StaysListed(r) == \E next : Continue(r, next) /\ Listed(next, risk')

LEMMA SameEscalations ==
  ASSUME EscalatedCanBeAnswered, risk'.status = risk.status, risk'.stage = risk.stage, escs' = escs
  PROVE  StaysAnswerable
BY DEF StaysAnswerable, Submitted, EscalatedCanBeAnswered

\* No handler begins with the submission itself or with its escalations.
LEMMA StartListed ==
  ASSUME NEW r \in Requests,
         \/ OwnerApprove(r) \/ ManagementApprove(r) \/ Approve(r) \/ Reject(r) \/ Resubmit(r)
         \/ Close(r) \/ Cancel(r) \/ Update(r) \/ Complete(r)
         \/ EscalateRisk(r) \/ JobList(r) \/ Comment(r) \/ CompletePlan(r) \/ DeleteEvidence(r)
  PROVE  \E op, next : Begin(r, op, next) /\ next.pc \notin {"submit", "listOpen", "resolve"}
<1>1. \A patch : \A pc \in {"patch", "stamp", "listPlans", "reescalate", "check"} :
        Patching(pc, patch).pc \notin {"submit", "listOpen", "resolve"}
  BY PatchingFields
<1>2. /\ \A todo : [Idle EXCEPT !.pc = "lookup", !.todo = todo].pc \notin {"submit", "listOpen", "resolve"}
      /\ \A plan : [Idle EXCEPT !.pc = "listSteps", !.plan = plan].pc \notin {"submit", "listOpen", "resolve"}
      /\ \A plan : [Idle EXCEPT !.pc = "delete", !.plan = plan].pc \notin {"submit", "listOpen", "resolve"}
  BY DEF Idle
<1>3. CASE OwnerApprove(r)
  <2>1. PICK op, to :
          \/ Begin(r, op, Patching(IF risk.ofa = "NULL" THEN "stamp" ELSE "patch",
                                   Transition(risk.status, to)))
          \/ Begin(r, op, Patching("patch", Transition(risk.status, to)))
    BY <1>3, Zenon DEF OwnerApprove
  <2> DEFINE patch == Transition(risk.status, to)
  <2>2. Begin(r, op, Patching("stamp", patch)) \/ Begin(r, op, Patching("patch", patch))
    BY <2>1
  <2> HIDE DEF patch
  <2> QED
    BY <1>1, <2>2
<1>4. CASE ManagementApprove(r) \/ Approve(r) \/ Close(r) \/ Cancel(r) \/ Complete(r)
  BY <1>1, <1>4 DEF ManagementApprove, Approve, Close, Cancel, Complete
<1>5. CASE Reject(r) \/ Resubmit(r) \/ Update(r)
  BY <1>1, <1>5 DEF Reject, Resubmit, Update
<1>6. CASE EscalateRisk(r) \/ JobList(r)
  BY <1>1, <1>6 DEF EscalateRisk, JobList
<1>7. CASE Comment(r)
  BY <1>2, <1>7, Zenon DEF Comment
<1>8. CASE CompletePlan(r)
  BY <1>2, <1>8, Zenon DEF CompletePlan
<1>9. CASE DeleteEvidence(r)
  BY <1>2, <1>9, Zenon DEF DeleteEvidence
<1> QED
  BY <1>3, <1>4, <1>5, <1>6, <1>7, <1>8, <1>9

LEMMA ReadListed ==
  ASSUME IInv, EscInv, NEW r \in Requests,
         PatchRefused(r) \/ ListPlans(r) \/ ListOpenEscalations(r) \/ JobEscalate(r)
           \/ CountOpen(r) \/ CommentLookup(r) \/ ListSteps(r) \/ Abandon(r)
  PROVE  UNCHANGED storeVars /\ \E next : Continue(r, next) /\ Listed(next, risk)
<1>1. UNCHANGED storeVars
  BY DEF PatchRefused, ListPlans, ListOpenEscalations, JobEscalate, CountOpen, CommentLookup,
     ListSteps, Abandon
<1>2. /\ req[r] \in ReqStates /\ Listed(req[r], risk)
      /\ Justified(req[r], risk.ofa, signedOff, planStatus)
  BY DEF IInv, TypeOK, EscInv
<1>3. /\ Listed(Idle, risk)
      /\ \A pc \in {"count", "flip"} : Listed(Patching(pc, NoChange), risk)
  BY PatchingFields DEF Listed, Resolving, Idle
<1>4. \A pc \in {"answer", "finish"} : Listed([req[r] EXCEPT !.pc = pc], risk)
  BY <1>2 DEF Listed, Resolving, ReqStates
<1>5. CASE ListPlans(r)
  <2>1. Listed([req[r] EXCEPT !.pc = "submit"], risk)
    BY <1>2, <1>5 DEF ListPlans, Justified, Listed, Resolving, ReqStates
  <2> QED
    BY <1>1, <1>3, <1>5, <2>1 DEF ListPlans, End
<1>6. CASE ListOpenEscalations(r)
  <2>1. Submitted(risk)
    BY <1>2, <1>6 DEF ListOpenEscalations, Listed, Resolving
  <2> DEFINE next == [Idle EXCEPT !.pc = "resolve", !.todo = OpenEscalations]
  <2>2. Listed(next, risk)
    BY <2>1 DEF Listed, Idle
  <2>3. Continue(r, IF OpenEscalations = {} THEN Idle ELSE next)
    BY <1>6 DEF ListOpenEscalations
  <2> HIDE DEF next
  <2> QED
    BY <1>1, <1>3, <2>2, <2>3
<1>7. CASE PatchRefused(r) \/ Abandon(r)
  BY <1>1, <1>3, <1>7 DEF PatchRefused, Abandon, End
<1>8. CASE JobEscalate(r) \/ CountOpen(r)
  BY <1>1, <1>3, <1>8 DEF JobEscalate, CountOpen
<1>9. CASE CommentLookup(r) \/ ListSteps(r)
  BY <1>1, <1>3, <1>4, <1>9 DEF CommentLookup, ListSteps
<1> QED
  BY <1>5, <1>6, <1>7, <1>8, <1>9

\* An escalated risk gets a row of its own, and an answered one leaves the status.
LEMMA EscalationAnswerable ==
  ASSUME risk \in Risks, escs \in [Escalations -> EscStates],
         (\E resolved : EscalateRow(resolved)) \/ (\E e : AnswerEscalation(e))
  PROVE  StaysAnswerable
<1>1. CASE \E resolved : EscalateRow(resolved)
  <2>1. PICK resolved : EscalateRow(resolved)
    BY <1>1
  <2>2. PICK e \in Escalations :
          escs' = [f \in Escalations |-> IF f = e THEN "OPEN"
                                         ELSE IF f \in resolved THEN "RESOLVED" ELSE escs[f]]
    BY <2>1 DEF EscalateRow, InsertEscalation
  <2>3. escs'[e] = "OPEN" /\ risk.status = "APPROVED"
    BY <2>1, <2>2 DEF EscalateRow
  <2>4. ~Submitted(risk)
    BY <2>3 DEF Submitted, ClosurePath
  <2> QED
    BY <2>3, <2>4 DEF StaysAnswerable, EscalatedCanBeAnswered
<1>2. CASE \E e : AnswerEscalation(e)
  <2>1. risk.status = "ESCALATED" /\ risk'.status = "APPROVED"
    BY <1>2 DEF AnswerEscalation, Risks
  <2> QED
    BY <2>1 DEF StaysAnswerable, Submitted, EscalatedCanBeAnswered, ClosurePath
<1> QED
  BY <1>1, <1>2

LEMMA PatchAnswerable ==
  ASSUME risk \in Risks, NEW p \in Patches, UpdateRisk(p), EscalatedCanBeAnswered,
         Earned(p, risk.ofa, signedOff, planStatus), ~LateResubmission
  PROVE  StaysAnswerable /\ (Submission(p) => Submitted(risk'))
<1>1. escs' = escs
  BY DEF UpdateRisk
<1> QED
  BY <1>1, PatchSubmitted DEF StaysAnswerable, EscalatedCanBeAnswered

LEMMA WriteListed ==
  ASSUME IInv, EscInv, NEW r \in Requests, ~LateResubmission,
         SetOwnerFirstApprovedAt(r) \/ PatchRisk(r) \/ ResolveEscalation(r) \/ ReescalateRisk(r)
           \/ FlipEscalated(r) \/ CommentEscalation(r) \/ FinishPlan(r) \/ DeleteEvidenceRow(r)
  PROVE  StaysAnswerable /\ StaysListed(r)
<1>1. /\ risk \in Risks /\ escs \in [Escalations -> EscStates]
      /\ req[r] \in ReqStates /\ req[r].patch \in Patches
      /\ Justified(req[r], risk.ofa, signedOff, planStatus)
      /\ EscalatedCanBeAnswered /\ Listed(req[r], risk)
  BY DEF IInv, TypeOK, StoreTypeOK, ReqStates, EscInv
<1>2. End(r) => StaysListed(r)
  <2>1. Listed(Idle, risk')
    BY DEF Listed, Resolving, Idle
  <2> QED
    BY <2>1 DEF End, StaysListed
<1>3. CASE SetOwnerFirstApprovedAt(r)
  <2> DEFINE stamp == [NoChange EXCEPT !.ofa = "SET"]
  <2>1. stamp \in Patches /\ stamp.to = Keep /\ stamp.stage = Keep
    BY IdleType DEF Patches, NoChange
  <2>2. Earned(stamp, risk.ofa, signedOff, planStatus)
    BY <2>1 DEF Earned
  <2>3. UpdateRisk(stamp)
    BY <1>3 DEF SetOwnerFirstApprovedAt
  <2>4. StaysAnswerable
    BY <1>1, <2>1, <2>2, <2>3, PatchAnswerable
  <2>5. Listed([req[r] EXCEPT !.pc = "patch"], risk')
    BY <1>1 DEF Listed, Resolving, ReqStates
  <2> QED
    BY <1>3, <2>4, <2>5 DEF SetOwnerFirstApprovedAt, StaysListed
<1>4. CASE PatchRisk(r)
  <2>1. StaysAnswerable /\ (Submission(req[r].patch) => Submitted(risk'))
    BY <1>1, <1>4, PatchAnswerable DEF PatchRisk, Justified
  <2>2. CASE req[r].pc = "submit"
    <3>1. Submitted(risk')
      BY <1>1, <2>1, <2>2 DEF Listed
    <3>2. Listed([Idle EXCEPT !.pc = "listOpen"], risk')
      BY <3>1 DEF Listed, Idle
    <3> QED
      BY <1>4, <2>1, <2>2, <3>2 DEF PatchRisk, StaysListed
  <2>3. CASE req[r].pc # "submit"
    BY <1>2, <1>4, <2>1, <2>3 DEF PatchRisk, End
  <2> QED
    BY <2>2, <2>3
<1>5. CASE ResolveEscalation(r)
  <2>1. PICK e \in req[r].todo :
          /\ UpdateRiskEscalation(e)
          /\ Continue(r, IF req[r].todo = {e} THEN Idle ELSE [req[r] EXCEPT !.todo = @ \ {e}])
    BY <1>5 DEF ResolveEscalation
  <2>2. Submitted(risk) /\ risk' = risk
    BY <1>1, <1>5, <2>1 DEF ResolveEscalation, Listed, Resolving, UpdateRiskEscalation
  <2>3. StaysAnswerable
    BY <2>2 DEF StaysAnswerable, Submitted, ClosurePath, EscalatedCanBeAnswered
  <2> DEFINE next == [req[r] EXCEPT !.todo = @ \ {e}]
  <2>4. Listed(next, risk')
    BY <1>1, <1>5, <2>2 DEF ResolveEscalation, Listed, ReqStates
  <2>5. Continue(r, next) => StaysListed(r)
    BY <2>4 DEF StaysListed
  <2> HIDE DEF next
  <2> QED
    BY <1>2, <2>1, <2>3, <2>5 DEF End, next
<1>6. CASE ReescalateRisk(r) \/ FlipEscalated(r) \/ CommentEscalation(r)
  <2>1. \/ (\E resolved : EscalateRow(resolved)) \/ (\E e : AnswerEscalation(e))
        \/ UNCHANGED storeVars
    BY <1>6 DEF ReescalateRisk, Reescalate, FlipEscalated, CommentEscalation
  <2>2. StaysAnswerable
    BY <1>1, <2>1, EscalationAnswerable, SameEscalations DEF storeVars
  <2> QED
    BY <1>2, <1>6, <2>2 DEF ReescalateRisk, FlipEscalated, CommentEscalation
<1>7. CASE FinishPlan(r) \/ DeleteEvidenceRow(r)
  <2>1. risk' = risk /\ escs' = escs
    BY <1>7 DEF FinishPlan, CompleteRiskActionPlan, DeleteEvidenceRow, DeleteRiskEvidence, storeVars
  <2> QED
    BY <1>1, <1>2, <1>7, <2>1, SameEscalations DEF FinishPlan, DeleteEvidenceRow
<1> QED
  BY <1>3, <1>4, <1>5, <1>6, <1>7

LEMMA CallAnswerable ==
  ASSUME IInv, EscInv, AssessRisk \/ ActionPlanCall \/ DayPasses
  PROVE  StaysAnswerable /\ req' = req
<1>1. risk \in Risks /\ EscalatedCanBeAnswered
  BY DEF IInv, TypeOK, StoreTypeOK, EscInv
<1>2. req' = req /\ escs' = escs /\ risk'.status = risk.status /\ risk'.stage = risk.stage
  <2>1. CASE AssessRisk
    BY <1>1, <2>1 DEF AssessRisk, CreateRiskAssessment, Risks
  <2>2. CASE ActionPlanCall
    BY <2>2 DEF ActionPlanCall, CreateRiskActionPlan, UpdateRiskActionStep, CreateRiskEvidence
  <2>3. CASE DayPasses
    BY <1>1, <2>3 DEF DayPasses, Risks
  <2> QED
    BY <2>1, <2>2, <2>3
<1> QED
  BY <1>1, <1>2, SameEscalations

LEMMA EscStep == IInv /\ EscInv /\ [Next]_vars /\ [~LateResubmission]_vars => EscInv'
<1> SUFFICES ASSUME IInv, EscInv, [Next]_vars, [~LateResubmission]_vars
             PROVE  EscInv'
  OBVIOUS
<1>1. CASE UNCHANGED vars
  BY <1>1 DEF vars, EscInv, Listed, Resolving, Submitted, EscalatedCanBeAnswered
<1>2. ASSUME Next, ~LateResubmission PROVE EscInv'
  <2>1. CASE AssessRisk \/ ActionPlanCall \/ DayPasses
    <3>1. StaysAnswerable /\ req' = req
      BY <2>1, CallAnswerable
    <3> QED
      BY <3>1 DEF StaysAnswerable, EscInv, Listed
  <2>2. ASSUME NEW r \in Requests, Serve(r) PROVE EscInv'
    <3>1. StaysAnswerable /\ StaysListed(r)
      <4>1. CASE \/ OwnerApprove(r) \/ ManagementApprove(r) \/ Approve(r) \/ Reject(r) \/ Resubmit(r)
                 \/ Close(r) \/ Cancel(r) \/ Update(r) \/ Complete(r)
                 \/ EscalateRisk(r) \/ JobList(r) \/ Comment(r) \/ CompletePlan(r) \/ DeleteEvidence(r)
        <5>1. PICK op, next : Begin(r, op, next) /\ next.pc \notin {"submit", "listOpen", "resolve"}
          BY <4>1, StartListed
        <5>2. Continue(r, next) /\ Listed(next, risk')
          BY <5>1 DEF Begin, Continue, Listed, Resolving
        <5>3. StaysAnswerable
          BY <5>1, SameEscalations DEF Begin, storeVars, EscInv
        <5> QED
          BY <5>2, <5>3 DEF StaysListed
      <4>2. CASE \/ PatchRefused(r) \/ ListPlans(r) \/ ListOpenEscalations(r) \/ JobEscalate(r)
                 \/ CountOpen(r) \/ CommentLookup(r) \/ ListSteps(r) \/ Abandon(r)
        <5>1. UNCHANGED storeVars /\ \E next : Continue(r, next) /\ Listed(next, risk)
          BY <4>2, ReadListed
        <5> QED
          BY <5>1, SameEscalations DEF storeVars, EscInv, StaysListed
      <4>3. CASE \/ SetOwnerFirstApprovedAt(r) \/ PatchRisk(r) \/ ResolveEscalation(r) \/ ReescalateRisk(r)
                 \/ FlipEscalated(r) \/ CommentEscalation(r) \/ FinishPlan(r) \/ DeleteEvidenceRow(r)
        BY <1>2, <4>3, WriteListed
      <4> QED
        BY <2>2, <4>1, <4>2, <4>3 DEF Serve
    <3>2. PICK next : Continue(r, next) /\ Listed(next, risk')
      BY <3>1 DEF StaysListed
    <3>3. ASSUME NEW q \in Requests PROVE Listed(req'[q], risk')
      <4>1. req'[q] = IF q = r THEN next ELSE req[q]
        BY <3>2 DEF Continue, IInv, TypeOK
      <4>2. Listed(req[q], risk) => Listed(req[q], risk')
        BY <3>1 DEF StaysAnswerable, Listed
      <4> QED
        BY <3>2, <4>1, <4>2 DEF EscInv
    <3> QED
      BY <3>1, <3>3 DEF StaysAnswerable, EscInv
  <2> QED
    BY <1>2, <2>1, <2>2 DEF Next
<1> QED
  BY <1>1, <1>2

\* An ESCALATED risk can be answered, whatever requests overlap with the escalation:
\* only a resubmission decided before the risk was completed and rejected can have a
\* completion resolve the escalation of a risk that has come back meanwhile.
THEOREM EscalatedHolds == Spec /\ [][~LateResubmission]_vars => []EscalatedCanBeAnswered
<1>1. Init => EscInv
  BY DEF Init, CreateRisk, EscInv, EscalatedCanBeAnswered, Listed, Resolving, Idle
<1>2. EscInv => EscalatedCanBeAnswered
  BY DEF EscInv
<1> QED
  BY <1>1, <1>2, EscStep, Invariance, PTL DEF Spec

=============================================================================
