---------------------------- MODULE RiskWorkflow ----------------------------
(* The GRC backend's side of the risk workflow.  A request is served by its  *)
(* own goroutine as a chain of calls to the entity: it reads the risk,       *)
(* decides, and writes, and the writes of other requests come in between.    *)
(* What a request holds between two calls is its entry in req; pc names the  *)
(* call it makes next.  A request that is refused simply does not begin.     *)
(* Callers are taken to pass the privilege and identity gates.               *)
EXTENDS RiskStore

CONSTANTS Requests,   \* requests in flight at the same time
          Ops,        \* the operations clients call, out of AllOps
          Edits       \* the edits clients send, out of EditRequests

AllOps == {"OwnerApprove", "ManagementApprove", "Approve", "Reject", "Resubmit", "Close",
           "Cancel", "Complete", "Update", "Assess", "Escalate", "EscalationJob", "Comment",
           "ActionPlan", "CompletePlan", "DeleteEvidence"}

\* An edit of the fields that the workflow depends on: Same is the stored date
\* sent back, a member of Dates another date; steps is the new list where it
\* differs from the stored one.  A new e-mail subject or treatment strategy has
\* the effect of a reworded step.
Same == "SAME"
EditRequests == [gross    : Levels \cup {Keep},
                 approver : {"NAMED", Keep},
                 due      : Dates \cup {Same, Keep},
                 steps    : SUBSET Steps]

ASSUME OpsAssumption == Ops \subseteq AllOps
ASSUME EditsAssumption == Edits \subseteq EditRequests

VARIABLE req

vars == <<risk, planStatus, stepStatus, evidence, escs, signedOff, req>>

NoPlan == "NoPlan"

PCs == {"idle", "stamp", "patch", "listPlans", "submit", "listOpen", "resolve",
        "reescalate", "check", "count", "flip", "lookup", "answer", "listSteps", "finish", "delete"}

\* todo: the escalations a request still has to write.
ReqStates == [pc : PCs, patch : Patches, plan : Plans \cup {NoPlan}, todo : SUBSET Escalations]

Idle == [pc |-> "idle", patch |-> NoChange, plan |-> NoPlan, todo |-> {}]

TypeOK == StoreTypeOK /\ req \in [Requests -> ReqStates]

Init == CreateRisk /\ req = [r \in Requests |-> Idle]

-----------------------------------------------------------------------------
\* The request r, not in flight, reads the store and goes on as `next`.
Begin(r, op, next) ==
  /\ op \in Ops
  /\ req[r] = Idle
  /\ req' = [req EXCEPT ![r] = next]
  /\ UNCHANGED storeVars

\* The request r goes on as `next`, respectively ends.
Continue(r, next) == req' = [req EXCEPT ![r] = next]
End(r) == Continue(r, Idle)

Patching(pc, patch) == [Idle EXCEPT !.pc = pc, !.patch = patch]

Transition(from, to) == [NoChange EXCEPT !.expect = from, !.to = to]

-----------------------------------------------------------------------------
(* The approval chain: each handler reads the risk and leaves one PATCH,     *)
(* guarded by the status it read.                                            *)

OwnerApprove(r) ==
  LET signOff == NeedsManagementSignOff(risk) IN
  \/ /\ risk.status \in OwnerStages
     /\ Begin(r, "OwnerApprove",
              Patching(IF risk.ofa = "NULL" THEN "stamp" ELSE "patch",
                       Transition(risk.status, IF signOff THEN "PENDING_MANAGEMENT_APPROVAL"
                                                          ELSE "PENDING_COMPLIANCE_REVIEW")))
  \/ /\ risk.status = "PENDING_OWNER_COMPLETION_APPROVAL"
     /\ Begin(r, "OwnerApprove",
              Patching("patch",
                       Transition(risk.status, IF signOff THEN "PENDING_MANAGEMENT_CLOSURE_APPROVAL"
                                                          ELSE "PENDING_COMPLIANCE_CLOSURE")))

\* Mutant: a failed stamp is only logged.
SetOwnerFirstApprovedAt_BestEffort(r) ==
  /\ req[r].pc = "stamp"
  /\ Continue(r, [req[r] EXCEPT !.pc = "patch"])
  /\ UNCHANGED storeVars

\* SetOwnerFirstApprovedAt: a PATCH of its own, before the transition and
\* guarded by nothing.
SetOwnerFirstApprovedAt(r) ==
  /\ req[r].pc = "stamp"
  /\ UpdateRisk([NoChange EXCEPT !.ofa = "SET"])
  /\ Continue(r, [req[r] EXCEPT !.pc = "patch"])

ManagementApprove(r) ==
  \/ /\ risk.status = "PENDING_MANAGEMENT_APPROVAL"
     /\ Begin(r, "ManagementApprove", Patching("patch", Transition(risk.status, "PENDING_COMPLIANCE_REVIEW")))
  \/ /\ risk.status = "PENDING_MANAGEMENT_CLOSURE_APPROVAL"
     /\ Begin(r, "ManagementApprove", Patching("patch", Transition(risk.status, "PENDING_COMPLIANCE_CLOSURE")))

Approve(r) ==
  /\ risk.status = "PENDING_COMPLIANCE_REVIEW"
  /\ Begin(r, "Approve", Patching("patch", Transition(risk.status, "APPROVED")))

Reject(r) ==
  LET stage == RejectionStage(risk.status) IN
  /\ stage # NoStage
  /\ Begin(r, "Reject", Patching("patch", [Transition(risk.status, "PENDING_REVISION")
                                             EXCEPT !.stage = stage]))

\* Mutant: the rejection is not cleared.
Resubmit_KeepsStage(r) ==
  /\ risk.status = "PENDING_REVISION"
  /\ Begin(r, "Resubmit", Patching("patch", Transition(risk.status, ResubmitTarget(risk.stage))))

Resubmit(r) ==
  /\ risk.status = "PENDING_REVISION"
  /\ Begin(r, "Resubmit", Patching("patch", [Transition(risk.status, ResubmitTarget(risk.stage))
                                               EXCEPT !.stage = NoStage]))

Close(r) ==
  /\ risk.status = "PENDING_COMPLIANCE_CLOSURE"
  /\ Begin(r, "Close", Patching("patch", Transition(risk.status, "CLOSED")))

cancellable(status, ofa) ==
  \/ status = "PENDING_RISK_OWNER_APPROVAL"
  \/ status = "PENDING_REVISION" /\ ofa = "NULL"

Cancel(r) ==
  /\ cancellable(risk.status, risk.ofa)
  /\ Begin(r, "Cancel", Patching("patch", Transition(risk.status, "CANCELLED")))

\* An edit: a restricted change sends an APPROVED risk back through the chain;
\* the gross score is dropped from the edit once an owner has approved.  The
\* stored date is read as RFC 3339 and compared with the YYYY-MM-DD of the
\* request as strings, so that a request which names a date has changed it.
restrictedChanged(e) == e.due # Keep \/ e.steps # {}

editBody(e) ==
  [NoChange EXCEPT !.to = IF restrictedChanged(e) /\ risk.status = "APPROVED"
                          THEN "PENDING_AMENDMENT" ELSE Keep,
                   !.gross = IF risk.ofa = "SET" THEN Keep ELSE e.gross,
                   !.approver = e.approver,
                   !.due = IF e.due = Same THEN risk.due ELSE e.due,
                   !.steps = e.steps]

\* Mutant: only an edit that moves the risk is guarded by a status.
editPatch_Unguarded(e) ==
  [editBody(e) EXCEPT !.expect = IF editBody(e).to = Keep THEN Keep ELSE risk.status]

editPatch(e) == [editBody(e) EXCEPT !.expect = risk.status]

Update(r) ==
  \E e \in Edits : risk.status # "CLOSED" /\ Begin(r, "Update", Patching("patch", editPatch(e)))

\* The PATCH of the request r, and its conflict: the whole body is rolled back.
PatchRisk(r) ==
  /\ req[r].pc \in {"patch", "submit"}
  /\ UpdateRisk(req[r].patch)
  /\ Continue(r, IF req[r].pc = "submit" THEN [Idle EXCEPT !.pc = "listOpen"] ELSE Idle)

PatchRefused(r) ==
  /\ req[r].pc \in {"patch", "submit"}
  /\ ~PatchAccepted(req[r].patch)
  /\ End(r)
  /\ UNCHANGED storeVars

\* A residual assessment reads nothing it later depends on.
AssessRisk ==
  /\ "Assess" \in Ops
  /\ \E level \in Levels, approver \in {"NAMED", Keep}, due \in Dates \cup {Keep} :
       CreateRiskAssessment(level, approver, due)
  /\ UNCHANGED req

-----------------------------------------------------------------------------
(* Completion: the plans are listed after the status is read, and the open   *)
(* escalations are resolved one by one after the transition.                 *)

Complete(r) ==
  /\ risk.status = "APPROVED"
  /\ Begin(r, "Complete",
           Patching("listPlans", Transition("APPROVED", "PENDING_OWNER_COMPLETION_APPROVAL")))

\* Mutant: any plan will do.
hasCompletedPlan_Any == \E p \in Plans : planStatus[p] # "ABSENT"

hasCompletedPlan == \E p \in Plans : planStatus[p] = "COMPLETED"

ListPlans(r) ==
  /\ req[r].pc = "listPlans"
  /\ IF hasCompletedPlan
     THEN Continue(r, [req[r] EXCEPT !.pc = "submit"])
     ELSE End(r)
  /\ UNCHANGED storeVars

ListOpenEscalations(r) ==
  /\ req[r].pc = "listOpen"
  /\ Continue(r, IF OpenEscalations = {} THEN Idle
                 ELSE [Idle EXCEPT !.pc = "resolve", !.todo = OpenEscalations])
  /\ UNCHANGED storeVars

ResolveEscalation(r) ==
  /\ req[r].pc = "resolve"
  /\ \E e \in req[r].todo :
       /\ UpdateRiskEscalation(e)
       /\ Continue(r, IF req[r].todo = {e} THEN Idle ELSE [req[r] EXCEPT !.todo = @ \ {e}])

-----------------------------------------------------------------------------
(* Escalation: the entity reads status and date, then opens its transaction. *)

EscalateRisk(r) ==
  /\ risk.status = "APPROVED" /\ risk.due = "PAST"
  /\ Begin(r, "Escalate", Patching("reescalate", NoChange))

ReescalateRisk(r) ==
  /\ req[r].pc = "reescalate"
  /\ End(r)
  /\ \/ Reescalate
     \/ /\ risk.status # "APPROVED" \/ ~(OpenEscalations \subseteq Answered)
        /\ UNCHANGED storeVars

\* The daily job lists the overdue risks without an open escalation, and then
\* asks for each what a click asks for, without reescalate.
JobList(r) ==
  /\ risk.status = "APPROVED" /\ risk.due = "PAST" /\ OpenEscalations = {}
  /\ Begin(r, "EscalationJob", Patching("check", NoChange))

JobEscalate(r) ==
  /\ req[r].pc = "check"
  /\ Continue(r, IF risk.status = "APPROVED" /\ risk.due = "PAST"
                 THEN Patching("count", NoChange) ELSE Idle)
  /\ UNCHANGED storeVars

\* Without reescalate the count is a plain SELECT: it sees the transaction's
\* snapshot and locks nothing, so other commits come between it and the flip.
CountOpen(r) ==
  /\ req[r].pc = "count"
  /\ Continue(r, IF OpenEscalations = {} THEN Patching("flip", NoChange) ELSE Idle)
  /\ UNCHANGED storeVars

FlipEscalated(r) ==
  /\ req[r].pc = "flip"
  /\ End(r)
  /\ \/ EscalateRow({})
     \/ risk.status # "APPROVED" /\ UNCHANGED storeVars

Comment(r) ==
  /\ risk.status = "ESCALATED"
  /\ \E e \in OpenEscalations : Begin(r, "Comment", [Idle EXCEPT !.pc = "lookup", !.todo = {e}])

\* CommentEscalation: the row is looked up without a lock, then the risk flipped.
CommentLookup(r) ==
  /\ req[r].pc = "lookup"
  /\ Continue(r, IF req[r].todo \subseteq OpenEscalations THEN [req[r] EXCEPT !.pc = "answer"]
                 ELSE Idle)
  /\ UNCHANGED storeVars

CommentEscalation(r) ==
  /\ req[r].pc = "answer"
  /\ End(r)
  /\ \/ \E e \in req[r].todo : AnswerEscalation(e)
     \/ risk.status # "ESCALATED" /\ UNCHANGED storeVars

-----------------------------------------------------------------------------
(* Action plans.                                                             *)

ActionPlanCall ==
  /\ "ActionPlan" \in Ops
  /\ \/ \E p \in Plans, ss \in SUBSET Steps : CreateRiskActionPlan(p, ss)
     \/ \E p \in Plans, s \in Steps, v \in {"PENDING", "COMPLETED"} : UpdateRiskActionStep(p, s, v)
     \/ \E p \in Plans : CreateRiskEvidence(p)
  /\ UNCHANGED req

CompletePlan(r) ==
  \E p \in Plans :
    /\ planStatus[p] = "PENDING"
    /\ risk.status \in InRemediation
    /\ Begin(r, "CompletePlan", [Idle EXCEPT !.pc = "listSteps", !.plan = p])

ListSteps(r) ==
  /\ req[r].pc = "listSteps"
  /\ Continue(r, IF AllStepsCompleted(req[r].plan) /\ req[r].plan \in evidence
                 THEN [req[r] EXCEPT !.pc = "finish"] ELSE Idle)
  /\ UNCHANGED storeVars

FinishPlan(r) ==
  /\ req[r].pc = "finish"
  /\ End(r)
  /\ \/ CompleteRiskActionPlan(req[r].plan)
     \/ /\ req[r].plan \notin evidence \/ planStatus[req[r].plan] = "COMPLETED"
        /\ UNCHANGED storeVars

\* Deleting completion evidence is refused for a COMPLETED plan, as read here.
DeleteEvidence(r) ==
  \E p \in evidence :
    /\ planStatus[p] # "COMPLETED"
    /\ Begin(r, "DeleteEvidence", [Idle EXCEPT !.pc = "delete", !.plan = p])

DeleteEvidenceRow(r) ==
  /\ req[r].pc = "delete"
  /\ DeleteRiskEvidence(req[r].plan)
  /\ End(r)

-----------------------------------------------------------------------------
\* The client goes away, or the backend does: the request makes no more calls.
Abandon(r) ==
  /\ req[r] # Idle
  /\ End(r)
  /\ UNCHANGED storeVars

\* The implementation date passes.
DayPasses ==
  /\ risk.due = "AHEAD"
  /\ risk' = [risk EXCEPT !.due = "PAST"]
  /\ UNCHANGED <<planStatus, stepStatus, evidence, escs, signedOff, req>>

Serve(r) ==
  \/ OwnerApprove(r) \/ SetOwnerFirstApprovedAt(r) \/ ManagementApprove(r) \/ Approve(r)
  \/ Reject(r) \/ Resubmit(r) \/ Close(r) \/ Cancel(r) \/ Update(r)
  \/ PatchRisk(r) \/ PatchRefused(r)
  \/ Complete(r) \/ ListPlans(r) \/ ListOpenEscalations(r) \/ ResolveEscalation(r)
  \/ EscalateRisk(r) \/ ReescalateRisk(r) \/ JobList(r) \/ JobEscalate(r)
  \/ CountOpen(r) \/ FlipEscalated(r)
  \/ Comment(r) \/ CommentLookup(r) \/ CommentEscalation(r)
  \/ CompletePlan(r) \/ ListSteps(r) \/ FinishPlan(r) \/ DeleteEvidence(r) \/ DeleteEvidenceRow(r)
  \/ Abandon(r)

Next == (\E r \in Requests : Serve(r)) \/ AssessRisk \/ ActionPlanCall \/ DayPasses

Spec == Init /\ [][Next]_vars

-----------------------------------------------------------------------------
(* Safety.                                                                   *)

\* While a risk waits for revision the stage that rejected it is on record, and
\* no other live risk carries a stage: Resubmit routes by it.
RejectionStageRecorded ==
  /\ risk.status = "PENDING_REVISION" => risk.stage # NoStage
  /\ risk.stage # NoStage => risk.status \in {"PENDING_REVISION", "CANCELLED"}

\* A risk stands at a status only if the approvals before it were given: no
\* late PATCH, rejection or resubmission skips a stage of the chain.
SignOffsBehindStatus == RequiredSignOffs(risk.status) \subseteq signedOff

\* The owner's first approval is stamped before any owner sign-off takes
\* effect, although the stamp is a PATCH of its own: cancellation, the gross
\* score and the evidence set are locked by it.
StampBehindOwnerApproval == "OWNER" \in signedOff => risk.ofa = "SET"

\* A risk enters and stays on the closure path only with a completed plan,
\* although Complete lists the plans before it moves the risk.
FinishedPlanBehindClosure ==
  risk.status \in ClosurePath => \E p \in Plans : planStatus[p] = "COMPLETED"

\* Every move a request still has to make is one the entity's table accepts:
\* being less permissive than the backend turns a legitimate action into a 400.
TableAdmitsWorkflow ==
  \A r \in Requests : LET p == req[r].patch IN
    p.to # Keep => isValidRiskTransition(p.expect, p.to)

\* A plan becomes COMPLETED only while completion evidence is attached to it,
\* although the evidence is looked up in a request of its own before.
EvidenceAtCompletion ==
  [][\A p \in Plans : planStatus[p] # "COMPLETED" /\ planStatus'[p] = "COMPLETED"
                         => p \in evidence]_vars

PlannedSteps == {s \in Steps : stepStatus[FirstPlan][s] # "ABSENT"}

\* The steps of the approved plan of an APPROVED risk change only together with
\* its return to the owner, whatever status the editor had read.
ApprovedPlanIsFixed ==
  [][risk.status = "APPROVED" /\ PlannedSteps' # PlannedSteps
       => risk'.status = "PENDING_AMENDMENT"]_vars

\* An ESCALATED risk has an open escalation nobody has answered: commenting on
\* it is the only way out of the status.
EscalatedCanBeAnswered ==
  risk.status = "ESCALATED" => \E e \in Escalations : escs[e] = "OPEN"

\* Requests that overlap move the risk only as single decisions would.
Lifecycle == INSTANCE RiskLifecycle WITH status <- risk.status
ImplementsLifecycle == Lifecycle!Spec

-----------------------------------------------------------------------------
(* What the source says of the workflow and the code does not do.            *)

\* Cancel's comment: only while no Risk Owner has ever approved the risk.
CancelOnlyUnapproved ==
  [][risk.status # "CANCELLED" /\ risk'.status = "CANCELLED" => "OWNER" \notin signedOff]_vars

\* Escalate's comment: the daily job and a manual click insert no duplicate.
NoDuplicateEscalation == Cardinality(OpenEscalations) <= 1

\* Delete's comment: the evidence of a COMPLETED plan is locked.
CompletedPlanKeepsEvidence ==
  \A p \in Plans : planStatus[p] = "COMPLETED" => p \in evidence
=============================================================================
