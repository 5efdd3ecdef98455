----------------------------- MODULE RiskStore -----------------------------
(* The compliance entity's side of the risk workflow: one risk, its action   *)
(* plans with their steps and completion evidence, and its escalations, as   *)
(* rows of the database.  Each operator here is one database transaction (or *)
(* one statement) of the entity, atomic as MySQL makes it; RiskWorkflow puts *)
(* them together into the requests that the GRC backend serves.              *)
EXTENDS RiskStatus, Integers, FiniteSets

CONSTANTS Plans,        \* ids of action plans, the bound on plans per risk
          FirstPlan,    \* the plan created with the risk
          Steps,        \* ids of action steps, the bound on steps per plan
          Escalations   \* ids of escalation rows, the bound on escalations

ASSUME FirstPlanAssumption == FirstPlan \in Plans

VARIABLES risk,         \* the risk row (and the level of its last assessment)
          planStatus,   \* plan -> ABSENT | PENDING | COMPLETED
          stepStatus,   \* plan -> step -> ABSENT | PENDING | COMPLETED
          evidence,     \* plans with a completion evidence row
          escs,         \* escalation -> ABSENT | OPEN | ANSWERED | RESOLVED
          signedOff     \* history: the approvals recorded for the risk

storeVars == <<risk, planStatus, stepStatus, evidence, escs, signedOff>>

Levels    == {"HIGH", "LOWER"}       \* MEDIUM and LOW are routed alike
Dates     == {"AHEAD", "PAST"}       \* implementation_date against today
\* IN_PROGRESS is PENDING: the code only asks whether a row is COMPLETED.
RowStates == {"ABSENT", "PENDING", "COMPLETED"}
\* ANSWERED is an OPEN row whose decision is set; the code never says it so.
EscStates == {"ABSENT", "OPEN", "ANSWERED", "RESOLVED"}

Risks == [status   : Statuses,
          stage    : RejectionStages \cup {NoStage},
          ofa      : {"NULL", "SET"},             \* owner_first_approved_at
          gross    : Levels,
          residual : Levels,                      \* LOWER before any assessment
          approver : {"NULL", "NAMED"},           \* management_approver_id
          due      : Dates]

StoreTypeOK ==
  /\ risk \in Risks
  /\ planStatus \in [Plans -> RowStates]
  /\ stepStatus \in [Plans -> [Steps -> RowStates]]
  /\ evidence \subseteq Plans
  /\ escs \in [Escalations -> EscStates]
  /\ signedOff \subseteq RejectionStages

NeedsManagementSignOff(r) == "HIGH" \in {r.gross, r.residual} /\ r.approver = "NAMED"

OpenEscalations == {e \in Escalations : escs[e] \in {"OPEN", "ANSWERED"}}

-----------------------------------------------------------------------------
(* POST /risks: the row, its first plan and at least one step.               *)
CreateRisk ==
  /\ risk \in [status : {"PENDING_RISK_OWNER_APPROVAL"}, stage : {NoStage}, ofa : {"NULL"},
               gross : Levels, residual : {"LOWER"}, approver : {"NULL", "NAMED"}, due : Dates]
  /\ risk.gross = "HIGH" => risk.approver = "NAMED"
  /\ planStatus = [p \in Plans |-> IF p = FirstPlan THEN "PENDING" ELSE "ABSENT"]
  /\ \E ss \in SUBSET Steps \ {{}} :
       stepStatus = [p \in Plans |-> [s \in Steps |->
                       IF p = FirstPlan /\ s \in ss THEN "PENDING" ELSE "ABSENT"]]
  /\ evidence = {}
  /\ escs = [e \in Escalations |-> "ABSENT"]
  /\ signedOff = {}

-----------------------------------------------------------------------------
(* PATCH /risks/{id}: a request body, with Keep for an omitted field.        *)
Keep == "KEEP"

Patches == [expect   : Statuses \cup {Keep},                       \* expectedStatus
            to       : Statuses \cup {Keep},                       \* workflowStatus
            stage    : RejectionStages \cup {NoStage, Keep},       \* NoStage: clearRejection
            ofa      : {"SET", Keep},
            gross    : Levels \cup {Keep},
            approver : {"NAMED", Keep},
            due      : Dates \cup {Keep},
            steps    : SUBSET Steps]                               \* {}: omitted

NoChange == [expect |-> Keep, to |-> Keep, stage |-> Keep, ofa |-> Keep, gross |-> Keep,
             approver |-> Keep, due |-> Keep, steps |-> {}]

\* Mutant: expectedStatus selects the table's row but does not guard the UPDATE.
PatchAccepted_NoCAS(p) == p.to # Keep => isValidRiskTransition(p.expect, p.to)

PatchAccepted(p) ==
  /\ p.to # Keep => isValidRiskTransition(p.expect, p.to)
  /\ p.expect \in {Keep, risk.status}

\* Mutant: an omitted field overwrites its column.
Set_Omitted(new, old) == new

Set(new, old) == IF new = Keep THEN old ELSE new

\* The steps of the first plan after applyActionSteps: listed rows keep their
\* status, new ones start PENDING, unlisted ones are deleted.
applyActionSteps(old, listed) ==
  [s \in Steps |-> IF s \notin listed THEN "ABSENT"
                   ELSE IF old[s] = "ABSENT" THEN "PENDING" ELSE old[s]]

UpdateRisk(p) ==
  /\ PatchAccepted(p)
  /\ risk' = [status |-> Set(p.to, risk.status), stage |-> Set(p.stage, risk.stage),
              ofa |-> Set(p.ofa, risk.ofa), gross |-> Set(p.gross, risk.gross),
              residual |-> risk.residual, approver |-> Set(p.approver, risk.approver),
              due |-> Set(p.due, risk.due)]
  /\ stepStatus' = IF p.steps = {} THEN stepStatus
                   ELSE [stepStatus EXCEPT ![FirstPlan] = applyActionSteps(@, p.steps)]
  /\ signedOff' = signedOff \cup SignOff(risk.status, risk'.status)
  /\ UNCHANGED <<planStatus, evidence, escs>>

\* POST /risks/{id}/assessments: no status is checked; a HIGH result needs an
\* approver, the one on record or the one the request names.
CreateRiskAssessment(level, approver, due) ==
  /\ level = "HIGH" => "NAMED" \in {approver, risk.approver}
  /\ risk' = [risk EXCEPT !.residual = level, !.approver = Set(approver, @), !.due = Set(due, @)]
  /\ UNCHANGED <<planStatus, stepStatus, evidence, escs, signedOff>>

-----------------------------------------------------------------------------
(* Action plans, their steps and completion evidence.                        *)
CreateRiskActionPlan(p, ss) ==
  /\ planStatus[p] = "ABSENT"
  /\ planStatus' = [planStatus EXCEPT ![p] = "PENDING"]
  /\ stepStatus' = [stepStatus EXCEPT ![p] = [s \in Steps |-> IF s \in ss THEN "PENDING" ELSE "ABSENT"]]
  /\ UNCHANGED <<risk, evidence, escs, signedOff>>

\* The risk row is locked and its status checked in the same transaction.
UpdateRiskActionStep(p, s, v) ==
  /\ risk.status \in InRemediation
  /\ stepStatus[p][s] # "ABSENT"
  /\ stepStatus' = [stepStatus EXCEPT ![p][s] = v]
  /\ UNCHANGED <<risk, planStatus, evidence, escs, signedOff>>

AllStepsCompleted(p) ==
  /\ \E s \in Steps : stepStatus[p][s] = "COMPLETED"
  /\ \A s \in Steps : stepStatus[p][s] # "PENDING"

\* Mutant: the evidence found before is relied on.
CompleteRiskActionPlan_NoRecheck(p) ==
  /\ planStatus[p] # "COMPLETED"
  /\ planStatus' = [planStatus EXCEPT ![p] = "COMPLETED"]
  /\ UNCHANGED <<risk, stepStatus, evidence, escs, signedOff>>

\* One UPDATE that re-checks the evidence it depends on.
CompleteRiskActionPlan(p) ==
  /\ planStatus[p] # "COMPLETED"
  /\ p \in evidence
  /\ planStatus' = [planStatus EXCEPT ![p] = "COMPLETED"]
  /\ UNCHANGED <<risk, stepStatus, evidence, escs, signedOff>>

CreateRiskEvidence(p) ==
  /\ planStatus[p] # "ABSENT"
  /\ evidence' = evidence \cup {p}
  /\ UNCHANGED <<risk, planStatus, stepStatus, escs, signedOff>>

DeleteRiskEvidence(p) ==
  /\ evidence' = evidence \ {p}
  /\ UNCHANGED <<risk, planStatus, stepStatus, escs, signedOff>>

-----------------------------------------------------------------------------
(* Escalations.                                                              *)
InsertEscalation(resolved) ==
  /\ \E e \in Escalations :
       /\ escs[e] = "ABSENT"
       /\ escs' = [f \in Escalations |-> IF f = e THEN "OPEN"
                                         ELSE IF f \in resolved THEN "RESOLVED" ELSE escs[f]]
  /\ risk' = [risk EXCEPT !.status = "ESCALATED"]
  /\ UNCHANGED <<planStatus, stepStatus, evidence, signedOff>>

\* Mutant: the flip trusts the status that the service read.
EscalateRow_NoCAS(resolved) == InsertEscalation(resolved)

\* The last two statements of Escalate: flip the risk if it is still APPROVED,
\* insert the OPEN row.
EscalateRow(resolved) == risk.status = "APPROVED" /\ InsertEscalation(resolved)

Answered == {e \in Escalations : escs[e] = "ANSWERED"}

\* Escalate with reescalate set: the answered rows are resolved first.  That
\* UPDATE locks the risk's escalation rows and the gap behind them until the
\* commit, so that nothing comes between the count and the flip.
Reescalate ==
  /\ OpenEscalations \subseteq Answered
  /\ EscalateRow(Answered)

\* CommentEscalation from its guarded flip on: the row is updated by id.
AnswerEscalation(e) ==
  /\ risk.status = "ESCALATED"
  /\ risk' = [risk EXCEPT !.status = "APPROVED"]
  /\ escs' = [escs EXCEPT ![e] = IF @ = "OPEN" THEN "ANSWERED" ELSE @]
  /\ UNCHANGED <<planStatus, stepStatus, evidence, signedOff>>

\* PATCH /risks/{id}/escalations/{id} with status RESOLVED, unguarded.
UpdateRiskEscalation(e) ==
  /\ escs' = [escs EXCEPT ![e] = "RESOLVED"]
  /\ UNCHANGED <<risk, planStatus, stepStatus, evidence, signedOff>>
=============================================================================
