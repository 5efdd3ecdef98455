--------------------------- MODULE RiskLifecycle ---------------------------
(* What the risk workflow promises, as the GRC backend's service documents   *)
(* it and without requests, staleness or tables: one risk, one status, the   *)
(* set of approvals it has had.  Every step is one decision, and a decision  *)
(* moves the risk only from the status it is about.  RiskWorkflow, where a   *)
(* decision is taken from a status read earlier, is shown to implement it.   *)
EXTENDS RiskStatus

VARIABLES status,     \* workflow_status of the risk
          signedOff   \* the approvals recorded for it, ever

vars == <<status, signedOff>>

Move(from, to) ==
  /\ status = from
  /\ status' = to
  /\ signedOff' = signedOff \cup SignOff(from, to)

OwnerSigns ==
  \/ /\ status \in OwnerStages
     /\ \E to \in {"PENDING_MANAGEMENT_APPROVAL", "PENDING_COMPLIANCE_REVIEW"} : Move(status, to)
  \/ \E to \in {"PENDING_MANAGEMENT_CLOSURE_APPROVAL", "PENDING_COMPLIANCE_CLOSURE"} :
       Move("PENDING_OWNER_COMPLETION_APPROVAL", to)

ManagementSigns ==
  \/ Move("PENDING_MANAGEMENT_APPROVAL", "PENDING_COMPLIANCE_REVIEW")
  \/ Move("PENDING_MANAGEMENT_CLOSURE_APPROVAL", "PENDING_COMPLIANCE_CLOSURE")

ComplianceSigns == Move("PENDING_COMPLIANCE_REVIEW", "APPROVED")

\* Any stage but compliance's closure can send the risk back for revision.
Rejected == RejectionStage(status) # NoStage /\ Move(status, "PENDING_REVISION")

\* A revised risk starts over, or re-enters the closure path at a stage whose
\* predecessors have signed.
Resubmitted ==
  \/ Move("PENDING_REVISION", "PENDING_RISK_OWNER_APPROVAL")
  \/ /\ {"OWNER", "COMPLIANCE"} \subseteq signedOff
     /\ Move("PENDING_REVISION", "PENDING_OWNER_COMPLETION_APPROVAL")
  \/ /\ {"OWNER", "COMPLIANCE", "COMPLETION_OWNER"} \subseteq signedOff
     /\ Move("PENDING_REVISION", "PENDING_MANAGEMENT_CLOSURE_APPROVAL")

Amended   == Move("APPROVED", "PENDING_AMENDMENT")
Escalated == Move("APPROVED", "ESCALATED")
Answered  == Move("ESCALATED", "APPROVED")
Submitted == Move("APPROVED", "PENDING_OWNER_COMPLETION_APPROVAL")
Closed    == Move("PENDING_COMPLIANCE_CLOSURE", "CLOSED")
Cancelled == status \in {"PENDING_RISK_OWNER_APPROVAL", "PENDING_REVISION"} /\ Move(status, "CANCELLED")

Init == status = "PENDING_RISK_OWNER_APPROVAL" /\ signedOff = {}

Next == \/ OwnerSigns \/ ManagementSigns \/ ComplianceSigns \/ Rejected \/ Resubmitted
        \/ Amended \/ Escalated \/ Answered \/ Submitted \/ Closed \/ Cancelled

Spec == Init /\ [][Next]_vars
=============================================================================
