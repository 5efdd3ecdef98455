----------------------------- MODULE RiskStatus -----------------------------
(* The vocabulary of the risk workflow: statuses, rejection stages and the   *)
(* sign-offs each status stands on.  The entity service keeps one table of   *)
(* legal moves (allowedRiskTransitions); the GRC backend decides which moves *)
(* are made.  Both are relations here so that they can be compared.          *)

\* Statuses that ask somebody to approve before remediation starts.
OwnerStages   == {"PENDING_RISK_OWNER_APPROVAL", "PENDING_AMENDMENT"}
\* Statuses of a risk whose remediation was submitted as finished.
ClosurePath   == {"PENDING_OWNER_COMPLETION_APPROVAL",
                  "PENDING_MANAGEMENT_CLOSURE_APPROVAL",
                  "PENDING_COMPLIANCE_CLOSURE", "CLOSED"}
InRemediation == {"APPROVED", "ESCALATED"}
Terminal      == {"CLOSED", "CANCELLED"}

Statuses == OwnerStages \cup ClosurePath \cup InRemediation \cup Terminal
              \cup {"DRAFT", "PENDING_MANAGEMENT_APPROVAL",
                    "PENDING_COMPLIANCE_REVIEW", "PENDING_REVISION"}

\* The stage a rejection is attributed to; NoStage is a NULL rejection_stage.
NoStage == "NULL"
CompletionStages == {"COMPLETION_OWNER", "COMPLETION_MANAGEMENT"}
RejectionStages  == CompletionStages \cup {"OWNER", "MANAGEMENT", "COMPLIANCE"}

\* Reject: the stage recorded for a rejection decided at status `from`;
\* NoStage where a rejection is refused with a 409.
RejectionStage(from) ==
  CASE from \in OwnerStages                              -> "OWNER"
    [] from = "PENDING_MANAGEMENT_APPROVAL"              -> "MANAGEMENT"
    [] from = "PENDING_COMPLIANCE_REVIEW"                -> "COMPLIANCE"
    [] from = "PENDING_OWNER_COMPLETION_APPROVAL"        -> "COMPLETION_OWNER"
    [] from = "PENDING_MANAGEMENT_CLOSURE_APPROVAL"      -> "COMPLETION_MANAGEMENT"
    [] OTHER                                             -> NoStage

\* Mutant: Resubmit does not tell the two completion stages apart.
ResubmitTarget_OneStage(stage) ==
  IF stage \in CompletionStages THEN "PENDING_MANAGEMENT_CLOSURE_APPROVAL"
                               ELSE "PENDING_RISK_OWNER_APPROVAL"

\* Resubmit: where a revised risk re-enters the chain, by the stage that rejected it.
ResubmitTarget(stage) ==
  CASE stage = "COMPLETION_OWNER"      -> "PENDING_OWNER_COMPLETION_APPROVAL"
    [] stage = "COMPLETION_MANAGEMENT" -> "PENDING_MANAGEMENT_CLOSURE_APPROVAL"
    [] OTHER                           -> "PENDING_RISK_OWNER_APPROVAL"

(* The entity's table, as the set of <<from, to>> pairs it accepts.          *)
allowedRiskTransitions ==
       {"DRAFT"} \X {"PENDING_RISK_OWNER_APPROVAL", "CANCELLED"}
  \cup {"PENDING_RISK_OWNER_APPROVAL"} \X
         {"PENDING_COMPLIANCE_REVIEW", "PENDING_MANAGEMENT_APPROVAL",
          "PENDING_AMENDMENT", "PENDING_REVISION", "ESCALATED", "CANCELLED"}
  \cup {"PENDING_AMENDMENT"} \X
         {"PENDING_COMPLIANCE_REVIEW", "PENDING_MANAGEMENT_APPROVAL",
          "PENDING_RISK_OWNER_APPROVAL", "PENDING_REVISION", "CANCELLED"}
  \cup {"PENDING_MANAGEMENT_APPROVAL"} \X
         {"PENDING_COMPLIANCE_REVIEW", "PENDING_AMENDMENT", "PENDING_REVISION",
          "ESCALATED", "CANCELLED"}
  \cup {"PENDING_COMPLIANCE_REVIEW"} \X
         {"APPROVED", "PENDING_REVISION", "ESCALATED", "CANCELLED"}
  \cup {"APPROVED"} \X
         {"PENDING_OWNER_COMPLETION_APPROVAL", "PENDING_AMENDMENT", "ESCALATED"}
  \cup {"PENDING_OWNER_COMPLETION_APPROVAL"} \X
         {"PENDING_COMPLIANCE_CLOSURE", "PENDING_MANAGEMENT_CLOSURE_APPROVAL",
          "PENDING_REVISION", "APPROVED"}
  \cup {"PENDING_MANAGEMENT_CLOSURE_APPROVAL"} \X
         {"PENDING_COMPLIANCE_CLOSURE", "PENDING_REVISION", "APPROVED"}
  \cup {"PENDING_COMPLIANCE_CLOSURE"} \X {"CLOSED", "APPROVED"}
  \cup {"PENDING_REVISION"} \X
         {"PENDING_RISK_OWNER_APPROVAL", "PENDING_OWNER_COMPLETION_APPROVAL",
          "PENDING_MANAGEMENT_CLOSURE_APPROVAL", "PENDING_COMPLIANCE_REVIEW",
          "CANCELLED"}
  \cup {"ESCALATED"} \X {"PENDING_MANAGEMENT_APPROVAL", "APPROVED", "CANCELLED"}

\* Mutant: the table before restricted edits were added to it.
isValidRiskTransition_NoAmendment(from, to) ==
  from = to \/ <<from, to>> \in allowedRiskTransitions \ {<<"APPROVED", "PENDING_AMENDMENT">>}

\* A no-op is always legal.  (An empty current status cannot occur: the column
\* is NOT NULL.)
isValidRiskTransition(from, to) ==
  from = to \/ <<from, to>> \in allowedRiskTransitions

\* The approval a status move stands for, as the handlers record it in the
\* risk's history; {} for the moves that approve nothing.
SignOff(from, to) ==
  CASE from \in OwnerStages /\ to \in {"PENDING_MANAGEMENT_APPROVAL",
                                       "PENDING_COMPLIANCE_REVIEW"}  -> {"OWNER"}
    [] from = "PENDING_MANAGEMENT_APPROVAL"
         /\ to = "PENDING_COMPLIANCE_REVIEW"                         -> {"MANAGEMENT"}
    [] from = "PENDING_COMPLIANCE_REVIEW" /\ to = "APPROVED"         -> {"COMPLIANCE"}
    [] from = "PENDING_OWNER_COMPLETION_APPROVAL"
         /\ to \in {"PENDING_MANAGEMENT_CLOSURE_APPROVAL",
                    "PENDING_COMPLIANCE_CLOSURE"}                    -> {"COMPLETION_OWNER"}
    [] from = "PENDING_MANAGEMENT_CLOSURE_APPROVAL"
         /\ to = "PENDING_COMPLIANCE_CLOSURE"                        -> {"COMPLETION_MANAGEMENT"}
    [] OTHER                                                         -> {}

\* The approvals a risk must have had at some time to stand at `status`.
RequiredSignOffs(status) ==
  CASE status \in {"PENDING_MANAGEMENT_APPROVAL",
                   "PENDING_COMPLIANCE_REVIEW"}              -> {"OWNER"}
    [] status \in InRemediation \cup
         {"PENDING_AMENDMENT", "PENDING_OWNER_COMPLETION_APPROVAL"}
                                                             -> {"OWNER", "COMPLIANCE"}
    [] status \in {"PENDING_MANAGEMENT_CLOSURE_APPROVAL",
                   "PENDING_COMPLIANCE_CLOSURE", "CLOSED"}
                                        -> {"OWNER", "COMPLIANCE", "COMPLETION_OWNER"}
    [] OTHER                                                 -> {}
=============================================================================
