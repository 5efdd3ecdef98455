--------------------------- MODULE MCRiskWorkflow ---------------------------
(* Instances of RiskWorkflow for TLC: the operations and edits of each run.  *)
EXTENDS RiskWorkflow, TLC

CONSTANTS r1, r2, r3, p1, p2, s1, s2, e1, e2

\* Approval, revision, completion and closure, with the plan and its evidence.
ApprovalOps == {"OwnerApprove", "ManagementApprove", "Approve", "Reject", "Resubmit", "Close",
                "Cancel", "Complete", "Update", "Assess", "ActionPlan", "CompletePlan",
                "DeleteEvidence"}

\* Plans, their steps and their evidence against completion and its revisions.
PlanOps == {"OwnerApprove", "Approve", "Reject", "Resubmit", "Complete", "ActionPlan",
            "CompletePlan", "DeleteEvidence", "Update"}

\* Escalation against completion and amended dates.  Resubmit is left out: see README.
EscalationOps == {"OwnerApprove", "Approve", "Reject", "Complete", "Update", "ActionPlan",
                  "CompletePlan", "Escalate", "EscalationJob", "Comment"}

Edit(gross, due, steps) == [gross |-> gross, approver |-> Keep, due |-> due, steps |-> steps]

NoEdits         == {}
\* The edit form sends the date it has read back with whatever was changed.
ApprovalEdits   == {Edit("HIGH", Keep, {}), Edit(Keep, Keep, {s1})}
EscalationEdits == {Edit(Keep, "AHEAD", {}), Edit(Keep, Same, {})}

Symmetry == Permutations(Requests) \cup Permutations(Escalations)
=============================================================================
