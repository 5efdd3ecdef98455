--------------------------- MODULE MCAuditControls ---------------------------
(* Instances of AuditControls for TLC: the mixes of operations of each run.  *)
EXTENDS AuditControls, TLC

CONSTANTS r1, r2

PopulationOps == {"SubmitPopulation", "ReviewPopulation", "ValidatePopulation", "SubmitSample",
                  "RequestSampleTime"}
EvidenceOps   == {"SubmitEvidence", "WithdrawEvidence", "ReviewEvidence", "ValidateEvidence",
                  "DeleteEvidenceFile", "DeleteEvidenceRound"}
AdminOps      == {"OverrideControlStatus", "ChangeRequirementType", "DeleteControl"}
AuditOps      == {"OtherControls", "UpdateAudit", "DeleteAudit"}

\* The whole workflow; the population and the evidence with the admin's operations;
\* the population with failures, and with bare PATCHes; overrides, PATCHes and changes
\* of the type, one of which may cross an override; the audit's status.
ControlMixes ==
  {PopulationOps \cup EvidenceOps,
   {"SubmitPopulation", "ReviewPopulation", "ValidatePopulation"} \cup AdminOps,
   EvidenceOps \cup AdminOps \cup {"CallFails"},
   PopulationOps \cup {"ChangeRequirementType", "CallFails"},
   {"SubmitPopulation", "ReviewPopulation", "UpdateControlStatus", "ChangeRequirementType"},
   {"OverrideControlStatus", "UpdateControlStatus", "ChangeRequirementType"},
   {"SubmitEvidence", "ReviewEvidence", "ValidateEvidence", "OverrideControlStatus", "DeleteControl"}
     \cup AuditOps}

\* A team that submits its evidence again, in review or withdrawn; nothing fails.
ResubmitMix == {{"SubmitEvidence", "WithdrawEvidence"}}

\* Two resubmissions of the population at the same time take three rounds.
Rounds == [population |-> 3, evidence |-> 2]

Symmetry == Permutations(Requests)
=============================================================================
