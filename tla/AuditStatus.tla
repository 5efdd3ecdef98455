----------------------------- MODULE AuditStatus -----------------------------
(* The tables of the audit workflow: the statuses of a control and of its    *)
(* population and evidence rounds, the steps the entity admits between them, *)
(* and the tables of the admin override.                                     *)
EXTENDS Naturals

PopulationStages == {"POPULATION_PENDING", "POPULATION_INTERNAL_REVIEW", "POPULATION_UNDER_VALIDATION",
                     "POPULATION_NEED_CLARIFICATION"}

ControlStatuses == PopulationStages \cup
  {"POPULATION_COMPLETE", "AWAITING_SAMPLE", "SUBMITTED_SAMPLE", "EVIDENCE_PENDING",
   "EVIDENCE_INTERNAL_REVIEW", "EVIDENCE_UNDER_VALIDATION", "EVIDENCE_NEED_CLARIFICATION", "COMPLETE"}

allowedControlTransitions ==
  [s \in ControlStatuses |->
    CASE s = "POPULATION_PENDING"            -> {"POPULATION_INTERNAL_REVIEW"}
      [] s = "POPULATION_INTERNAL_REVIEW"    -> {"POPULATION_UNDER_VALIDATION", "POPULATION_PENDING"}
      [] s = "POPULATION_UNDER_VALIDATION"   -> {"POPULATION_COMPLETE", "POPULATION_NEED_CLARIFICATION"}
      [] s = "POPULATION_NEED_CLARIFICATION" -> {"POPULATION_INTERNAL_REVIEW"}
      [] s = "POPULATION_COMPLETE"           -> {"AWAITING_SAMPLE", "SUBMITTED_SAMPLE", "EVIDENCE_PENDING"}
      [] s = "AWAITING_SAMPLE"               -> {"SUBMITTED_SAMPLE", "EVIDENCE_PENDING"}
      [] s = "SUBMITTED_SAMPLE"              -> {"EVIDENCE_PENDING", "EVIDENCE_INTERNAL_REVIEW"}
      [] s = "EVIDENCE_PENDING"              -> {"EVIDENCE_INTERNAL_REVIEW"}
      [] s = "EVIDENCE_INTERNAL_REVIEW"      -> {"EVIDENCE_UNDER_VALIDATION", "EVIDENCE_PENDING"}
      [] s = "EVIDENCE_UNDER_VALIDATION"     -> {"COMPLETE", "EVIDENCE_NEED_CLARIFICATION"}
      [] s = "EVIDENCE_NEED_CLARIFICATION"   -> {"EVIDENCE_INTERNAL_REVIEW"}
      [] s = "COMPLETE"                      -> {}]

isValidControlTransition(from, to) == from = to \/ to \in allowedControlTransitions[from]

controlStatusRank ==
  [s \in ControlStatuses |->
    CASE s = "POPULATION_PENDING"            -> 0
      [] s = "POPULATION_INTERNAL_REVIEW"    -> 1
      [] s = "POPULATION_NEED_CLARIFICATION" -> 1
      [] s = "POPULATION_UNDER_VALIDATION"   -> 2
      [] s = "POPULATION_COMPLETE"           -> 3
      [] s = "AWAITING_SAMPLE"               -> 4
      [] s = "SUBMITTED_SAMPLE"              -> 5
      [] s = "EVIDENCE_PENDING"              -> 6
      [] s = "EVIDENCE_NEED_CLARIFICATION"   -> 6
      [] s = "EVIDENCE_INTERNAL_REVIEW"      -> 7
      [] s = "EVIDENCE_UNDER_VALIDATION"     -> 8
      [] s = "COMPLETE"                      -> 9]

designControlFloorRank == controlStatusRank["EVIDENCE_PENDING"]

\* Mutant: the floor of the DESIGN controls is dropped.
isValidOverrideTransition_NoFloor(type, from, to) == controlStatusRank[to] < controlStatusRank[from]

isValidOverrideTransition(type, from, to) ==
  /\ controlStatusRank[to] < controlStatusRank[from]
  /\ type = "DESIGN" => controlStatusRank[to] >= designControlFloorRank

-----------------------------------------------------------------------------
(* Rounds.  Only a population round starts as PENDING.                       *)

Rejected == {"COMPLIANCE_REJECTED", "AUDITOR_REJECTED"}

RoundStatuses == Rejected \cup {"PENDING", "SUBMITTED", "COMPLIANCE_APPROVED", "APPROVED"}

\* allowedPopulationTransitions; allowedEvidenceTransitions is the same table
\* without the row of PENDING.
allowedRoundTransitions ==
  [s \in RoundStatuses |->
    CASE s = "PENDING"             -> {"SUBMITTED"}
      [] s = "SUBMITTED"           -> {"COMPLIANCE_APPROVED", "COMPLIANCE_REJECTED"}
      [] s = "COMPLIANCE_APPROVED" -> {"APPROVED", "AUDITOR_REJECTED"}
      [] s \in Rejected            -> {"SUBMITTED"}
      [] s = "APPROVED"            -> {}]

isValidRoundTransition(from, to) == from = to \/ to \in allowedRoundTransitions[from]

\* populationStatusRank, evidenceStatusRank.
roundStatusRank ==
  [s \in RoundStatuses |->
    CASE s = "SUBMITTED" -> 1 [] s = "COMPLIANCE_APPROVED" -> 2 [] s = "APPROVED" -> 3 [] OTHER -> 0]

\* FindActivePopulation: the latest round is still open to the team.
OpenToTeam == Rejected \cup {"PENDING", "SUBMITTED"}

\* What an override of the control to a status demotes the latest round to.
Untouched == "UNTOUCHED"

\* Mutant: the population is not touched by an override back to clarification.
overridePopulationTarget_NoClarification ==
  [s \in ControlStatuses |->
    CASE s = "POPULATION_PENDING"            -> "PENDING"
      [] s = "POPULATION_INTERNAL_REVIEW"    -> "SUBMITTED"
      [] s = "POPULATION_UNDER_VALIDATION"   -> "COMPLIANCE_APPROVED"
      [] s \in {"POPULATION_COMPLETE", "AWAITING_SAMPLE", "SUBMITTED_SAMPLE"} -> "APPROVED"
      [] OTHER                               -> Untouched]

overridePopulationTarget ==
  [s \in ControlStatuses |->
    CASE s = "POPULATION_PENDING"            -> "PENDING"
      [] s = "POPULATION_INTERNAL_REVIEW"    -> "SUBMITTED"
      [] s = "POPULATION_UNDER_VALIDATION"   -> "COMPLIANCE_APPROVED"
      [] s = "POPULATION_NEED_CLARIFICATION" -> "AUDITOR_REJECTED"
      [] s \in {"POPULATION_COMPLETE", "AWAITING_SAMPLE", "SUBMITTED_SAMPLE"} -> "APPROVED"
      [] OTHER                               -> Untouched]

overrideEvidenceTarget ==
  [s \in ControlStatuses |->
    CASE s = "EVIDENCE_INTERNAL_REVIEW"    -> "SUBMITTED"
      [] s = "EVIDENCE_UNDER_VALIDATION"   -> "COMPLIANCE_APPROVED"
      [] s = "EVIDENCE_NEED_CLARIFICATION" -> "AUDITOR_REJECTED"
      [] s = "COMPLETE"                    -> Untouched
      [] OTHER                             -> "COMPLIANCE_REJECTED"]
=============================================================================
