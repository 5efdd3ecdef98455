SPECIFICATION Spec
CONSTANTS
  r1 = r1
  r2 = r2
  Requests = {r1, r2}
  MaxRounds <- Rounds
  Mixes <- ControlMixes
SYMMETRY Symmetry
CHECK_DEADLOCK FALSE
INVARIANTS
  TypeOK
  PopulationApprovedBehindEvidence
  OneReplacementRound
  TypeFitsStage
PROPERTIES
  AuditFollowsControls
  OverrideCascades
