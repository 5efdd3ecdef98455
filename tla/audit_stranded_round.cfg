SPECIFICATION Spec
CONSTANTS
  r1 = r1
  r2 = r2
  Requests = {r1}
  MaxRounds <- Rounds
  Mixes <- ResubmitMix
SYMMETRY Symmetry
CHECK_DEADLOCK FALSE
INVARIANT EarlierRoundsDecided
