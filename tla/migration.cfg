SPECIFICATION Spec
CONSTANTS
  Sheets <- MCSheets
  PageLimit = 2
  MaxRisks = 6
  MaxActs = 3
  Mixes <- MCMixes
CHECK_DEADLOCK FALSE
INVARIANTS
  TypeOK
  OneRiskPerRow
  WrittenOnce
  CleanRunMeansMigrated
PROPERTIES
  RerunChangesNothing
  TerminalIsFinal
  EveryRowLands
