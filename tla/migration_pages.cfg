SPECIFICATION Spec
CONSTANTS
  Sheets <- TiesSheets
  PageLimit = 2
  MaxRisks = 6
  MaxActs = 0
  Mixes <- TiesMixes
CHECK_DEADLOCK FALSE
PROPERTY RerunChangesNothing
