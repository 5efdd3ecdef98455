SPECIFICATION Spec
CONSTANTS
  r1 = r1
  r2 = r2
  q1 = q1
  q2 = q2
  Runners = {r1, r2}
  EvidenceRequests = {q1, q2}
  Tasks = {1, 2}
  MaxFiles = 3
  MaxUpload = 2
  MaxPauses = 2
  MaxClicks = 2
  Mixes <- AgentMixes
CHECK_DEADLOCK FALSE
INVARIANTS
  TypeOK
  FilesStored
  OnePausePerResume
PROPERTIES
  TaskEndsOnce
  ScreenshotsFiledUnderTheirTask
  EveryTaskEnds
