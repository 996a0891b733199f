SPECIFICATION FairSpec
CONSTANTS
  NumTasks = 2
  Period = 2
  Timeout = 1
  MaxTime = 5
  ClockSteps = TRUE
INVARIANTS
  TypeOK
  SoloJob
  NeverLeftArmed
PROPERTIES
  OncePerTrigger
  DueRuns
