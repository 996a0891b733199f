SPECIFICATION Spec
CONSTANTS
  NumTasks = 1
  Period = 2
  Timeout = 1
  MaxTime = 5
  ClockSteps = FALSE
INVARIANT SecondAsked
