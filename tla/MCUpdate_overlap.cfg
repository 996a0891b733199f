SPECIFICATION Spec
CONSTANTS
  MaxCommands = 2
  MaxCuts = 0
  Bodies <- GoodOnly
  Overlap = TRUE
  ZeroStack = FALSE
CHECK_DEADLOCK FALSE
INVARIANT AppRunnable
