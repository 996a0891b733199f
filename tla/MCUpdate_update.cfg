SPECIFICATION Spec
CONSTANTS
  MaxCommands = 3
  MaxCuts = 2
  Bodies <- AllBodies
  Overlap = TRUE
  ZeroStack = TRUE
CHECK_DEADLOCK FALSE
INVARIANTS
  TypeOK
  CleanOnlyWhenInstalled
PROPERTY HarmHasItsCause
