SPECIFICATION FairSpec
CONSTANTS
  MaxJobs = 2
  Connected = TRUE
  Disconnects = TRUE
CHECK_DEADLOCK FALSE
INVARIANTS
  TypeOK
  NoCommandCutOff
PROPERTY ProcessEnds
