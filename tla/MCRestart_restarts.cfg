SPECIFICATION FairSpec
CONSTANTS
  MaxJobs = 1
  Connected = FALSE
  Disconnects = FALSE
CHECK_DEADLOCK FALSE
PROPERTY RestartsAfterUpdate
