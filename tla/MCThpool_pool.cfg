SPECIFICATION FairSpec
CONSTANTS
  w1 = w1
  w2 = w2
  main = main
  other = other
  j1 = j1
  j2 = j2
  NoJob = NoJob
  Owner = main
  Workers <- TwoWorkers
  Created <- TwoWorkers
  Clients <- MainAndOther
  Waiters <- MainAndOther
  Jobs <- TwoJobs
INVARIANTS
  TypeOK
  RunOnce
  NoStrandedJob
  WaitMeansDone
  IInv
PROPERTIES
  KeepsPromise
  DestroyReturns
  EveryJobRuns
  WaitEnds
