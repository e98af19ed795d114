SPECIFICATION FairSpec
CONSTANTS
  j1 = j1
  j2 = j2
  Jobs = {j1, j2}
  Scripts <- MCScripts
  HasTransactionFeature = TRUE
  DdlTransactions = TRUE
  AbortsOnFailure = TRUE
  MaxCloseRequests = 2
CHECK_DEADLOCK FALSE
INVARIANTS
  ResultBelongsToHead
  NoLostWakeup
  ClosedIsQuiescent
  FinishedJobsRan
  NoForgottenTransaction
PROPERTIES
  FailureKeepsEarlierWork
  WorkLostOnlyWhenAsked
  ImplementsService
  EveryJobFinishes
