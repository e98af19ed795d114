SPECIFICATION Spec
CONSTANTS
  j1 = j1
  j2 = j2
  Jobs = {j1, j2}
  Scripts <- MCScripts
  HasTransactionFeature = TRUE
  DdlTransactions = TRUE
  AbortsOnFailure = FALSE
  MaxCloseRequests = 1
CHECK_DEADLOCK FALSE
PROPERTY PromptTellsTruth
