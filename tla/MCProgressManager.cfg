SPECIFICATION ProgressSpec
CONSTANTS
  q1 = q1
  q2 = q2
  s1 = s1
  b1 = b1
  g1 = g1
  Tasks <- MCTasks
  Types <- MCTypes
  Type <- MCType
  SyncTasks <- MCSync
  NoTask = NoTask
  ViewLimit = 2
  MaxRunning = 2
CHECK_DEADLOCK FALSE
INVARIANTS ProgressTypeOK StatusAgrees ShownWhileRunning
PROPERTY EndedTasksGo
