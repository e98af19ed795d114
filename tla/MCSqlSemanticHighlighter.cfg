SPECIFICATION Spec
CONSTANTS
  e1 = e1
  e2 = e2
  NoEngine = NoEngine
  Engines = {e1, e2}
  MaxRevision = 3
  MaxRequests = 2
CHECK_DEADLOCK FALSE
SYMMETRY MCEngineSymmetry
INVARIANTS
  NoLostRehighlight
  WaiterHasNothingToDo
PROPERTY UsagesMatchText
