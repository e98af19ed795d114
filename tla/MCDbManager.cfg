SPECIFICATION Spec
CONSTANTS
  a = a
  b = b
  c = c
  d = d
  pg = pg
  lite = lite
  Connections <- MCConnections
  EngineOf <- MCEngineOf
  Engines = {pg, lite}
  None = None
  DefaultEngine = DefaultEngine
  MaxDbIndex = 5
CHECK_DEADLOCK FALSE
SYMMETRY MCSymmetry
INVARIANTS
  ListsAgree
  PanesAgree
  NamesUnique
  EngineOfCurrent
