SPECIFICATION Spec
CONSTANTS
  work = work
  home = home
  Default = Default
  text = text
  db = db
  Sessions <- MCSessions
  Texts <- MCTexts
  Connections <- MCConnections
  Clients = 2
  MaxStarts = 3
CHECK_DEADLOCK FALSE
INVARIANTS TypeOK NewTextsKept
PROPERTY ImplementsStore
