SPECIFICATION NavigationSpec
CONSTANTS
  a = a
  b = b
  form = form
  s = s
  t = t
  Documents <- MCDocuments
  TextDocuments <- MCTextDocuments
  States <- MCStates
  None = None
  Limit = 5
  Half = 2
SYMMETRY MCSymmetry
INVARIANTS
  NavigationTypeOK
  NoClosedDocuments
  CommandsAgree
  PlacesReturn
