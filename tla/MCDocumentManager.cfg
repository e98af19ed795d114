SPECIFICATION Spec
CONSTANTS
  d1 = d1
  d2 = d2
  f1 = f1
  f2 = f2
  New = New
  Documents <- MCDocuments
  Files <- MCFiles
  ResourceFiles <- OneResource
SYMMETRY Symmetry
INVARIANTS TypeOK NothingIgnored
