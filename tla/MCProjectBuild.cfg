SPECIFICATION Spec
CONSTANTS
  p1 = p1
  p2 = p2
  p3 = p3
  p4 = p4
  p5 = p5
  p6 = p6
  Targets <- MCTargets
  None = None
INVARIANTS BuildBelongsToProject CommandsAgree
