SPECIFICATION FairSpec
CONSTANTS
  g1 = g1
  g2 = g2
  c = c
  Targets <- MCTargets
  Grammars <- MCGrammars
  None = None
  RunOnSave = TRUE
INVARIANTS MembersAgree
PROPERTIES OnlySavedTextRuns ExitedRunEnds
