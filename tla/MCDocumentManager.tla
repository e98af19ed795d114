------------------------- MODULE MCDocumentManager -------------------------
(* Instances of DocumentManager: two documents, two files.                  *)
EXTENDS DocumentManager, TLC

CONSTANTS d1, d2, f1, f2

MCDocuments == {d1, d2}
MCFiles     == {f1, f2}
OneResource == {f1}
Symmetry    == Permutations(MCDocuments)
=============================================================================
