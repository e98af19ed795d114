---------------------- MODULE MCSqlSemanticHighlighter ----------------------
(* Instances of SqlSemanticHighlighter for TLC. *)
EXTENDS SqlSemanticHighlighter, TLC

CONSTANTS e1, e2

MCEngineSymmetry == Permutations(Engines)
=============================================================================
