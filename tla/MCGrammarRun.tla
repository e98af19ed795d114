---- MODULE MCGrammarRun ----
(***************************************************************************)
(* Two grammar documents and one that is none, with the setting on.        *)
(***************************************************************************)
EXTENDS GrammarRun

CONSTANTS g1, g2, c

MCTargets == {g1, g2, c}
MCGrammars == {g1, g2}
====
