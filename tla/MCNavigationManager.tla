------------------------ MODULE MCNavigationManager ------------------------
(* An instance of NavigationManager for TLC. *)
EXTENDS NavigationManager, TLC

CONSTANTS a, b, form, s, t

\* Two documents with an editor and one without, two places in each.
MCDocuments     == {a, b, form}
MCTextDocuments == {a, b}
MCStates        == {s, t}
MCSymmetry      == {p @@ q : p \in Permutations(MCTextDocuments), q \in Permutations(MCStates)}
=============================================================================
