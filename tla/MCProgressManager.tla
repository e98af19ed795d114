------------------------- MODULE MCProgressManager -------------------------
(* Instances of ProgressManager: two queries, a search, a build and a       *)
(* grammar run, which are synchronous, in a view of ViewLimit indicators.   *)
EXTENDS ProgressManager, TLC

CONSTANTS q1, q2, s1, b1, g1

MCTasks == {q1, q2, s1, b1, g1}
MCTypes == {"Query", "Search", "Build", "Grammar"}
MCType  == [t \in MCTasks |-> CASE t \in {q1, q2} -> "Query" [] t = s1 -> "Search"
                               [] t = b1 -> "Build" [] t = g1 -> "Grammar"]
MCSync  == {b1, g1}

\* ElementsAt says what SelectSeq says.
ASSUME \A n \in 0..4 : \A list \in [1..n -> MCTypes] : \A type \in MCTypes :
         ElementsAt(list, {i \in DOMAIN list : list[i] # type})
           = SelectSeq(list, LAMBDA x : x # type)
=============================================================================
