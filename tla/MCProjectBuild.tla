---- MODULE MCProjectBuild ----
(***************************************************************************)
(* Six projects.                                                           *)
(***************************************************************************)
EXTENDS ProjectBuild

CONSTANTS p1, p2, p3, p4, p5, p6

MCTargets == {p1, p2, p3, p4, p5, p6}
====
