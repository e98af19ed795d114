---------------------------- MODULE MCDbManager ----------------------------
(* Instances of DbManager for TLC. *)
EXTENDS DbManager, TLC

CONSTANTS a, b, c, d, pg, lite

(* Four connections, so that a connection may be closed on either side of   *)
(* the current one with another one beyond it; two database types.          *)
MCConnections == {a, b, c, d}
MCEngineOf    == [x \in MCConnections |-> IF x \in {a, c} THEN pg ELSE lite]

(* Connections of one type are interchangeable.                             *)
MCSymmetry == {p @@ q : p \in Permutations({a, c}), q \in Permutations({b, d})}
=============================================================================
