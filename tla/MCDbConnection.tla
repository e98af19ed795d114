--------------------------- MODULE MCDbConnection ---------------------------
(* Instances of DbConnection for TLC. *)
EXTENDS DbConnection

CONSTANTS j1, j2

(* Scripts that meet every branch: work before and after the end of a       *)
(* transaction, a statement that is not part of one, an empty text.         *)
MCScripts == { <<>>, <<"dml">>, <<"dml", "commit">>, <<"ddl", "dml">>, <<"dml", "rollback">> }
=============================================================================
