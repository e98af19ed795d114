---------------------------- MODULE MCDbCatalog ----------------------------
(* Instances of DbCatalog: two tables, an index of each.                    *)
EXTENDS DbCatalog

CONSTANTS t1, t2, i1, i2

MCTables  == {t1, t2}
MCIndexes == {i1, i2}
MCTableOf == [i \in MCIndexes |-> IF i = i1 THEN t1 ELSE t2]
=============================================================================
