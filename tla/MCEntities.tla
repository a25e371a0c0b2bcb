---------------------------- MODULE MCEntities ----------------------------
(* Instances of Entities for TLC: the values of the constants.               *)
EXTENDS Entities

CONSTANTS t1, t2

MCTables == {t1, t2}
MCRows == 1 .. 2
=============================================================================
