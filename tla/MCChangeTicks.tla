---------------------------- MODULE MCChangeTicks ----------------------------
(* Three entities, two tables that have the component, and two ticks. *)
EXTENDS ChangeTicks, TLC

CONSTANTS E1, E2, E3, T1, T2

MCEntities == {E1, E2, E3}
MCTables == {T1, T2}

Symmetry == Permutations(MCEntities) \union Permutations(MCTables)
=============================================================================
