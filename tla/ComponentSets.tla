---------------------------- MODULE ComponentSets ----------------------------
(***************************************************************************)
(* What signatures promise: the archetypes are sets of component types, and *)
(* a bundle is one that is put together type by type.                      *)
(***************************************************************************)
CONSTANT ComponentIds

VARIABLES archetypes, bundle

vars == <<archetypes, bundle>>

Init == archetypes = {} /\ bundle = {}

AddType(id) == bundle' = bundle \union {id} /\ UNCHANGED archetypes

Use(archetype) == archetypes' = archetypes \union {archetype} /\ bundle' = {}

Spawn == Use(bundle)

\* A bundle that overlaps with its entity is inserted only where there is a table for both.
Insert(base) ==
  /\ bundle \intersect base = {} \/ base \union bundle \in archetypes
  /\ Use(base \union bundle)

Remove(base) == bundle \subseteq base /\ Use(base \ bundle)

\* The entity has not all of the components: nothing is removed.
Refuse(base) == ~(bundle \subseteq base) /\ bundle' = {} /\ UNCHANGED archetypes

Next ==
  \/ \E id \in ComponentIds : AddType(id)
  \/ Spawn
  \/ \E base \in archetypes : Insert(base) \/ Remove(base) \/ Refuse(base)

Spec == Init /\ [][Next]_vars
=============================================================================
