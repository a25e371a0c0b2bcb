------------------------------ MODULE Accesses ------------------------------
(***************************************************************************)
(* What a system declares that it accesses, and when two declarations      *)
(* conflict: scheduler/graph.rs.                                           *)
(***************************************************************************)
EXTENDS Naturals

CONSTANTS
  AccessTypes,  \* AccessType: the components and resources, and World
  WorldAccess   \* AccessType::World

ASSUME AccessesAssumption == WorldAccess \in AccessTypes

\* AccessDesc.
AccessDescs == [ty : AccessTypes, mutable : BOOLEAN]

\* AccessDesc::conflicts.
Conflicts(d, e) ==
  \/ d.ty = WorldAccess
  \/ d.ty = e.ty /\ (d.mutable \/ e.mutable)
=============================================================================
