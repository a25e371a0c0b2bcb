---------------------------- MODULE LiveHandles ----------------------------
(***************************************************************************)
(* What the entity registry promises to the holders of handles, whatever   *)
(* it stores: a spawned entity gets a handle that was never given out      *)
(* before, no two live entities share an index, and a handle is live from  *)
(* the spawn that returned it to its despawn and never again.              *)
(***************************************************************************)
CONSTANT Handles

VARIABLES
  issued,  \* the handles returned so far
  live     \* those whose entity is still alive

vars == <<issued, live>>

Init == issued = {} /\ live = {}

Spawn(h) ==
  /\ h \in Handles \ issued
  /\ \A k \in live : k.index # h.index
  /\ issued' = issued \union {h}
  /\ live' = live \union {h}

Despawn(h) ==
  /\ h \in live
  /\ live' = live \ {h}
  /\ UNCHANGED issued

Next == \E h \in Handles : Spawn(h) \/ Despawn(h)

Spec == Init /\ [][Next]_vars

=============================================================================
