------------------------------- MODULE EcsMap -------------------------------
(***************************************************************************)
(* What World promises, whatever tables it uses: a map from the live       *)
(* entities to the components each one has.  A component value is          *)
(* identified by the entity it was given to.                               *)
(***************************************************************************)
CONSTANTS Handles, SpawnBundles, InsertBundles, RemoveBundles

VARIABLES
  issued,  \* the handles returned so far
  store    \* store[h][c]: the value of component c of the live entity h

vars == <<issued, store>>

Types(b) == {b[i] : i \in DOMAIN b}

Init == issued = {} /\ store = [h \in {} |-> {}]

Spawn(h, b) ==
  /\ h \in Handles \ issued
  /\ \A k \in DOMAIN store : k.index # h.index
  /\ issued' = issued \union {h}
  /\ store' = [k \in DOMAIN store \union {h} |-> IF k = h THEN [c \in Types(b) |-> h] ELSE store[k]]

Despawn(h) ==
  /\ h \in DOMAIN store
  /\ store' = [k \in DOMAIN store \ {h} |-> store[k]]
  /\ UNCHANGED issued

\* A component that the entity has already is replaced.
Insert(h, b) ==
  /\ h \in DOMAIN store
  /\ store' = [store EXCEPT ![h] = [c \in DOMAIN @ \union Types(b) |->
                                     IF c \in Types(b) THEN h ELSE @[c]]]
  /\ UNCHANGED issued

Remove(h, b) ==
  /\ h \in DOMAIN store
  /\ Types(b) \subseteq DOMAIN store[h]
  /\ store' = [store EXCEPT ![h] = [c \in DOMAIN @ \ Types(b) |-> @[c]]]
  /\ UNCHANGED issued

Next ==
  \E h \in Handles :
    \/ \E b \in SpawnBundles : Spawn(h, b)
    \/ Despawn(h)
    \/ \E b \in InsertBundles : Insert(h, b)
    \/ \E b \in RemoveBundles : Remove(h, b)

Spec == Init /\ [][Next]_vars

=============================================================================
