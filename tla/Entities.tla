------------------------------ MODULE Entities ------------------------------
(***************************************************************************)
(* The entity registry as a component of its own, driven by the calls that *)
(* World, Archetypes and Table make: World::spawn allocates a handle and   *)
(* spawns its metadata, World::despawn removes it, and moving an entity    *)
(* between tables or rows overwrites metadata in place.  Where the entity  *)
(* is stored is left to the caller: any table and any row.                 *)
(*                                                                         *)
(* The names are apart from those of World, so that one module can use     *)
(* what is proved about both.                                              *)
(***************************************************************************)
EXTENDS EntityRegistry, FiniteSets

CONSTANTS
  Tables,  \* table pointers
  Rows     \* rows of a table

VARIABLE registry

RegistryInit == registry = EmptyRegistry

SpawnEntity(t, r) ==
  /\ MayAllocate(registry)
  /\ registry' = SpawnMeta(Allocate(registry), Meta(AllocatedHandle(registry), t, r))

\* World::despawn: a stale handle leaves at get_meta.
DespawnEntity(h) ==
  /\ HasMeta(registry, h)
  /\ registry' = DespawnMeta(registry, h)

DespawnStale(h) ==
  /\ ~HasMeta(registry, h)
  /\ UNCHANGED registry

\* Table::remove moved the entity into another row.
MoveRow(h, r) == registry' = SetRowMeta(registry, h.index, r)

\* Archetypes::insert or remove moved the entity into another table.
MoveTable(h, t, r) == registry' = SetMeta(registry, h.index, Meta(h, t, r))

RegistryNext ==
  \/ \E t \in Tables, r \in Rows : SpawnEntity(t, r)
  \/ \E h \in Issued(registry) : DespawnEntity(h) \/ DespawnStale(h)
  \/ \E h \in Live(registry), r \in Rows : MoveRow(h, r)
  \/ \E h \in Live(registry), t \in Tables, r \in Rows : MoveTable(h, t, r)

RegistrySpec == RegistryInit /\ [][RegistryNext]_registry

-----------------------------------------------------------------------------
(* Type invariant: the registry is a record of vectors.                     *)
RegistryTypeOK == registry \in Registries(Metas(Tables, Rows))

\* sparse and dense are inverse to each other: the slot of every live entity
\* leads to its own metadata, after any number of swap_removes (despawn_meta).
SparseDenseAgree ==
  VectorsAligned(registry) /\ DenseToSparse(registry) /\ SparseToDense(registry)

\* The freelist holds exactly the indices that no live entity uses, each one
\* once: an index given out twice would give two entities one slot.
FreelistExact ==
  FreelistIsDead(registry) /\ DeadIsFree(registry) /\ FreelistInjective(registry)

\* get_meta and is_alive agree on every handle that was ever issued, and the
\* metadata returned is that of the handle asked for, not of the entity that
\* reuses its index.
LookupsAgree ==
  \A h \in Issued(registry) :
    /\ HasMeta(registry, h) <=> IsAlive(registry, h)
    /\ HasMeta(registry, h) => GetMeta(registry, h).handle = h

\* A handle whose entity died is never alive again (a despawn, then a spawn
\* that recycles the index, must not revive the old handle).
DeadStaysDead ==
  [][\A h \in Issued(registry) : ~IsAlive(registry, h) => ~IsAlive(registry', h)]_registry

\* The registry implements what it promises to the holders of handles.
Promise == INSTANCE LiveHandles WITH issued <- Issued(registry), live <- Live(registry)

ImplementsLiveHandles == Promise!Spec

=============================================================================
