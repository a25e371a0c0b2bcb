---------------------------- MODULE WorldProofs ----------------------------
(***************************************************************************)
(* Theorems about World and Queries, for every set of components, every    *)
(* choice of bundles, and any number of indices, generations and tables.   *)
(*                                                                         *)
(* The inductive invariant, WorldInv, says where the entities are: the     *)
(* registry is well formed (EntitiesProofs), there is one table for each   *)
(* signature in lookup (ArchetypesOK), and the live entities are exactly   *)
(* those in the tables, each in the one that its metadata names (Placed).  *)
(* Each operation of World changes the three together, and is taken apart  *)
(* into what it does to the registry (SpawnPlaces, DespawnPlaces,          *)
(* SetMetaPlaces, RemovePlaces), to a table (AddEntityOK, PushValuesOK,    *)
(* TableRemoveOK), to the list of tables (FindOK, ReplacedOK), and to all  *)
(* of them at once (ArrivesOK, LeavesOK, MovesOK).  The same lemmas say    *)
(* what the operation does to the map from entities to components that     *)
(* World implements.                                                       *)
(*                                                                         *)
(* The row that the metadata names is not in the invariant, nor are the    *)
(* columns of a table: the operations that move an entity get them wrong   *)
(* (RowStoresComponents, ColumnsMatchSignature).  A world where both are   *)
(* right is sound (SoundAt), and the safe steps keep it so: SoundInsert,   *)
(* SoundCopy and SoundRemove say it of a table, ArrivesSound, LeavesSound  *)
(* and MovesSound of all of them.  That they do not panic needs one more   *)
(* invariant, ColumnsOnce.                                                 *)
(*                                                                         *)
(* The second part is about Queries, for every query and filter over such  *)
(* a world.  QueryInv adds what the cache lists (CacheOK) and how the rows *)
(* of the cached tables are divided between those returned and those that  *)
(* the iterator or the producers still have (RowsOK).                      *)
(***************************************************************************)
EXTENDS Queries, EntitiesProofs, FiniteSetTheorems

-----------------------------------------------------------------------------
(* Where the registry says that the entities are.                           *)

\* The values of a column, of a lookup of rows and of a table: the types of table.rs.
Columns == [ty : Components, data : Seq(Handles)]
RowLookups == UNION {[D -> Nat] : D \in SUBSET Handles}
TableValues ==
  [signature : SUBSET Components, entities : Seq(Handles),
   entity_lookup : RowLookups, columns : Seq(Columns)]
\* Tables are numbered from 1, rows in the metadata may be any number.
Positions == Nat \ {0}
WorldMetas == Metas(Positions, Nat)
\* The registry keeps its promises.
RegistryOK(e) == e \in Registries(WorldMetas) /\ WellFormed(e)

\* A live handle has an index and metadata of its own.
LEMMA LiveHandle ==
  ASSUME NEW e, RegistryOK(e), NEW h \in Live(e)
  PROVE  /\ h \in Handles /\ h.index \in 1 .. Len(e.generations)
         /\ DOMAIN e.sparse = 1 .. Len(e.generations)
         /\ IsAlive(e, h) /\ HasMeta(e, h) /\ e.sparse[h.index] # None
         /\ GetMeta(e, h) \in WorldMetas
         /\ GetMeta(e, h).handle = h
<1>1. /\ h \in Handles /\ h.index \in 1 .. Len(e.generations) /\ IsAlive(e, h)
      /\ DOMAIN e.sparse = 1 .. Len(e.generations)
  BY DEF Live, Issued, RegistryOK, Registries, WellFormed, VectorsAligned
<1> QED
  BY <1>1, LookupOK DEF RegistryOK, WorldMetas, IsAlive

\* No two live entities share an index.
LEMMA LiveIndices ==
  ASSUME NEW e, RegistryOK(e), NEW h \in Live(e), NEW k \in Live(e), h # k
  PROVE  h.index # k.index
<1>1. CurrentGeneration(e, h) /\ CurrentGeneration(e, k) /\ h \in Handles /\ k \in Handles
  BY LiveHandle DEF IsAlive
<1> QED
  BY <1>1 DEF CurrentGeneration, Handles

\* What a spawn, a despawn and an update of the metadata leave of the metadata of the
\* other entities.
LEMMA SpawnPlaces ==
  ASSUME NEW e, RegistryOK(e), MayAllocate(e), NEW t \in Positions, NEW r \in Nat
  PROVE  LET h == AllocatedHandle(e)
             f == SpawnMeta(Allocate(e), Meta(h, t, r))
         IN  /\ RegistryOK(f)
             /\ GetMeta(f, h) = Meta(h, t, r)
             /\ \A k \in Live(e) : GetMeta(f, k) = GetMeta(e, k)
<1> DEFINE h == AllocatedHandle(e)
           a == Allocate(e)
           m == Meta(h, t, r)
           f == SpawnMeta(a, m)
           n == Len(e.dense)
<1>1. /\ h \in Handles /\ a \in Registries(WorldMetas)
      /\ a.dense = e.dense /\ a.sparse = e.sparse
  BY AllocateOK DEF RegistryOK
<1>2. /\ f \in Registries(WorldMetas) /\ WellFormed(f)
      /\ \A i \in 1 .. Len(e.generations) : i # h.index => f.sparse[i] = e.sparse[i]
  BY SpawnOK DEF RegistryOK, WorldMetas
<1>3. \A k \in Live(e) : k.index # h.index
  BY SpawnIssues DEF RegistryOK, WorldMetas
<1>4. m \in WorldMetas /\ m.handle = h
  BY <1>1 DEF Meta, WorldMetas, Metas
<1> HIDE DEF h, a, m
<1>5. f.dense = Append(e.dense, m)
  <2>1. f.dense = Append(a.dense, m)
    BY <1>1, <1>4 DEF SpawnMeta, Registries
  <2> QED
    BY <1>1, <2>1
<1>6. f.sparse[h.index] = n + 1
  <2> DEFINE grown == GrownTo(a.sparse, m.handle.index, None)
  <2>1. f.sparse = [grown EXCEPT ![m.handle.index] = Len(a.dense) + 1]
    BY <1>1 DEF SpawnMeta, Registries
  <2>2. h.index \in Nat /\ a.sparse \in Seq(Nat) /\ h.index \in 1 .. h.index
    BY <1>1, RegistryAssumption DEF Handles, Indices, Registries
  <2>3. DOMAIN grown = 1 .. IF h.index > Len(a.sparse) THEN h.index ELSE Len(a.sparse)
    BY <1>4 DEF GrownTo
  <2> HIDE DEF grown
  <2>4. h.index \in DOMAIN grown
    BY <2>2, <2>3
  <2> QED
    BY <1>1, <1>4, <2>1, <2>4
<1> HIDE DEF f
<1>7. e.dense \in Seq(WorldMetas) /\ n \in Nat
  BY DEF RegistryOK, Registries
<1>8. GetMeta(f, h) = m
  BY <1>4, <1>5, <1>6, <1>7 DEF GetMeta
<1>9. ASSUME NEW k \in Live(e)
      PROVE  GetMeta(f, k) = GetMeta(e, k)
  <2>1. k.index \in 1 .. Len(e.generations) /\ e.sparse[k.index] # None /\ DOMAIN e.sparse = 1 .. Len(e.generations)
    BY LiveHandle
  <2>2. e.sparse[k.index] \in 1 .. n
    BY <1>7, <2>1 DEF RegistryOK, WellFormed, SparseToDense
  <2>3. f.sparse[k.index] = e.sparse[k.index]
    BY <1>2, <1>3, <2>1
  <2>4. Append(e.dense, m)[e.sparse[k.index]] = e.dense[e.sparse[k.index]]
    BY <1>4, <1>7, <2>2
  <2> QED
    BY <1>5, <2>3, <2>4 DEF GetMeta
<1> QED
  BY <1>2, <1>8, <1>9 DEF RegistryOK, f, a, m, h

\* A despawned entity is gone, and the metadata of the others is as it was.
LEMMA DespawnPlaces ==
  ASSUME NEW e, RegistryOK(e), NEW h \in Live(e)
  PROVE  /\ RegistryOK(DespawnMeta(e, h))
         /\ Issued(DespawnMeta(e, h)) = Issued(e)
         /\ Live(DespawnMeta(e, h)) = Live(e) \ {h}
         /\ \A k \in Live(e) \ {h} : GetMeta(DespawnMeta(e, h), k) = GetMeta(e, k)
<1> DEFINE f == DespawnMeta(e, h)
           hole == e.sparse[h.index]
           n == Len(e.dense)
           dense == SwapRemove(e.dense, hole)
           freed == [e.sparse EXCEPT ![h.index] = None]
           sparse == IF hole = n THEN freed ELSE [freed EXCEPT ![dense[hole].handle.index] = hole]
<1>1. /\ h \in Issued(e) /\ IsAlive(e, h) /\ h \in Handles
      /\ h.index \in 1 .. Len(e.generations) /\ hole # None
  BY LiveHandle DEF Live
<1>2. /\ f \in Registries(WorldMetas) /\ WellFormed(f)
  BY <1>1, DespawnOK DEF RegistryOK
<1>3. Issued(f) = Issued(e) /\ Live(f) = Live(e) \ {h}
  BY <1>1, DespawnKills DEF RegistryOK
<1>4. f.dense = dense /\ f.sparse = sparse
  BY <1>1 DEF DespawnMeta, RegistryOK, Registries
<1>5. /\ e.dense \in Seq(WorldMetas) /\ n \in Nat /\ DOMAIN e.dense = 1 .. n
      /\ DOMAIN e.sparse = 1 .. Len(e.generations)
      /\ hole \in 1 .. n
  BY <1>1 DEF RegistryOK, Registries, WellFormed, VectorsAligned, SparseToDense
<1>6. ASSUME NEW k \in Live(e) \ {h}
      PROVE  GetMeta(f, k) = GetMeta(e, k)
  <2> DEFINE d == e.sparse[k.index]
  <2>1. /\ k.index \in 1 .. Len(e.generations) /\ d # None
        /\ GetMeta(e, k).handle = k /\ k.index # h.index
    BY LiveHandle, LiveIndices
  <2>2. d \in 1 .. n /\ e.dense[d].handle = k
    BY <1>5, <2>1 DEF RegistryOK, WellFormed, SparseToDense, GetMeta
  <2>3. d # hole
    BY <1>1, <1>5, <2>1, <2>2 DEF RegistryOK, WellFormed, SparseToDense
  <2>4. CASE d = n
    <3>1. hole # n /\ hole \in 1 .. n - 1
      BY <1>5, <2>3, <2>4
    <3>2. dense[hole] = e.dense[n]
      BY <1>5, <3>1 DEF SwapRemove
    <3>3. sparse[k.index] = hole
      BY <1>5, <2>1, <2>2, <2>4, <3>1, <3>2
    <3> QED
      BY <1>4, <2>4, <3>2, <3>3 DEF GetMeta
  <2>5. CASE d # n
    <3>1. d \in 1 .. n - 1
      BY <1>5, <2>2, <2>5
    <3>2. dense[d] = e.dense[d]
      BY <1>5, <2>3, <3>1 DEF SwapRemove
    <3>3. sparse[k.index] = d
      <4>1. freed[k.index] = d
        BY <1>5, <2>1
      <4>2. CASE hole = n
        BY <4>1, <4>2
      <4>3. CASE hole # n
        <5>1. hole \in 1 .. n - 1
          BY <1>5, <4>3
        <5>2. dense[hole] = e.dense[n]
          BY <1>5, <5>1 DEF SwapRemove
        <5>3. n \in 1 .. n /\ e.dense[n].handle.index \in DOMAIN e.sparse /\ e.sparse[e.dense[n].handle.index] = n
          BY <1>5 DEF RegistryOK, WellFormed, DenseToSparse
        <5>4. e.dense[n].handle.index # k.index
          BY <2>5, <5>3
        <5> QED
          BY <1>5, <2>1, <4>1, <4>3, <5>2, <5>4
      <4> QED
        BY <4>2, <4>3
    <3> QED
      BY <1>4, <3>2, <3>3 DEF GetMeta
  <2> QED
    BY <2>4, <2>5
<1> QED
  BY <1>2, <1>3, <1>6 DEF RegistryOK

\* Setting the metadata of one entity changes that of no other.
LEMMA SetMetaPlaces ==
  ASSUME NEW e, RegistryOK(e), NEW h \in Live(e), NEW t \in Positions, NEW r \in Nat
  PROVE  LET f == SetMeta(e, h.index, Meta(h, t, r))
         IN  /\ RegistryOK(f)
             /\ Issued(f) = Issued(e) /\ Live(f) = Live(e)
             /\ GetMeta(f, h) = Meta(h, t, r)
             /\ \A k \in Live(e) \ {h} : GetMeta(f, k) = GetMeta(e, k)
<1> DEFINE m == Meta(h, t, r)
           f == SetMeta(e, h.index, m)
           d == e.sparse[h.index]
<1>1. /\ h \in Handles /\ IsAlive(e, h) /\ h.index \in DOMAIN e.sparse /\ d # None
      /\ DOMAIN e.sparse = 1 .. Len(e.generations)
  BY LiveHandle
<1>2. /\ f \in Registries(WorldMetas) /\ WellFormed(f)
      /\ f.generations = e.generations /\ f.sparse = e.sparse
  BY <1>1, SetMetaOK DEF RegistryOK, WorldMetas
<1>3. Issued(f) = Issued(e) /\ Live(f) = Live(e)
  <2> HIDE DEF f
  <2>1. Issued(f) = Issued(e)
    BY <1>2 DEF Issued
  <2> QED
    BY <1>2, <2>1 DEF Live, IsAlive, CurrentGeneration
<1>4. f.dense = [e.dense EXCEPT ![d] = m]
  <2> HIDE DEF m
  <2> QED
    BY <1>1 DEF SetMeta, RegistryOK, Registries
<1>5. d \in DOMAIN e.dense
  BY <1>1 DEF RegistryOK, WellFormed, SparseToDense
<1> HIDE DEF f, m
<1>6. GetMeta(f, h) = m
  BY <1>2, <1>4, <1>5 DEF GetMeta
<1>7. ASSUME NEW k \in Live(e) \ {h}
      PROVE  GetMeta(f, k) = GetMeta(e, k)
  <2>1. k.index \in DOMAIN e.sparse /\ e.sparse[k.index] # None /\ k.index # h.index
    BY LiveHandle, LiveIndices
  <2>2. e.sparse[k.index] \in DOMAIN e.dense /\ e.sparse[k.index] # d
    BY <1>1, <1>5, <2>1 DEF RegistryOK, WellFormed, SparseToDense
  <2> QED
    BY <1>2, <1>4, <2>2 DEF GetMeta
<1> QED
  BY <1>2, <1>3, <1>6, <1>7 DEF RegistryOK, f, m

\* entity_lookup finds the row of every entity of the table.
RowsFound(t) ==
  \A r \in DOMAIN t.entities :
    t.entities[r] \in DOMAIN t.entity_lookup /\ t.entity_lookup[t.entities[r]] = r

\* The parts of a table and their domains.
LEMMA TableParts ==
  ASSUME NEW t \in TableValues
  PROVE  /\ t.signature \in SUBSET Components /\ t.entities \in Seq(Handles)
         /\ t.columns \in Seq(Columns)
         /\ DOMAIN t.entity_lookup \in SUBSET Handles
         /\ t.entity_lookup \in [DOMAIN t.entity_lookup -> Nat]
         /\ Len(t.entities) \in Nat /\ DOMAIN t.entities = 1 .. Len(t.entities)
         /\ Len(t.columns) \in Nat /\ DOMAIN t.columns = 1 .. Len(t.columns)
         /\ ToSet(t.entities) \in SUBSET Handles
<1>1. /\ t.signature \in SUBSET Components /\ t.entities \in Seq(Handles)
      /\ t.columns \in Seq(Columns)
      /\ t.entity_lookup \in RowLookups
  BY DEF TableValues
<1>2. PICK D \in SUBSET Handles : t.entity_lookup \in [D -> Nat]
  BY <1>1 DEF RowLookups
<1>3. DOMAIN t.entity_lookup = D
  BY <1>2
<1> QED
  BY <1>1, <1>2, <1>3 DEF ToSet

\* Table::remove changes rows in the registry, but no table.
LEMMA RemovePlaces ==
  ASSUME NEW e, RegistryOK(e), NEW t \in TableValues, RowsFound(t),
         ToSet(t.entities) \subseteq Live(e), NEW h \in ToSet(t.entities)
  PROVE  LET f == RegistryAfterRemove(e, t, h)
         IN  /\ RegistryOK(f)
             /\ Issued(f) = Issued(e) /\ Live(f) = Live(e)
             /\ \A k \in Live(e) : GetMeta(f, k).table = GetMeta(e, k).table
             /\ \A k \in Live(e) :
                  GetMeta(f, k).row = IF RemoveMovesRow(t, h) /\ k = Last(t.entities)
                                      THEN t.entity_lookup[h] ELSE GetMeta(e, k).row
<1> DEFINE f == RegistryAfterRemove(e, t, h)
           n == Len(t.entities)
<1>1. CASE RemoveMovesRow(t, h)
  <2> DEFINE l == t.entities[n]
             row == t.entity_lookup[h]
             old == GetMeta(e, l)
  <2>1. n \in Nat /\ n > 1 /\ n \in DOMAIN t.entities
    BY <1>1, TableParts DEF RemoveMovesRow
  <2>2. l \in Live(e)
    BY <2>1 DEF ToSet
  <2>3. row \in Nat
    BY <1>1, TableParts DEF RemoveMovesRow
  <2>4. old.handle = l /\ old.table \in Positions
    BY <2>2, LiveHandle DEF WorldMetas, Metas
  <2>5. f = SetMeta(e, l.index, Meta(l, old.table, row))
    BY <1>1, <2>4 DEF RegistryAfterRemove, SetRowMeta, GetMeta, Last
  <2> HIDE DEF f, old, l, row
  <2>6. /\ RegistryOK(f) /\ Issued(f) = Issued(e) /\ Live(f) = Live(e)
        /\ GetMeta(f, l) = Meta(l, old.table, row)
        /\ \A k \in Live(e) \ {l} : GetMeta(f, k) = GetMeta(e, k)
    BY <2>2, <2>3, <2>4, <2>5, SetMetaPlaces
  <2>7. GetMeta(f, l).table = GetMeta(e, l).table /\ GetMeta(f, l).row = row
    BY <2>6 DEF Meta, old
  <2>8. l = Last(t.entities)
    BY DEF l, Last
  <2> QED
    BY <1>1, <2>6, <2>7, <2>8 DEF f, row
<1>2. CASE ~RemoveMovesRow(t, h)
  BY <1>2 DEF RegistryAfterRemove
<1> QED
  BY <1>1, <1>2

-----------------------------------------------------------------------------
(* Tables.                                                                  *)

\* swap_remove keeps a vector a vector.
LEMMA SwapRemoveType ==
  ASSUME NEW S, NEW s \in Seq(S), NEW i
  PROVE  SwapRemove(s, i) \in Seq(S)
<1>1. SwapRemove(s, i) \in [1 .. Len(s) - 1 -> S]
  BY DEF SwapRemove
<1>2. CASE Len(s) = 0
  <2>1. 1 .. Len(s) - 1 = 1 .. 0
    BY <1>2
  <2> QED
    BY <1>1, <2>1
<1>3. CASE Len(s) # 0
  <2>1. Len(s) - 1 \in Nat
    BY <1>3
  <2> QED
    BY <1>1, <2>1
<1> QED
  BY <1>2, <1>3

\* Appending a row adds its entity, and entity_lookup finds it.
LEMMA AddEntityOK ==
  ASSUME NEW t \in TableValues, RowsFound(t), NEW h \in Handles, h \notin ToSet(t.entities)
  PROVE  LET u == AddEntity(t, h)
         IN  /\ u \in TableValues /\ RowsFound(u)
             /\ u.signature = t.signature /\ u.columns = t.columns
             /\ ToSet(u.entities) = ToSet(t.entities) \union {h}
<1> DEFINE u == AddEntity(t, h)
           n == Len(t.entities)
           found == Inserted(t.entity_lookup, h, n + 1)
<1>1. /\ t.entities \in Seq(Handles) /\ n \in Nat /\ DOMAIN t.entities = 1 .. n
      /\ DOMAIN t.entity_lookup \in SUBSET Handles
      /\ t.entity_lookup \in [DOMAIN t.entity_lookup -> Nat]
      /\ t.signature \in SUBSET Components /\ t.columns \in Seq(Columns)
  BY TableParts
<1>2. found \in [DOMAIN t.entity_lookup \union {h} -> Nat]
  BY <1>1 DEF Inserted
<1>3. DOMAIN t.entity_lookup \union {h} \in SUBSET Handles
  BY <1>1
<1>4. /\ u = [t EXCEPT !.entities = Append(t.entities, h), !.entity_lookup = found]
  BY DEF AddEntity
<1> HIDE DEF found, u
<1>5. /\ u \in TableValues
      /\ u.signature = t.signature /\ u.columns = t.columns
      /\ u.entities = Append(t.entities, h) /\ u.entity_lookup = found
  <2>1. Append(t.entities, h) \in Seq(Handles)
    BY <1>1
  <2>2. found \in RowLookups
    BY <1>2, <1>3 DEF RowLookups
  <2> DEFINE more == Append(t.entities, h)
  <2> HIDE DEF more
  <2>3. u = [t EXCEPT !.entities = more, !.entity_lookup = found]
    BY <1>4 DEF more
  <2>4. more \in Seq(Handles) /\ found \in RowLookups
    BY <2>1, <2>2 DEF more, RowLookups
  <2>5. u \in TableValues
    BY <2>3, <2>4 DEF TableValues
  <2>6. /\ u.signature = t.signature /\ u.columns = t.columns
        /\ u.entities = more /\ u.entity_lookup = found
    BY <2>3 DEF TableValues
  <2> QED
    BY <2>5, <2>6 DEF more
<1>6. /\ DOMAIN u.entities = 1 .. n + 1 /\ u.entities[n + 1] = h
      /\ \A r \in 1 .. n : u.entities[r] = t.entities[r]
  BY <1>1, <1>5
<1>7. ASSUME NEW r \in 1 .. n + 1
      PROVE  u.entities[r] \in DOMAIN found /\ found[u.entities[r]] = r
  <2>1. CASE r = n + 1
    BY <1>2, <1>6, <2>1 DEF found, Inserted
  <2>2. CASE r # n + 1
    <3>0. r \in 1 .. n
      BY <1>1, <2>2
    <3>1. r \in 1 .. n /\ t.entities[r] # h
      BY <1>1, <3>0 DEF ToSet
    <3>2. t.entities[r] \in DOMAIN t.entity_lookup /\ t.entity_lookup[t.entities[r]] = r
      BY <1>1, <3>1 DEF RowsFound
    <3> QED
      BY <1>6, <3>1, <3>2 DEF found, Inserted
  <2> QED
    BY <2>1, <2>2
<1>8. RowsFound(u)
  BY <1>5, <1>6, <1>7 DEF RowsFound
<1>9. ToSet(u.entities) = ToSet(t.entities) \union {h}
  <2>1. DOMAIN u.entities = DOMAIN t.entities \union {n + 1}
    BY <1>1, <1>6
  <2> QED
    BY <1>1, <1>6, <2>1 DEF ToSet
<1> QED
  BY <1>5, <1>8, <1>9 DEF u

\* A row that is pushed changes nothing but the columns.
LEMMA PushValuesOK ==
  ASSUME NEW t \in TableValues, NEW values,
         \A i \in DOMAIN t.columns : t.columns[i].ty \in DOMAIN values => values[t.columns[i].ty] \in Handles
  PROVE  LET u == PushValues(t, values)
         IN  /\ u \in TableValues
             /\ u.signature = t.signature /\ u.entities = t.entities
             /\ u.entity_lookup = t.entity_lookup
             /\ Len(u.columns) = Len(t.columns)
             /\ \A i \in DOMAIN t.columns :
                  /\ u.columns[i].ty = t.columns[i].ty
                  /\ u.columns[i].data = IF t.columns[i].ty \in DOMAIN values
                                         THEN Append(t.columns[i].data, values[t.columns[i].ty])
                                         ELSE t.columns[i].data
<1> DEFINE pushed(col) == WithData(col, Append(col.data, values[col.ty]))
           columns == [i \in DOMAIN t.columns |->
                         IF t.columns[i].ty \in DOMAIN values THEN pushed(t.columns[i]) ELSE t.columns[i]]
           u == PushValues(t, values)
<1>1. t.columns \in Seq(Columns) /\ Len(t.columns) \in Nat /\ DOMAIN t.columns = 1 .. Len(t.columns)
  BY TableParts
<1>2. u = [t EXCEPT !.columns = columns]
  BY DEF PushValues
<1>3. ASSUME NEW i \in DOMAIN t.columns
      PROVE  /\ columns[i] \in Columns /\ columns[i].ty = t.columns[i].ty
             /\ columns[i].data = IF t.columns[i].ty \in DOMAIN values
                                  THEN Append(t.columns[i].data, values[t.columns[i].ty])
                                  ELSE t.columns[i].data
  <2>1. t.columns[i] \in Columns
    BY <1>1
  <2>2. CASE t.columns[i].ty \in DOMAIN values
    <3>1. Append(t.columns[i].data, values[t.columns[i].ty]) \in Seq(Handles)
      BY <2>1, <2>2 DEF Columns
    <3> QED
      BY <2>1, <2>2, <3>1 DEF Columns, WithData
  <2>3. CASE t.columns[i].ty \notin DOMAIN values
    BY <2>1, <2>3
  <2> QED
    BY <2>2, <2>3
<1>4. columns \in [1 .. Len(t.columns) -> Columns]
  <2>1. columns = [i \in DOMAIN t.columns |-> columns[i]]
    OBVIOUS
  <2> HIDE DEF columns
  <2> QED
    BY <1>1, <1>3, <2>1
<1> HIDE DEF columns, u
<1>5. columns \in Seq(Columns) /\ Len(columns) = Len(t.columns)
  BY <1>1, <1>4
<1>6. /\ u \in TableValues
      /\ u.signature = t.signature /\ u.entities = t.entities
      /\ u.entity_lookup = t.entity_lookup /\ u.columns = columns
  BY <1>2, <1>5 DEF TableValues
<1> QED
  BY <1>3, <1>5, <1>6 DEF u

\* Table::remove takes the entity out of the table, and every other one is found again,
\* in the row that swap_remove leaves it in.
LEMMA TableRemoveOK ==
  ASSUME NEW t \in TableValues, RowsFound(t), NEW h \in ToSet(t.entities)
  PROVE  LET u == TableRemove(t, h)
         IN  /\ u \in TableValues /\ RowsFound(u)
             /\ u.signature = t.signature
             /\ ToSet(u.entities) = ToSet(t.entities) \ {h}
             /\ u.entities = SwapRemove(t.entities, t.entity_lookup[h])
             /\ u.columns = [i \in DOMAIN t.columns |-> ColumnSwapRemove(t.columns[i], t.entity_lookup[h])]
<1> DEFINE u == TableRemove(t, h)
           n == Len(t.entities)
           row == t.entity_lookup[h]
           last == t.entities[n]
           found == LookupAfterRemove(t, h)
           rows == SwapRemove(t.entities, row)
           columns == [i \in DOMAIN t.columns |-> ColumnSwapRemove(t.columns[i], row)]
<1>1. /\ t.entities \in Seq(Handles) /\ n \in Nat /\ DOMAIN t.entities = 1 .. n
      /\ DOMAIN t.entity_lookup \in SUBSET Handles
      /\ t.entity_lookup \in [DOMAIN t.entity_lookup -> Nat]
      /\ t.signature \in SUBSET Components /\ t.columns \in Seq(Columns)
      /\ Len(t.columns) \in Nat /\ DOMAIN t.columns = 1 .. Len(t.columns)
  BY TableParts
<1>2. /\ h \in DOMAIN t.entity_lookup
      /\ row \in 1 .. n /\ t.entities[row] = h
  <2>1. PICK r \in 1 .. n : t.entities[r] = h
    BY <1>1 DEF ToSet
  <2> QED
    BY <1>1, <2>1 DEF RowsFound
<1>3. ASSUME NEW q \in 1 .. n, NEW r \in 1 .. n, t.entities[q] = t.entities[r]
      PROVE  q = r
  <2>1. t.entity_lookup[t.entities[q]] = q /\ t.entity_lookup[t.entities[r]] = r
    BY <1>1 DEF RowsFound
  <2> QED
    BY <1>3, <2>1
<1>4. u = [t EXCEPT !.entity_lookup = found, !.entities = rows, !.columns = columns]
  BY <1>2, Zenon DEF TableRemove
<1>5. /\ rows \in Seq(Handles) /\ DOMAIN rows = 1 .. n - 1
      /\ \A j \in 1 .. n - 1 : rows[j] = IF j = row THEN last ELSE t.entities[j]
  <2>1. row \in 1 .. Len(t.entities)
    BY <1>2
  <2> HIDE DEF row
  <2>2. /\ SwapRemove(t.entities, row) \in Seq(Handles)
        /\ DOMAIN SwapRemove(t.entities, row) = 1 .. Len(t.entities) - 1
        /\ \A j \in 1 .. Len(t.entities) - 1 :
             SwapRemove(t.entities, row)[j] = IF j = row THEN t.entities[Len(t.entities)] ELSE t.entities[j]
    BY <1>1, <2>1, SwapRemoveVector
  <2> QED
    BY <2>2
<1>6. columns \in Seq(Columns)
  <2>1. ASSUME NEW i \in DOMAIN t.columns
        PROVE  columns[i] \in Columns
    <3>0. t.columns[i] \in Columns
      BY <1>1
    <3>1. t.columns[i] \in Columns /\ t.columns[i].data \in Seq(Handles)
      BY <3>0 DEF Columns
    <3>2. SwapRemove(t.columns[i].data, row) \in Seq(Handles)
      BY <3>1, SwapRemoveType
    <3> QED
      BY <3>1, <3>2 DEF Columns, ColumnSwapRemove, WithData
  <2>2. columns = [i \in DOMAIN t.columns |-> columns[i]]
    OBVIOUS
  <2> HIDE DEF columns
  <2>3. columns \in [1 .. Len(t.columns) -> Columns]
    BY <1>1, <2>1, <2>2
  <2> QED
    BY <1>1, <2>3
<1>7. /\ n > 1 => /\ DOMAIN found = (DOMAIN t.entity_lookup \ {h}) \union {last}
                  /\ found[last] = row
                  /\ \A k \in DOMAIN t.entity_lookup \ {h, last} : found[k] = t.entity_lookup[k]
      /\ ~(n > 1) => /\ DOMAIN found = DOMAIN t.entity_lookup \ {h}
                     /\ \A k \in DOMAIN t.entity_lookup \ {h} : found[k] = t.entity_lookup[k]
      /\ found = [k \in DOMAIN found |-> found[k]]
  BY <1>2 DEF LookupAfterRemove, RemoveMovesRow, Inserted, Last
<1>8. last \in DOMAIN t.entity_lookup /\ last \in Handles
  <2>1. n \in 1 .. n
    BY <1>1, <1>2
  <2> QED
    BY <1>1, <2>1 DEF RowsFound
<1> HIDE DEF found, rows, columns, u, row
<1>9. found \in RowLookups
  <2>1. DOMAIN found \in SUBSET Handles
    BY <1>1, <1>7, <1>8
  <2>2. \A k \in DOMAIN found : found[k] \in Nat
    <3>1. row \in Nat
      BY <1>2
    <3>2. CASE n > 1
      BY <1>1, <1>7, <3>1, <3>2
    <3>3. CASE ~(n > 1)
      BY <1>1, <1>7, <3>3
    <3> QED
      BY <3>2, <3>3
  <2>3. found \in [DOMAIN found -> Nat]
    BY <1>7, <2>2, Zenon
  <2> QED
    BY <2>1, <2>3 DEF RowLookups
<1>10. /\ u \in TableValues
       /\ u.signature = t.signature /\ u.entities = rows /\ u.entity_lookup = found
       /\ u.columns = columns
  BY <1>1, <1>4, <1>5, <1>6, <1>9 DEF TableValues
<1>11. ASSUME NEW j \in 1 .. n - 1
       PROVE  rows[j] \in DOMAIN found /\ found[rows[j]] = j
  <2>1. n > 1
    BY <1>1
  <2>2. CASE j = row
    BY <1>5, <1>7, <2>1, <2>2
  <2>3. CASE j # row
    <3>1. j \in 1 .. n /\ n \in 1 .. n /\ rows[j] = t.entities[j] /\ j # n
      BY <1>1, <1>5, <2>3
    <3>2. t.entities[j] # last /\ t.entities[j] # h
      BY <1>2, <1>3, <2>3, <3>1
    <3>3. t.entities[j] \in DOMAIN t.entity_lookup /\ t.entity_lookup[t.entities[j]] = j
      BY <1>1, <3>1 DEF RowsFound
    <3> QED
      BY <1>7, <2>1, <3>1, <3>2, <3>3
  <2> QED
    BY <2>2, <2>3
<1>12. RowsFound(u)
  BY <1>5, <1>10, <1>11 DEF RowsFound
<1>13. ToSet(rows) = ToSet(t.entities) \ {h}
  <2>1. ASSUME NEW k \in ToSet(rows)
        PROVE  k \in ToSet(t.entities) /\ k # h
    <3>1. PICK j \in 1 .. n - 1 : rows[j] = k
      BY <1>5 DEF ToSet
    <3>2. j \in 1 .. n /\ n \in 1 .. n /\ j # n
      BY <1>1
    <3>3. CASE j = row
      <4>1. last # h
        BY <1>2, <1>3, <3>2, <3>3
      <4> QED
        BY <1>1, <1>5, <3>1, <3>2, <3>3, <4>1 DEF ToSet
    <3>4. CASE j # row
      <4>1. k = t.entities[j] /\ k # h
        BY <1>2, <1>3, <1>5, <3>1, <3>2, <3>4
      <4> QED
        BY <1>1, <3>2, <4>1 DEF ToSet
    <3> QED
      BY <3>3, <3>4
  <2>2. ASSUME NEW k \in ToSet(t.entities), k # h
        PROVE  k \in ToSet(rows)
    <3>1. PICK j \in 1 .. n : t.entities[j] = k
      BY <1>1 DEF ToSet
    <3>2. j # row
      BY <1>2, <2>2, <3>1
    <3>3. CASE j = n
      <4>1. row \in 1 .. n - 1 /\ rows[row] = k
        BY <1>1, <1>2, <1>5, <3>1, <3>2, <3>3
      <4> QED
        BY <1>5, <4>1 DEF ToSet
    <3>4. CASE j # n
      <4>1. j \in 1 .. n - 1 /\ rows[j] = k
        BY <1>1, <1>5, <3>1, <3>2, <3>4
      <4> QED
        BY <1>5, <4>1 DEF ToSet
    <3> QED
      BY <3>3, <3>4
  <2> QED
    BY <2>1, <2>2
<1> QED
  BY <1>10, <1>12, <1>13 DEF u, rows, columns, row

-----------------------------------------------------------------------------
(* New tables.                                                              *)

\* A set of numbers has a least one: induction.
LEMMA LeastNumber ==
  ASSUME NEW T \in SUBSET Nat, T # {}
  PROVE  \E m \in T : \A k \in T : m <= k
<1> DEFINE Less == {ss \in Nat \X Nat : ss[1] < ss[2]}
<1>1. IsWellFoundedOn(Less, Nat)
  BY NatLessThanWellFounded, Zenon DEF OpToRel
<1> HIDE DEF Less
<1>2. PICK m \in T : \A k \in T : <<k, m>> \notin Less
  BY <1>1, WFMin
<1>3. ASSUME NEW k \in T
      PROVE  m <= k
  <2>1. m \in Nat /\ k \in Nat
    OBVIOUS
  <2>2. ~(k < m)
    BY <1>2, <2>1 DEF Less
  <2> QED
    BY <2>1, <2>2
<1> QED
  BY <1>3

\* A property of the numbers up to n that holds of 0 and, if it holds of one of
\* them, of the next, holds of all.
LEMMA UpTo ==
  ASSUME NEW n \in Nat, NEW T, 0 \in T,
         \A k \in 1 .. n : k - 1 \in T => k \in T
  PROVE  0 .. n \subseteq T
<1> SUFFICES ASSUME (0 .. n) \ T # {}
             PROVE  FALSE
  OBVIOUS
<1> DEFINE others == (0 .. n) \ T
<1>0. others \in SUBSET Nat /\ others # {}
  OBVIOUS
<1> HIDE DEF others
<1>1. PICK m \in others : \A k \in others : m <= k
  BY <1>0, LeastNumber
<1> USE DEF others
<1>2. m \in 1 .. n /\ m - 1 \in 0 .. n
  OBVIOUS
<1>3. m - 1 \in T
  BY <1>1, <1>2
<1> QED
  BY <1>1, <1>2, <1>3

\* f starts with x and takes a step for each number up to n.
Iterates(f, n, x, step) == f[0] = x /\ \A k \in 1 .. n : f[k] = step[k][f[k - 1]]

\* There is a function that starts with x and takes these steps.
LEMMA RecursionExists ==
  ASSUME NEW n \in Nat, NEW S, NEW x \in S, NEW step \in [1 .. n -> [S -> S]]
  PROVE  \E f \in [0 .. n -> S] : Iterates(f, n, x, step)
<1> DEFINE T == {m \in 0 .. n : \E f \in [0 .. m -> S] : Iterates(f, m, x, step)}
<1>1. 0 \in T
  <2> DEFINE f == [k \in 0 .. 0 |-> x]
  <2>1. f \in [0 .. 0 -> S] /\ Iterates(f, 0, x, step)
    BY DEF Iterates
  <2> HIDE DEF f
  <2>2. \E h \in [0 .. 0 -> S] : Iterates(h, 0, x, step)
    BY <2>1
  <2> QED
    BY <2>2
<1>2. ASSUME NEW m \in 1 .. n, m - 1 \in T
      PROVE  m \in T
  <2>1. PICK f \in [0 .. m - 1 -> S] : Iterates(f, m - 1, x, step)
    BY <1>2
  <2> DEFINE g == [k \in 0 .. m |-> IF k = m THEN step[m][f[m - 1]] ELSE f[k]]
  <2>2. g \in [0 .. m -> S]
    <3>1. step[m] \in [S -> S] /\ f[m - 1] \in S
      OBVIOUS
    <3> QED
      BY <3>1
  <2>3. ASSUME NEW k \in 1 .. m
        PROVE  g[k] = step[k][g[k - 1]]
    <3>1. g[k - 1] = f[k - 1]
      OBVIOUS
    <3>2. CASE k = m
      BY <3>1, <3>2
    <3>3. CASE k # m
      <4>1. k \in 1 .. m - 1 /\ g[k] = f[k]
        BY <3>3
      <4> QED
        BY <2>1, <3>1, <4>1 DEF Iterates
    <3> QED
      BY <3>2, <3>3
  <2>4. g[0] = x
    BY <2>1 DEF Iterates
  <2> HIDE DEF g
  <2>5. Iterates(g, m, x, step)
    BY <2>3, <2>4 DEF Iterates
  <2>6. \E h \in [0 .. m -> S] : Iterates(h, m, x, step)
    BY <2>2, <2>5
  <2> QED
    BY <2>6
<1>3. n \in T
  <2> HIDE DEF T
  <2>1. 0 .. n \subseteq T
    BY <1>1, <1>2, UpTo
  <2> QED
    BY <2>1
<1> QED
  BY <1>3

\* A bundle is a vector of types and names at least one.
LEMMA BundleOK ==
  ASSUME NEW b \in Bundles
  PROVE  /\ b \in Seq(Components)
         /\ Len(b) \in Nat \ {0} /\ DOMAIN b = 1 .. Len(b)
         /\ Types(b) \in SUBSET Components /\ Types(b) # {}
<1>1. Cardinality(Components) \in Nat
  BY TablesAssumption, FS_CardinalityType
<1>2. PICK n \in 1 .. Cardinality(Components) : b \in [1 .. n -> Components]
  BY <1>1 DEF Bundles
<1>3. n \in Nat \ {0}
  BY <1>1
<1>4. b \in Seq(Components) /\ Len(b) = n
  BY <1>2, <1>3
<1>5. 1 \in DOMAIN b
  BY <1>2, <1>3
<1> QED
  BY <1>2, <1>3, <1>4, <1>5 DEF Types, ToSet

\* A table as it is made: typed, and without rows.
IsNew(t, sig) == t \in TableValues /\ t.signature = sig /\ t.entities = <<>>

\* A new table is empty, so that every row of it is found.
LEMMA NewRows ==
  ASSUME NEW t, NEW sig, IsNew(t, sig)
  PROVE  RowsFound(t) /\ ToSet(t.entities) = {}
BY DEF IsNew, RowsFound, ToSet

\* Any columns make a table without rows.
LEMMA NewColumns ==
  ASSUME NEW columns \in Seq(Columns), NEW sig \in SUBSET Components
  PROVE  IsNew([signature |-> sig, entities |-> <<>>, entity_lookup |-> <<>>, columns |-> columns], sig)
<1>1. <<>> \in [{} -> Nat]
  <2>1. <<>> \in [1 .. 0 -> Nat] /\ 1 .. 0 = {}
    OBVIOUS
  <2> QED
    BY <2>1
<1>2. <<>> \in RowLookups
  BY <1>1 DEF RowLookups
<1>3. <<>> \in Seq(Handles)
  OBVIOUS
<1> QED
  BY <1>2, <1>3 DEF IsNew, TableValues

\* An empty column is a column.
LEMMA EmptyColumnType ==
  ASSUME NEW c \in Components
  PROVE  EmptyColumn(c) \in Columns
BY DEF EmptyColumn, Columns

\* The columns that a bundle asks for.
LEMMA BundleColumns ==
  ASSUME NEW b \in Bundles
  PROVE  [i \in DOMAIN b |-> EmptyColumn(b[i])] \in Seq(Columns)
<1>1. b \in Seq(Components) /\ Len(b) \in Nat /\ DOMAIN b = 1 .. Len(b)
  BY BundleOK
<1>2. [i \in DOMAIN b |-> EmptyColumn(b[i])] \in [1 .. Len(b) -> Columns]
  BY <1>1, EmptyColumnType
<1> QED
  BY <1>1, <1>2

\* The table for a spawned bundle has the signature of the bundle.
LEMMA NewTableOK ==
  ASSUME NEW b \in Bundles
  PROVE  IsNew(NewTable(b), Types(b))
BY BundleColumns, BundleOK, NewColumns DEF NewTable

\* The table of an insertion has the signatures of the table and of the bundle.
LEMMA NewJoinedTableOK ==
  ASSUME NEW base \in TableValues, NEW b \in Bundles
  PROVE  IsNew(NewJoinedTable(base, b), base.signature \union Types(b))
<1> DEFINE own == [i \in DOMAIN b |-> EmptyColumn(b[i])]
           theirs == [i \in DOMAIN base.columns |-> EmptyColumn(base.columns[i].ty)]
           sig == base.signature \union Types(b)
<1>1. base.columns \in Seq(Columns) /\ Len(base.columns) \in Nat /\ DOMAIN base.columns = 1 .. Len(base.columns)
  BY TableParts
<1>2. own \in Seq(Columns)
  BY BundleColumns
<1>3. theirs \in Seq(Columns)
  <2>1. ASSUME NEW i \in DOMAIN base.columns
        PROVE  base.columns[i].ty \in Components
    <3>1. base.columns[i] \in Columns
      BY <1>1
    <3> QED
      BY <3>1 DEF Columns
  <2>2. theirs \in [1 .. Len(base.columns) -> Columns]
    BY <1>1, <2>1, EmptyColumnType
  <2> QED
    BY <1>1, <2>2
<1>4. sig \in SUBSET Components
  BY TableParts, BundleOK
<1> HIDE DEF own, theirs
<1>5. IsNew(NewTable(b), Types(b)) /\ NewTable(b).columns = own
  BY NewTableOK DEF NewTable, own
<1>6. theirs \o own \in Seq(Columns)
  BY <1>2, <1>3
<1>7. NewJoinedTable(base, b) =
        [NewTable(b) EXCEPT !.signature = sig, !.columns = theirs \o own]
  <2>1. NewTable(b).signature \union base.signature = sig
    BY <1>5 DEF IsNew
  <2>2. NewJoinedTable(base, b) =
          [NewTable(b) EXCEPT !.signature = NewTable(b).signature \union base.signature,
                              !.columns = theirs \o NewTable(b).columns]
    BY DEF NewJoinedTable, theirs
  <2> HIDE DEF sig
  <2> QED
    BY <1>5, <2>1, <2>2
<1> HIDE DEF sig
<1>8. IsNew(NewJoinedTable(base, b), sig)
  BY <1>4, <1>5, <1>6, <1>7 DEF IsNew, TableValues
<1> QED
  BY <1>8 DEF sig

\* Table::new_subset visits the columns one after the other, and keeps the removed ones.
LEMMA NewSubsetOK ==
  ASSUME NEW base \in TableValues, NEW b \in Bundles
  PROVE  /\ IsNew(NewSubset(base, b), base.signature \ Types(b))
         /\ ColumnTypes(base) \intersect Types(b) \subseteq ColumnTypes(NewSubset(base, b))
<1> DEFINE n == Len(base.columns)
           more(k, s) == IF base.columns[k].ty \in Types(b)
                         THEN Append(s, EmptyColumn(base.columns[k].ty)) ELSE s
           step == [k \in 1 .. n |-> [s \in Seq(Columns) |-> more(k, s)]]
           IsKept(f) == f = [k \in 0 .. n |-> IF k = 0 THEN <<>> ELSE more(k, f[k - 1])]
           kept == CHOOSE f : IsKept(f)
           sig == base.signature \ Types(b)
<1>1. n \in Nat /\ \A k \in 1 .. n : base.columns[k].ty \in Components
  <2>1. base.columns \in Seq(Columns)
    BY TableParts
  <2>2. \A k \in 1 .. n : base.columns[k] \in Columns
    BY <2>1
  <2> QED
    BY <2>1, <2>2 DEF Columns
<1>2. \A k \in 1 .. n : \A s \in Seq(Columns) : more(k, s) \in Seq(Columns)
  BY <1>1, EmptyColumnType
<1>n. n = Len(base.columns)
  OBVIOUS
<1>3. <<>> \in Seq(Columns)
  OBVIOUS
<1>4. NewSubset(base, b) =
        [signature |-> sig, entities |-> <<>>, entity_lookup |-> <<>>, columns |-> kept[n]]
  BY DEF NewSubset
<1>5. sig \in SUBSET Components
  BY TableParts
<1> HIDE DEF n, more
<1>6. step \in [1 .. n -> [Seq(Columns) -> Seq(Columns)]]
  BY <1>2
<1>7. PICK f \in [0 .. n -> Seq(Columns)] : Iterates(f, n, <<>>, step)
  <2> HIDE DEF step
  <2> QED
    BY <1>1, <1>3, <1>6, RecursionExists
<1>8. IsKept(f)
  <2>1. ASSUME NEW k \in 1 .. n
        PROVE  f[k] = more(k, f[k - 1])
    <3>1. f[k - 1] \in Seq(Columns)
      BY <1>1
    <3> QED
      BY <1>7, <3>1 DEF Iterates
  <2>2. \A k \in 0 .. n : f[k] = IF k = 0 THEN <<>> ELSE more(k, f[k - 1])
    BY <1>1, <1>7, <2>1 DEF Iterates
  <2>3. f = [k \in 0 .. n |-> f[k]]
    OBVIOUS
  <2> QED
    BY <2>2, <2>3
<1>9. IsKept(kept)
  <2> HIDE DEF IsKept
  <2> QED
    BY <1>8
<1> HIDE DEF kept
<1>10. \A k \in 0 .. n : kept[k] = IF k = 0 THEN <<>> ELSE more(k, kept[k - 1])
  BY <1>9, Zenon
<1> DEFINE T == {k \in 0 .. n : kept[k] \in Seq(Columns)}
<1>11. 0 .. n \subseteq T
  <2>1. 0 \in T
    <3>1. 0 \in 0 .. n
      BY <1>1
    <3>2. kept[0] = <<>>
      BY <1>10, <3>1
    <3> QED
      BY <1>3, <3>1, <3>2
  <2>2. ASSUME NEW k \in 1 .. n, k - 1 \in T
        PROVE  k \in T
    <3>1. kept[k - 1] \in Seq(Columns) /\ k \in 0 .. n /\ k # 0
      BY <1>1, <2>2
    <3>2. kept[k] = more(k, kept[k - 1])
      BY <1>10, <3>1
    <3> QED
      BY <1>2, <3>1, <3>2
  <2> HIDE DEF T
  <2> QED
    BY <1>1, <2>1, <2>2, UpTo
<1>12. kept[n] \in Seq(Columns)
  BY <1>1, <1>11
<1> DEFINE U == {k \in 0 .. n : \A j \in 1 .. k :
                   base.columns[j].ty \in Types(b) =>
                     \E m \in DOMAIN kept[k] : kept[k][m].ty = base.columns[j].ty}
<1>13. 0 .. n \subseteq U
  <2>1. 0 \in U
    BY <1>1
  <2>2. ASSUME NEW k \in 1 .. n, k - 1 \in U
        PROVE  k \in U
    <3> DEFINE s == kept[k - 1]
    <3>1. s \in Seq(Columns) /\ k \in 0 .. n /\ k # 0 /\ k - 1 \in 0 .. n
      BY <1>1, <1>11
    <3>2. kept[k] = more(k, s)
      BY <1>10, <3>1
    <3> SUFFICES ASSUME NEW j \in 1 .. k, base.columns[j].ty \in Types(b)
                 PROVE  \E m \in DOMAIN kept[k] : kept[k][m].ty = base.columns[j].ty
      BY <3>1
    <3>3. CASE j = k
      <4>1. kept[k] = Append(s, EmptyColumn(base.columns[k].ty))
        BY <3>2, <3>3 DEF more
      <4>2. Len(s) + 1 \in DOMAIN kept[k] /\ kept[k][Len(s) + 1] = EmptyColumn(base.columns[k].ty)
        BY <3>1, <4>1
      <4> QED
        BY <3>3, <4>2 DEF EmptyColumn
    <3>4. CASE j # k
      <4>1. j \in 1 .. k - 1
        BY <1>1, <3>4
      <4>2. PICK m \in DOMAIN s : s[m].ty = base.columns[j].ty
        BY <2>2, <4>1
      <4>3. m \in DOMAIN more(k, s) /\ more(k, s)[m] = s[m]
        BY <3>1, <4>2 DEF more
      <4> QED
        BY <3>2, <4>2, <4>3
    <3> QED
      BY <3>3, <3>4
  <2> HIDE DEF U
  <2> QED
    BY <1>1, <2>1, <2>2, UpTo
<1> HIDE DEF U
<1>14. ASSUME NEW c \in ColumnTypes(base), c \in Types(b)
       PROVE  c \in ColumnTypes(NewSubset(base, b))
  <2>1. PICK j \in 1 .. n : base.columns[j].ty = c
    BY TableParts DEF ColumnTypes, n
  <2>2. n \in U
    BY <1>1, <1>13
  <2>3. PICK m \in DOMAIN kept[n] : kept[n][m].ty = c
    BY <1>14, <2>1, <2>2 DEF U
  <2>4. NewSubset(base, b).columns = kept[n]
    BY <1>4
  <2> QED
    BY <2>3, <2>4 DEF ColumnTypes
<1> QED
  BY <1>4, <1>5, <1>12, <1>14, NewColumns

-----------------------------------------------------------------------------
(* The archetypes, and where they keep the entities.                        *)

\* The lookups from signatures to tables.
Lookups == UNION {[D -> Positions] : D \in SUBSET SUBSET Components}

\* There is one table for each signature in lookup, and the generation counts them.
ArchetypesOK(a) ==
  /\ a \in [generation : Nat, tables : Seq(TableValues), lookup : Lookups]
  /\ a.generation = Len(a.tables)
  /\ \A i \in DOMAIN a.tables :
       /\ a.tables[i].signature \in DOMAIN a.lookup
       /\ a.lookup[a.tables[i].signature] = i
  /\ \A s \in DOMAIN a.lookup :
       a.lookup[s] \in DOMAIN a.tables /\ a.tables[a.lookup[s]].signature = s

\* The live entities are the ones in the tables, each in the one that its metadata names.
Placed(e, ts) ==
  /\ \A h \in Live(e) :
       /\ GetMeta(e, h).table \in DOMAIN ts
       /\ h \in ToSet(ts[GetMeta(e, h).table].entities)
  /\ \A i \in DOMAIN ts :
       /\ RowsFound(ts[i])
       /\ \A h \in ToSet(ts[i].entities) : h \in Live(e) /\ GetMeta(e, h).table = i

\* A table is added behind the others, and lookup finds it.
LEMMA InsertTableOK ==
  ASSUME NEW a, ArchetypesOK(a), NEW t, NEW sig \in SUBSET Components, IsNew(t, sig),
         sig \notin DOMAIN a.lookup
  PROVE  LET f == InsertTable(a, t)
         IN  /\ ArchetypesOK(f)
             /\ sig \in DOMAIN f.lookup
             /\ Len(f.tables) = Len(a.tables) + 1
             /\ \A i \in DOMAIN a.tables : f.tables[i] = a.tables[i]
             /\ f.tables[Len(a.tables) + 1] = t
<1> DEFINE f == InsertTable(a, t)
           n == Len(a.tables)
           lookup == Inserted(a.lookup, sig, n + 1)
           tables == Append(a.tables, t)
<1>1. /\ a.tables \in Seq(TableValues) /\ n \in Nat /\ DOMAIN a.tables = 1 .. n
      /\ a.lookup \in Lookups /\ a.generation = n
      /\ t \in TableValues /\ t.signature = sig
  BY DEF ArchetypesOK, IsNew
<1>2. PICK D \in SUBSET SUBSET Components : a.lookup \in [D -> Positions]
  BY <1>1 DEF Lookups
<1>3. f = [generation |-> n + 1, tables |-> tables, lookup |-> lookup]
  BY <1>1 DEF InsertTable
<1>4. /\ DOMAIN lookup = DOMAIN a.lookup \union {sig} /\ lookup[sig] = n + 1
      /\ \A s \in DOMAIN a.lookup : lookup[s] = a.lookup[s]
      /\ lookup = [s \in DOMAIN lookup |-> lookup[s]]
  <2>1. /\ DOMAIN lookup = DOMAIN a.lookup \union {sig} /\ lookup[sig] = n + 1
        /\ \A s \in DOMAIN a.lookup \ {sig} : lookup[s] = a.lookup[s]
        /\ lookup = [s \in DOMAIN lookup |-> lookup[s]]
    BY DEF Inserted
  <2> HIDE DEF lookup
  <2> QED
    BY <2>1
<1>5. /\ tables \in Seq(TableValues) /\ Len(tables) = n + 1 /\ DOMAIN tables = 1 .. n + 1
      /\ tables[n + 1] = t
      /\ \A i \in 1 .. n : tables[i] = a.tables[i]
  BY <1>1
<1> HIDE DEF lookup, tables, f
<1>6. lookup \in Lookups
  <2>1. DOMAIN lookup \in SUBSET SUBSET Components
    BY <1>2, <1>4
  <2>2. \A s \in DOMAIN lookup : lookup[s] \in Positions
    <3>1. n + 1 \in Positions
      BY <1>1 DEF Positions
    <3> QED
      BY <1>2, <1>4, <3>1
  <2>3. lookup \in [DOMAIN lookup -> Positions]
    BY <1>4, <2>2, Zenon
  <2> QED
    BY <2>1, <2>3 DEF Lookups
<1>7. ASSUME NEW i \in 1 .. n + 1
      PROVE  tables[i].signature \in DOMAIN lookup /\ lookup[tables[i].signature] = i
  <2>1. CASE i = n + 1
    BY <1>1, <1>4, <1>5, <2>1
  <2>2. CASE i # n + 1
    <3>1. i \in 1 .. n
      BY <1>1, <2>2
    <3>2. a.tables[i].signature \in DOMAIN a.lookup /\ a.lookup[a.tables[i].signature] = i
      BY <1>1, <3>1 DEF ArchetypesOK
    <3> QED
      BY <1>4, <1>5, <3>1, <3>2
  <2> QED
    BY <2>1, <2>2
<1>8. ASSUME NEW s \in DOMAIN lookup
      PROVE  lookup[s] \in 1 .. n + 1 /\ tables[lookup[s]].signature = s
  <2>1. CASE s = sig
    BY <1>1, <1>4, <1>5, <2>1
  <2>2. CASE s # sig
    <3>1. s \in DOMAIN a.lookup /\ lookup[s] = a.lookup[s]
      BY <1>4, <2>2
    <3>2. a.lookup[s] \in 1 .. n /\ a.tables[a.lookup[s]].signature = s
      BY <1>1, <3>1 DEF ArchetypesOK
    <3> QED
      BY <1>1, <1>5, <3>1, <3>2
  <2> QED
    BY <2>1, <2>2
<1>9. ArchetypesOK(f)
  <2>1. f.generation = n + 1 /\ f.tables = tables /\ f.lookup = lookup /\ n + 1 \in Nat
    BY <1>1, <1>3
  <2>2. f \in [generation : Nat, tables : Seq(TableValues), lookup : Lookups]
    BY <1>3, <1>5, <1>6, <2>1
  <2> QED
    BY <1>5, <1>7, <1>8, <2>1, <2>2 DEF ArchetypesOK
<1> QED
  BY <1>1, <1>3, <1>4, <1>5, <1>9 DEF f

\* A table for sig is found or made; the others are as they were, and no entity moved.
LEMMA FindOK ==
  ASSUME ArchetypesOK(archetypes), NEW sig \in SUBSET Components, NEW new, IsNew(new, sig)
  PROVE  LET f == FindOrInsert(sig, new)
         IN  /\ ArchetypesOK(f)
             /\ sig \in DOMAIN f.lookup
             /\ f.lookup[sig] \in DOMAIN f.tables
             /\ f.tables[f.lookup[sig]].signature = sig
             /\ \A i \in DOMAIN archetypes.tables :
                  i \in DOMAIN f.tables /\ f.tables[i] = archetypes.tables[i]
             /\ \A e : Placed(e, archetypes.tables) => Placed(e, f.tables)
<1> DEFINE f == FindOrInsert(sig, new)
           n == Len(archetypes.tables)
<1>0. /\ n \in Nat /\ DOMAIN archetypes.tables = 1 .. n
  BY DEF ArchetypesOK
<1>1. CASE sig \in DOMAIN archetypes.lookup
  BY <1>1 DEF FindOrInsert, Known, ArchetypesOK
<1>2. CASE sig \notin DOMAIN archetypes.lookup
  <2>1. f = InsertTable(archetypes, new)
    BY <1>2 DEF FindOrInsert, Known
  <2> HIDE DEF f
  <2>2. /\ ArchetypesOK(f) /\ sig \in DOMAIN f.lookup
        /\ Len(f.tables) = n + 1
        /\ \A i \in DOMAIN archetypes.tables : f.tables[i] = archetypes.tables[i]
        /\ f.tables[n + 1] = new
    BY <1>2, <2>1, InsertTableOK
  <2>3. DOMAIN f.tables = 1 .. n + 1
    BY <2>2 DEF ArchetypesOK
  <2>4. /\ f.lookup[sig] \in DOMAIN f.tables
        /\ f.tables[f.lookup[sig]].signature = sig
    BY <2>2 DEF ArchetypesOK
  <2>5. ASSUME NEW e, Placed(e, archetypes.tables)
        PROVE  Placed(e, f.tables)
    <3>1. ASSUME NEW h \in Live(e)
          PROVE  /\ GetMeta(e, h).table \in DOMAIN f.tables
                 /\ h \in ToSet(f.tables[GetMeta(e, h).table].entities)
      <4>1. /\ GetMeta(e, h).table \in 1 .. n
            /\ h \in ToSet(archetypes.tables[GetMeta(e, h).table].entities)
        BY <1>0, <2>5 DEF Placed
      <4> QED
        BY <1>0, <2>2, <2>3, <4>1
    <3>2. ASSUME NEW i \in 1 .. n
          PROVE  /\ RowsFound(f.tables[i])
                 /\ \A h \in ToSet(f.tables[i].entities) : h \in Live(e) /\ GetMeta(e, h).table = i
      BY <1>0, <2>2, <2>5 DEF Placed
    <3>3. RowsFound(f.tables[n + 1]) /\ ToSet(f.tables[n + 1].entities) = {}
      BY <2>2, NewRows
    <3>4. DOMAIN f.tables = 1 .. n \union {n + 1}
      BY <1>0, <2>3
    <3> QED
      BY <3>1, <3>2, <3>3, <3>4 DEF Placed
  <2> QED
    BY <1>0, <2>2, <2>3, <2>4, <2>5 DEF f
<1> QED
  BY <1>1, <1>2

\* Tables that keep their signatures can be replaced.
LEMMA ReplacedOK ==
  ASSUME NEW a, ArchetypesOK(a), NEW ts \in Seq(TableValues), Len(ts) = Len(a.tables),
         \A i \in DOMAIN a.tables : ts[i].signature = a.tables[i].signature
  PROVE  /\ ArchetypesOK([a EXCEPT !.tables = ts])
         /\ [a EXCEPT !.tables = ts].tables = ts
<1> DEFINE f == [a EXCEPT !.tables = ts]
<1>1. /\ f \in [generation : Nat, tables : Seq(TableValues), lookup : Lookups]
      /\ f.tables = ts /\ f.generation = a.generation /\ f.lookup = a.lookup
      /\ DOMAIN ts = DOMAIN a.tables
  <2>1. a \in [generation : Nat, tables : Seq(TableValues), lookup : Lookups]
    BY DEF ArchetypesOK
  <2>2. DOMAIN ts = DOMAIN a.tables
    BY <2>1
  <2> QED
    BY <2>1, <2>2
<1> HIDE DEF f
<1>2. ArchetypesOK(f)
  <2>1. f.generation = Len(ts)
    BY <1>1 DEF ArchetypesOK
  <2>2. \A i \in DOMAIN ts :
          ts[i].signature \in DOMAIN f.lookup /\ f.lookup[ts[i].signature] = i
    BY <1>1 DEF ArchetypesOK
  <2>3. ASSUME NEW s \in DOMAIN f.lookup
        PROVE  f.lookup[s] \in DOMAIN ts /\ ts[f.lookup[s]].signature = s
    <3>1. a.lookup[s] \in DOMAIN a.tables /\ a.tables[a.lookup[s]].signature = s
      BY <1>1 DEF ArchetypesOK
    <3> QED
      BY <1>1, <3>1
  <2> QED
    BY <1>1, <2>1, <2>2, <2>3 DEF ArchetypesOK
<1> QED
  BY <1>1, <1>2 DEF f

-----------------------------------------------------------------------------
(* Entities that arrive, leave and move.                                    *)

\* Which components the entities have, by the signature of their tables.
StoreOf(e, ts) == [h \in Live(e) |-> [c \in ts[GetMeta(e, h).table].signature |-> h]]

\* The components with, and without, those of h.
StoreWith(store, h, sig) ==
  [k \in DOMAIN store \union {h} |-> IF k = h THEN [c \in sig |-> h] ELSE store[k]]
StoreWithout(store, h) == [k \in DOMAIN store \ {h} |-> store[k]]

\* The tables are as many as before and have their signatures.
SameSignatures(us, ts) ==
  DOMAIN us = DOMAIN ts /\ \A i \in DOMAIN ts : us[i].signature = ts[i].signature

\* From registry e and tables ts to f and us, the entity h arrives in table i.
Arrives(e, f, ts, us, h, i) ==
  /\ SameSignatures(us, ts) /\ i \in DOMAIN ts
  /\ h \notin Live(e) /\ Live(f) = Live(e) \union {h}
  /\ GetMeta(f, h).table = i
  /\ \A k \in Live(e) : GetMeta(f, k).table = GetMeta(e, k).table
  /\ RowsFound(us[i]) /\ ToSet(us[i].entities) = ToSet(ts[i].entities) \union {h}
  /\ \A j \in DOMAIN ts \ {i} : us[j] = ts[j]

\* An entity that arrives has the components of its table.
LEMMA ArrivesOK ==
  ASSUME NEW e, NEW f, NEW ts, NEW us, Placed(e, ts), NEW h, NEW i, Arrives(e, f, ts, us, h, i)
  PROVE  /\ Placed(f, us)
         /\ StoreOf(f, us) = StoreWith(StoreOf(e, ts), h, ts[i].signature)
<1> USE DEF Arrives
<1>1. ASSUME NEW k \in Live(f)
      PROVE  /\ GetMeta(f, k).table \in DOMAIN us
             /\ k \in ToSet(us[GetMeta(f, k).table].entities)
  <2>1. CASE k = h
    BY <2>1 DEF SameSignatures
  <2>2. CASE k # h
    <3>1. k \in Live(e) /\ GetMeta(f, k).table = GetMeta(e, k).table
      BY <2>2
    <3> QED
      BY <3>1 DEF Placed, SameSignatures
  <2> QED
    BY <2>1, <2>2
<1>2. ASSUME NEW j \in DOMAIN us
      PROVE  RowsFound(us[j]) /\ \A k \in ToSet(us[j].entities) : k \in Live(f) /\ GetMeta(f, k).table = j
  <2>1. CASE j = i
    BY <2>1 DEF Placed, SameSignatures
  <2>2. CASE j # i
    BY <2>2 DEF Placed, SameSignatures
  <2> QED
    BY <2>1, <2>2
<1>3. ASSUME NEW k \in Live(e) \union {h}
      PROVE  us[GetMeta(f, k).table].signature =
               IF k = h THEN ts[i].signature ELSE ts[GetMeta(e, k).table].signature
  <2>1. k \in Live(e) => GetMeta(e, k).table \in DOMAIN ts
    BY DEF Placed
  <2> QED
    BY <2>1 DEF SameSignatures
<1>4. Placed(f, us)
  BY <1>1, <1>2 DEF Placed
<1> QED
  BY <1>3, <1>4 DEF StoreOf, StoreWith, StoreWithout

\* The entity h leaves table i.
Leaves(e, f, ts, us, h, i) ==
  /\ SameSignatures(us, ts)
  /\ h \in Live(e) /\ Live(f) = Live(e) \ {h}
  /\ i = GetMeta(e, h).table
  /\ \A k \in Live(f) : GetMeta(f, k).table = GetMeta(e, k).table
  /\ RowsFound(us[i]) /\ ToSet(us[i].entities) = ToSet(ts[i].entities) \ {h}
  /\ \A j \in DOMAIN ts \ {i} : us[j] = ts[j]

\* An entity that leaves takes its components with it.
LEMMA LeavesOK ==
  ASSUME NEW e, NEW f, NEW ts, NEW us, Placed(e, ts), NEW h, NEW i, Leaves(e, f, ts, us, h, i)
  PROVE  /\ Placed(f, us)
         /\ StoreOf(f, us) = StoreWithout(StoreOf(e, ts), h)
<1> USE DEF Leaves
<1>1. ASSUME NEW k \in Live(f)
      PROVE  /\ GetMeta(f, k).table \in DOMAIN us
             /\ k \in ToSet(us[GetMeta(f, k).table].entities)
  <2>1. /\ k \in Live(e) /\ k # h /\ GetMeta(f, k).table = GetMeta(e, k).table
        /\ GetMeta(e, k).table \in DOMAIN ts
        /\ k \in ToSet(ts[GetMeta(e, k).table].entities)
    BY DEF Placed
  <2>2. CASE GetMeta(e, k).table = i
    BY <2>1, <2>2 DEF SameSignatures
  <2>3. CASE GetMeta(e, k).table # i
    BY <2>1, <2>3 DEF SameSignatures
  <2> QED
    BY <2>2, <2>3
<1>2. ASSUME NEW j \in DOMAIN us
      PROVE  RowsFound(us[j]) /\ \A k \in ToSet(us[j].entities) : k \in Live(f) /\ GetMeta(f, k).table = j
  <2>1. CASE j = i
    BY <2>1 DEF Placed, SameSignatures
  <2>2. CASE j # i
    BY <2>2 DEF Placed, SameSignatures
  <2> QED
    BY <2>1, <2>2
<1>3. ASSUME NEW k \in Live(f)
      PROVE  us[GetMeta(f, k).table].signature = ts[GetMeta(e, k).table].signature
  BY DEF Placed, SameSignatures
<1>4. Placed(f, us)
  BY <1>1, <1>2 DEF Placed
<1> QED
  BY <1>3, <1>4 DEF StoreOf, StoreWith, StoreWithout

\* The entity h moves from table m to table i.
Moves(e, f, ts, us, h, m, i) ==
  /\ SameSignatures(us, ts) /\ i \in DOMAIN ts /\ i # m
  /\ h \in Live(e) /\ Live(f) = Live(e)
  /\ m = GetMeta(e, h).table /\ i = GetMeta(f, h).table
  /\ \A k \in Live(e) \ {h} : GetMeta(f, k).table = GetMeta(e, k).table
  /\ RowsFound(us[m]) /\ ToSet(us[m].entities) = ToSet(ts[m].entities) \ {h}
  /\ RowsFound(us[i]) /\ ToSet(us[i].entities) = ToSet(ts[i].entities) \union {h}
  /\ \A j \in DOMAIN ts \ {i, m} : us[j] = ts[j]

\* An entity that moves has the components of its new table, the others keep theirs.
LEMMA MovesOK ==
  ASSUME NEW e, NEW f, NEW ts, NEW us, Placed(e, ts), NEW h, NEW m, NEW i,
         Moves(e, f, ts, us, h, m, i)
  PROVE  /\ Placed(f, us)
         /\ StoreOf(f, us) = StoreWith(StoreOf(e, ts), h, ts[i].signature)
<1> USE DEF Moves
<1>1. ASSUME NEW k \in Live(f)
      PROVE  /\ GetMeta(f, k).table \in DOMAIN us
             /\ k \in ToSet(us[GetMeta(f, k).table].entities)
  <2>1. CASE k = h
    BY <2>1 DEF SameSignatures
  <2>2. CASE k # h
    <3>1. /\ k \in Live(e) /\ GetMeta(f, k).table = GetMeta(e, k).table
          /\ GetMeta(e, k).table \in DOMAIN ts
          /\ k \in ToSet(ts[GetMeta(e, k).table].entities)
      BY <2>2 DEF Placed
    <3> DEFINE j == GetMeta(e, k).table
    <3> HIDE DEF j
    <3>2. k \in ToSet(us[j].entities)
      <4>1. j \in DOMAIN ts /\ k \in ToSet(ts[j].entities)
        BY <3>1 DEF j
      <4>2. CASE j = i
        BY <4>1, <4>2
      <4>3. CASE j = m
        BY <2>2, <4>1, <4>3
      <4>4. CASE j # i /\ j # m
        BY <4>1, <4>4
      <4> QED
        BY <4>2, <4>3, <4>4
    <3> QED
      BY <3>1, <3>2 DEF SameSignatures, j
  <2> QED
    BY <2>1, <2>2
<1>2. ASSUME NEW j \in DOMAIN us
      PROVE  RowsFound(us[j]) /\ \A k \in ToSet(us[j].entities) : k \in Live(f) /\ GetMeta(f, k).table = j
  <2>1. /\ j \in DOMAIN ts /\ RowsFound(ts[j])
        /\ \A k \in ToSet(ts[j].entities) : k \in Live(e) /\ GetMeta(e, k).table = j
    BY DEF Placed, SameSignatures
  <2>2. CASE j = i
    <3>1. h \notin ToSet(ts[j].entities)
      BY <2>1, <2>2
    <3> QED
      BY <2>1, <2>2, <3>1
  <2>3. CASE j = m
    BY <2>1, <2>3
  <2>4. CASE j # i /\ j # m
    <3>1. us[j] = ts[j] /\ h \notin ToSet(ts[j].entities)
      BY <2>1, <2>4
    <3> QED
      BY <2>1, <3>1
  <2> QED
    BY <2>2, <2>3, <2>4
<1>3. ASSUME NEW k \in Live(e)
      PROVE  us[GetMeta(f, k).table].signature =
               IF k = h THEN ts[i].signature ELSE ts[GetMeta(e, k).table].signature
  <2>1. GetMeta(e, k).table \in DOMAIN ts
    BY DEF Placed
  <2> QED
    BY <2>1 DEF SameSignatures
<1>4. Placed(f, us)
  BY <1>1, <1>2 DEF Placed
<1> QED
  BY <1>3, <1>4 DEF StoreOf, StoreWith

-----------------------------------------------------------------------------
(* The columns of the tables.                                               *)

\* The table has the columns of its signature; no two of its columns have one type.
Matched(t) == ColumnTypes(t) = t.signature
Distinct(t) == \A j, k \in DOMAIN t.columns : t.columns[j].ty = t.columns[k].ty => j = k

\* As long as all tables have the columns of their signatures, they have them once, and
\* none is without columns: a table made from one with other columns can have neither.
ColumnsOnce(ts) ==
  (\A i \in DOMAIN ts : Matched(ts[i])) =>
    \A i \in DOMAIN ts : Distinct(ts[i]) /\ ts[i].signature # {}

\* The fields of a table and of a column, whatever they hold.
IsTable(t) ==
  /\ t = [signature |-> t.signature, entities |-> t.entities,
          entity_lookup |-> t.entity_lookup, columns |-> t.columns]
  /\ \A k \in DOMAIN t.columns :
       t.columns[k] = [ty |-> t.columns[k].ty, data |-> t.columns[k].data]

\* Every table value has these fields.
LEMMA TableIs ==
  ASSUME NEW t \in TableValues
  PROVE  IsTable(t)
<1>1. \A k \in DOMAIN t.columns : t.columns[k] \in Columns
  BY TableParts
<1>2. t = [signature |-> t.signature, entities |-> t.entities,
           entity_lookup |-> t.entity_lookup, columns |-> t.columns]
  BY DEF TableValues
<1>3. \A k \in DOMAIN t.columns :
        t.columns[k] = [ty |-> t.columns[k].ty, data |-> t.columns[k].data]
  BY <1>1 DEF Columns
<1> QED
  BY <1>2, <1>3 DEF IsTable

\* The table u has the columns of t, whatever rows.
SameColumns(u, t) ==
  /\ u.signature = t.signature
  /\ DOMAIN u.columns = DOMAIN t.columns
  /\ \A k \in DOMAIN t.columns : u.columns[k].ty = t.columns[k].ty

\* What is said of the columns does not depend on the rows.
LEMMA SameColumnsOK ==
  ASSUME NEW t, NEW u, SameColumns(u, t)
  PROVE  /\ ColumnTypes(u) = ColumnTypes(t)
         /\ Matched(u) <=> Matched(t)
         /\ Distinct(u) <=> Distinct(t)
BY DEF SameColumns, ColumnTypes, Matched, Distinct

\* An injective vector has as many values as elements.
LEMMA InjectiveCount ==
  ASSUME NEW T, NEW n \in Nat, NEW f \in [1 .. n -> T],
         \A j, k \in 1 .. n : f[j] = f[k] => j = k, \A x \in T : \E k \in 1 .. n : f[k] = x
  PROVE  IsFiniteSet(T) /\ Cardinality(T) = n
<1> DEFINE I == 1 .. n
<1>1. IsFiniteSet(I) /\ Cardinality(I) = n
  BY FS_Interval
<1>2. f \in Bijection(I, T)
  BY DEF Bijection, Injection, Surjection, IsInjective
<1>3. ExistsBijection(I, T)
  BY <1>2 DEF ExistsBijection
<1> HIDE DEF I
<1> QED
  BY <1>1, <1>3, FS_Bijection

\* A table whose columns have different types has one for each of its types.
LEMMA ColumnCount ==
  ASSUME NEW t \in TableValues, Distinct(t)
  PROVE  IsFiniteSet(ColumnTypes(t)) /\ Cardinality(ColumnTypes(t)) = Len(t.columns)
<1> DEFINE T == ColumnTypes(t)
           n == Len(t.columns)
           f == [k \in 1 .. n |-> t.columns[k].ty]
<1>1. n \in Nat /\ DOMAIN t.columns = 1 .. n
  BY TableParts
<1>2. f \in [1 .. n -> T] /\ \A x \in T : \E k \in 1 .. n : f[k] = x
  BY <1>1 DEF ColumnTypes
<1>3. \A j, k \in 1 .. n : f[j] = f[k] => j = k
  BY <1>1 DEF Distinct
<1> HIDE DEF f, n, T
<1>4. IsFiniteSet(T) /\ Cardinality(T) = n
  BY <1>1, <1>2, <1>3, InjectiveCount
<1> QED
  BY <1>4 DEF n, T

\* A bundle has one type for each of its elements.
LEMMA BundleCount ==
  ASSUME NEW b \in Bundles
  PROVE  IsFiniteSet(Types(b)) /\ Cardinality(Types(b)) = Len(b)
<1> DEFINE T == Types(b)
           n == Len(b)
<1>1. n \in Nat /\ DOMAIN b = 1 .. n /\ b \in Seq(Components)
  BY BundleOK
<1>2. b \in [1 .. n -> T] /\ \A x \in T : \E k \in 1 .. n : b[k] = x
  BY <1>1 DEF Types, ToSet
<1>3. \A j, k \in 1 .. n : b[j] = b[k] => j = k
  BY <1>1 DEF Bundles, IsInjective
<1> HIDE DEF n, T
<1>4. IsFiniteSet(T) /\ Cardinality(T) = n
  BY <1>1, <1>2, <1>3, InjectiveCount
<1> QED
  BY <1>4 DEF n, T

\* Columns are kept from one table to the next.
LEMMA SameColumnsTrans ==
  ASSUME NEW t, NEW u, NEW w, SameColumns(u, t), SameColumns(w, u)
  PROVE  SameColumns(w, t)
BY DEF SameColumns

\* A row that is pushed or swap_removed leaves the columns what they are.
LEMMA PushColumns ==
  ASSUME NEW t, IsTable(t), NEW values
  PROVE  IsTable(PushValues(t, values)) /\ SameColumns(PushValues(t, values), t)
<1> DEFINE pushed(col) == IF col.ty \in DOMAIN values
                          THEN WithData(col, Append(col.data, values[col.ty])) ELSE col
           columns == [i \in DOMAIN t.columns |-> pushed(t.columns[i])]
           u == PushValues(t, values)
<1>1. u = [t EXCEPT !.columns = columns]
  BY DEF PushValues
<1>2. /\ DOMAIN columns = DOMAIN t.columns
      /\ \A k \in DOMAIN t.columns :
           /\ columns[k] = [ty |-> columns[k].ty, data |-> columns[k].data]
           /\ columns[k].ty = t.columns[k].ty
  <2>1. ASSUME NEW k \in DOMAIN t.columns
        PROVE  /\ pushed(t.columns[k]) = [ty |-> pushed(t.columns[k]).ty, data |-> pushed(t.columns[k]).data]
               /\ pushed(t.columns[k]).ty = t.columns[k].ty
    <3> DEFINE col == t.columns[k]
               more == Append(col.data, values[col.ty])
    <3>1. col = [ty |-> col.ty, data |-> col.data]
      BY DEF IsTable
    <3>2. pushed(col) = IF col.ty \in DOMAIN values THEN [col EXCEPT !.data = more] ELSE col
      BY DEF WithData
    <3> HIDE DEF col, more, pushed
    <3>3. [col EXCEPT !.data = more] = [ty |-> col.ty, data |-> more]
      BY <3>1
    <3>4. /\ pushed(col) = [ty |-> pushed(col).ty, data |-> pushed(col).data]
          /\ pushed(col).ty = col.ty
      BY <3>1, <3>2, <3>3
    <3> QED
      BY <3>4 DEF col
  <2> QED
    BY <2>1
<1> HIDE DEF columns, u
<1>3. u = [signature |-> t.signature, entities |-> t.entities,
           entity_lookup |-> t.entity_lookup, columns |-> columns]
  BY <1>1 DEF IsTable
<1> QED
  BY <1>2, <1>3 DEF IsTable, SameColumns, u

\* An entity that is added leaves the columns as they are.
LEMMA AddColumns ==
  ASSUME NEW t, IsTable(t), NEW h
  PROVE  IsTable(AddEntity(t, h)) /\ SameColumns(AddEntity(t, h), t)
<1> DEFINE more == Append(t.entities, h)
           found == Inserted(t.entity_lookup, h, Len(t.entities) + 1)
           u == AddEntity(t, h)
<1>1. u = [t EXCEPT !.entities = more, !.entity_lookup = found]
  BY DEF AddEntity
<1> HIDE DEF more, found, u
<1>2. u = [signature |-> t.signature, entities |-> more,
           entity_lookup |-> found, columns |-> t.columns]
  BY <1>1 DEF IsTable
<1> QED
  BY <1>2 DEF IsTable, SameColumns, u

\* A row that is removed is taken from every column, and leaves the columns their types.
LEMMA RemoveColumns ==
  ASSUME NEW t, IsTable(t), NEW h
  PROVE  SameColumns(TableRemove(t, h), t)
<1> DEFINE row == t.entity_lookup[h]
           found == LookupAfterRemove(t, h)
           rows == SwapRemove(t.entities, row)
           columns == [i \in DOMAIN t.columns |-> ColumnSwapRemove(t.columns[i], row)]
           u == TableRemove(t, h)
<1>1. CASE h \in DOMAIN t.entity_lookup
  <2>1. u = [t EXCEPT !.entity_lookup = found, !.entities = rows, !.columns = columns]
    BY <1>1, Zenon DEF TableRemove
  <2>2. /\ DOMAIN columns = DOMAIN t.columns
        /\ \A k \in DOMAIN t.columns : columns[k].ty = t.columns[k].ty
    <3> HIDE DEF row
    <3> QED
      BY DEF IsTable, ColumnSwapRemove, WithData
  <2> HIDE DEF found, rows, columns, u
  <2>3. u.signature = t.signature /\ u.columns = columns
    BY <2>1 DEF IsTable
  <2> QED
    BY <2>2, <2>3 DEF SameColumns, u
<1>2. CASE h \notin DOMAIN t.entity_lookup
  BY <1>2 DEF TableRemove, SameColumns
<1> QED
  BY <1>1, <1>2

\* The columns of the tables that World makes.
LEMMA NewTableColumns ==
  ASSUME NEW b \in Bundles
  PROVE  LET t == NewTable(b)
         IN  /\ t \in TableValues
             /\ DOMAIN t.columns = 1 .. Len(b)
             /\ \A k \in 1 .. Len(b) : t.columns[k].ty = b[k]
             /\ \A k \in DOMAIN t.columns : t.columns[k].data = t.entities
             /\ Matched(t) /\ Distinct(t) /\ t.signature # {}
<1> DEFINE t == NewTable(b)
<1>1. DOMAIN b = 1 .. Len(b) /\ Types(b) # {}
  BY BundleOK
<1>2. t \in TableValues
  BY NewTableOK DEF IsNew
<1>3. /\ t.signature = Types(b) /\ t.entities = <<>>
      /\ t.columns = [i \in DOMAIN b |-> EmptyColumn(b[i])]
  BY DEF NewTable
<1>4. \A k \in 1 .. Len(b) : t.columns[k].ty = b[k] /\ t.columns[k].data = <<>>
  BY <1>1, <1>3 DEF EmptyColumn
<1>5. DOMAIN t.columns = 1 .. Len(b)
  BY <1>1, <1>3
<1> HIDE DEF t
<1>6. Matched(t)
  BY <1>1, <1>3, <1>4, <1>5 DEF Matched, ColumnTypes, Types, ToSet
<1>7. Distinct(t)
  BY <1>1, <1>4, <1>5 DEF Distinct, Bundles, IsInjective
<1> QED
  BY <1>1, <1>2, <1>3, <1>4, <1>5, <1>6, <1>7 DEF t

\* A joined table has the columns of its base, then those of the bundle, all of them empty.
LEMMA NewJoinedTableColumns ==
  ASSUME NEW base \in TableValues, NEW b \in Bundles
  PROVE  LET t == NewJoinedTable(base, b)
             n == Len(base.columns)
         IN  /\ Len(t.columns) = n + Len(b)
             /\ DOMAIN t.columns = 1 .. n + Len(b)
             /\ \A k \in 1 .. n : t.columns[k].ty = base.columns[k].ty
             /\ \A k \in 1 .. Len(b) : t.columns[n + k].ty = b[k]
             /\ \A k \in DOMAIN t.columns : t.columns[k].data = t.entities
             /\ ColumnTypes(t) = ColumnTypes(base) \union Types(b)
<1> DEFINE own == [i \in DOMAIN b |-> EmptyColumn(b[i])]
           theirs == [i \in DOMAIN base.columns |-> EmptyColumn(base.columns[i].ty)]
           t == NewJoinedTable(base, b)
           n == Len(base.columns)
           m == Len(b)
<1>1. base.columns \in Seq(Columns) /\ n \in Nat /\ DOMAIN base.columns = 1 .. n
  BY TableParts
<1>2. b \in Seq(Components) /\ m \in Nat /\ DOMAIN b = 1 .. m
  BY BundleOK
<1>3. own \in Seq(Columns) /\ Len(own) = m
  <2>1. own \in [1 .. m -> Columns]
    BY <1>2, EmptyColumnType
  <2> QED
    BY <1>2, <2>1
<1>4. theirs \in Seq(Columns) /\ Len(theirs) = n
  <2>1. ASSUME NEW i \in DOMAIN base.columns
        PROVE  base.columns[i].ty \in Components
    <3>1. base.columns[i] \in Columns
      BY <1>1
    <3> QED
      BY <3>1 DEF Columns
  <2>2. theirs \in [1 .. n -> Columns]
    BY <1>1, <2>1, EmptyColumnType
  <2> QED
    BY <1>1, <2>2
<1>5. /\ \A k \in 1 .. n : theirs[k].ty = base.columns[k].ty /\ theirs[k].data = <<>>
      /\ \A k \in 1 .. m : own[k].ty = b[k] /\ own[k].data = <<>>
  BY <1>1, <1>2 DEF EmptyColumn
<1>6. t.columns = theirs \o own /\ t.entities = <<>>
  BY DEF NewJoinedTable, NewTable
<1> HIDE DEF own, theirs, t, n, m
<1>7. /\ Len(t.columns) = n + m /\ DOMAIN t.columns = 1 .. n + m
      /\ \A k \in 1 .. n : t.columns[k] = theirs[k]
      /\ \A k \in 1 .. m : t.columns[n + k] = own[k]
  <2> DEFINE both == theirs \o own
  <2>1. both \in Seq(Columns) /\ Len(both) = n + m
    BY <1>3, <1>4
  <2>2. \A k \in 1 .. n : both[k] = theirs[k]
    BY <1>1, <1>2, <1>3, <1>4
  <2>3. ASSUME NEW k \in 1 .. m
        PROVE  both[n + k] = own[k]
    <3>1. n + k \in 1 .. n + m /\ ~(n + k <= n) /\ n + k - n = k
      BY <1>1, <1>2
    <3> QED
      BY <1>3, <1>4, <3>1
  <2> HIDE DEF both
  <2>4. DOMAIN both = 1 .. n + m
    BY <2>1
  <2> QED
    BY <1>6, <2>1, <2>2, <2>3, <2>4 DEF both
<1>8. ASSUME NEW k \in 1 .. n + m, k \notin 1 .. n
      PROVE  k - n \in 1 .. m /\ k = n + (k - n)
  BY <1>1, <1>2, <1>8
<1>9. \A k \in 1 .. n + m : t.columns[k].data = t.entities
  <2> TAKE k \in 1 .. n + m
  <2>1. CASE k \in 1 .. n
    BY <1>5, <1>6, <1>7, <2>1
  <2>2. CASE k \notin 1 .. n
    BY <1>5, <1>6, <1>7, <1>8, <2>2
  <2> QED
    BY <2>1, <2>2
<1>10. ColumnTypes(t) = ColumnTypes(base) \union Types(b)
  <2>1. ASSUME NEW c \in ColumnTypes(t)
        PROVE  c \in ColumnTypes(base) \union Types(b)
    <3>1. PICK k \in 1 .. n + m : t.columns[k].ty = c
      BY <1>7 DEF ColumnTypes
    <3>2. CASE k \in 1 .. n
      BY <1>1, <1>5, <1>7, <3>1, <3>2 DEF ColumnTypes
    <3>3. CASE k \notin 1 .. n
      <4>1. b[k - n] = c
        BY <1>5, <1>7, <1>8, <3>1, <3>3
      <4> QED
        BY <1>2, <1>8, <3>3, <4>1 DEF Types, ToSet
    <3> QED
      BY <3>2, <3>3
  <2>2. ASSUME NEW c \in ColumnTypes(base)
        PROVE  c \in ColumnTypes(t)
    <3>1. PICK k \in 1 .. n : base.columns[k].ty = c
      BY <1>1 DEF ColumnTypes
    <3>2. k \in 1 .. n + m
      BY <1>1, <1>2
    <3>3. t.columns[k].ty = c
      BY <1>5, <1>7, <3>1
    <3> QED
      BY <1>7, <3>2, <3>3 DEF ColumnTypes
  <2>3. ASSUME NEW c \in Types(b)
        PROVE  c \in ColumnTypes(t)
    <3>1. PICK k \in 1 .. m : b[k] = c
      BY <1>2 DEF Types, ToSet
    <3>2. n + k \in 1 .. n + m
      BY <1>1, <1>2
    <3>3. t.columns[n + k].ty = c
      BY <1>5, <1>7, <3>1
    <3> QED
      BY <1>7, <3>2, <3>3 DEF ColumnTypes
  <2> QED
    BY <2>1, <2>2, <2>3
<1> QED
  BY <1>5, <1>7, <1>9, <1>10 DEF t, n, m

\* The same tables but one or two, which keep their columns.
LEMMA ReplacedColumns ==
  ASSUME NEW ts, NEW i \in DOMAIN ts, NEW m \in DOMAIN ts, NEW new, NEW old,
         SameColumns(new, ts[i]), SameColumns(old, ts[m])
  PROVE  LET us == [ts EXCEPT ![i] = new, ![m] = old]
         IN  DOMAIN us = DOMAIN ts /\ \A j \in DOMAIN ts : SameColumns(us[j], ts[j])
<1> DEFINE us == [ts EXCEPT ![i] = new, ![m] = old]
<1>1. DOMAIN us = DOMAIN ts
  OBVIOUS
<1>2. \A j \in DOMAIN ts : us[j] = IF j = m THEN old ELSE IF j = i THEN new ELSE ts[j]
  OBVIOUS
<1>3. \A j \in DOMAIN ts : SameColumns(ts[j], ts[j])
  BY DEF SameColumns
<1> HIDE DEF us
<1> QED
  BY <1>1, <1>2, <1>3

\* What an operation that finds or makes a table, and keeps the columns of all, owes.
LEMMA ColumnsOnceKept ==
  ASSUME ArchetypesOK(archetypes), ColumnsOnce(archetypes.tables),
         NEW sig, NEW new, new.signature = sig,
         (\A i \in DOMAIN archetypes.tables : Matched(archetypes.tables[i])) /\ ~Known(sig) /\ Matched(new)
           => Distinct(new) /\ sig # {},
         NEW us, DOMAIN us = DOMAIN FindOrInsert(sig, new).tables,
         \A j \in DOMAIN us : SameColumns(us[j], FindOrInsert(sig, new).tables[j])
  PROVE  ColumnsOnce(us)
<1> DEFINE ts == archetypes.tables
           f == FindOrInsert(sig, new)
           n == Len(ts)
<1>1. n \in Nat /\ DOMAIN ts = 1 .. n /\ ts \in Seq(TableValues)
  BY DEF ArchetypesOK
<1>2. \A j \in DOMAIN us :
        /\ us[j].signature = f.tables[j].signature
        /\ Matched(us[j]) <=> Matched(f.tables[j])
        /\ Distinct(us[j]) <=> Distinct(f.tables[j])
  BY SameColumnsOK DEF SameColumns
<1>3. CASE Known(sig)
  BY <1>2, <1>3 DEF FindOrInsert, ColumnsOnce
<1>4. CASE ~Known(sig)
  <2>1. f.tables = Append(ts, new)
    BY <1>4 DEF FindOrInsert, InsertTable
  <2>2. /\ DOMAIN us = 1 .. n + 1
        /\ \A j \in 1 .. n : f.tables[j] = ts[j]
        /\ f.tables[n + 1] = new
    BY <1>1, <2>1
  <2> HIDE DEF f, n
  <2> SUFFICES ASSUME \A j \in 1 .. n + 1 : Matched(us[j]),
                      NEW j \in 1 .. n + 1
               PROVE  Distinct(us[j]) /\ us[j].signature # {}
    BY <2>2 DEF ColumnsOnce
  <2>3. n + 1 \in 1 .. n + 1 /\ \A k \in 1 .. n : k \in 1 .. n + 1
    BY <1>1
  <2>4. \A k \in DOMAIN ts : Matched(ts[k])
    BY <1>1, <1>2, <2>2, <2>3
  <2>5. Matched(new)
    BY <1>2, <2>2, <2>3
  <2>6. CASE j = n + 1
    BY <1>2, <1>4, <2>2, <2>3, <2>4, <2>5, <2>6
  <2>7. CASE j # n + 1
    <3>1. j \in 1 .. n
      BY <1>1, <2>7
    <3> QED
      BY <1>1, <1>2, <2>2, <2>4, <3>1 DEF ColumnsOnce
  <2> QED
    BY <2>6, <2>7
<1> QED
  BY <1>3, <1>4

\* A table that new_subset makes from one with the right columns has the wrong ones.
LEMMA NewSubsetMismatched ==
  ASSUME NEW base \in TableValues, NEW b \in Bundles, Matched(base), Types(b) \subseteq base.signature
  PROVE  ~Matched(NewSubset(base, b))
<1>1. PICK c \in Types(b) : TRUE
  BY BundleOK
<1>2. c \in ColumnTypes(NewSubset(base, b)) /\ c \notin NewSubset(base, b).signature
  BY <1>1, NewSubsetOK DEF Matched, IsNew
<1> QED
  BY <1>2 DEF Matched

\* A joined table has the columns of the two, and each once.
LEMMA NewJoinedTableMatched ==
  ASSUME NEW base \in TableValues, NEW b \in Bundles, Matched(base), Distinct(base),
         base.signature \intersect Types(b) = {}
  PROVE  Matched(NewJoinedTable(base, b)) /\ Distinct(NewJoinedTable(base, b))
<1> DEFINE t == NewJoinedTable(base, b)
           n == Len(base.columns)
           m == Len(b)
<1>1. t.signature = base.signature \union Types(b)
  BY NewJoinedTableOK DEF IsNew
<1>2. /\ DOMAIN t.columns = 1 .. n + m
      /\ \A k \in 1 .. n : t.columns[k].ty = base.columns[k].ty
      /\ \A k \in 1 .. m : t.columns[n + k].ty = b[k]
      /\ ColumnTypes(t) = ColumnTypes(base) \union Types(b)
  BY NewJoinedTableColumns
<1>3. n \in Nat /\ DOMAIN base.columns = 1 .. n /\ m \in Nat /\ DOMAIN b = 1 .. m
  BY TableParts, BundleOK
<1> HIDE DEF t, n, m
<1>4. Matched(t)
  BY <1>1, <1>2 DEF Matched
<1>5. ASSUME NEW k \in 1 .. n + m, k \notin 1 .. n
      PROVE  k - n \in 1 .. m /\ k = n + (k - n)
  BY <1>3, <1>5
<1>6. ASSUME NEW k \in 1 .. n + m
      PROVE  /\ k \in 1 .. n => t.columns[k].ty \in base.signature
             /\ k \notin 1 .. n => t.columns[k].ty \in Types(b) /\ t.columns[k].ty = b[k - n]
  <2>1. ASSUME k \in 1 .. n
        PROVE  t.columns[k].ty \in base.signature
    BY <1>2, <1>3, <2>1 DEF Matched, ColumnTypes
  <2>2. ASSUME k \notin 1 .. n
        PROVE  t.columns[k].ty \in Types(b) /\ t.columns[k].ty = b[k - n]
    <3>1. t.columns[k].ty = b[k - n] /\ k - n \in DOMAIN b
      BY <1>2, <1>3, <1>5, <2>2
    <3> QED
      BY <3>1 DEF Types, ToSet
  <2> QED
    BY <2>1, <2>2
<1>7. ASSUME NEW j \in 1 .. n + m, NEW k \in 1 .. n + m, t.columns[j].ty = t.columns[k].ty
      PROVE  j = k
  <2>1. CASE j \in 1 .. n /\ k \in 1 .. n
    BY <1>2, <1>3, <1>7, <2>1 DEF Distinct
  <2>2. CASE j \notin 1 .. n /\ k \notin 1 .. n
    <3>1. /\ j - n \in DOMAIN b /\ k - n \in DOMAIN b /\ b[j - n] = b[k - n]
      BY <1>3, <1>5, <1>6, <1>7, <2>2
    <3>2. j - n = k - n
      BY <3>1 DEF Bundles, IsInjective
    <3> QED
      BY <1>5, <2>2, <3>2
  <2>3. CASE (j \in 1 .. n) # (k \in 1 .. n)
    BY <1>6, <1>7, <2>3
  <2> QED
    BY <2>1, <2>2, <2>3
<1>8. Distinct(t)
  BY <1>2, <1>7 DEF Distinct
<1> QED
  BY <1>4, <1>8 DEF t

-----------------------------------------------------------------------------
(* Sound worlds: every row is in every column, and in the metadata.         *)

\* The table has the columns of its signature, and each holds one value for each entity.
SoundTable(t) == Matched(t) /\ \A k \in DOMAIN t.columns : t.columns[k].data = t.entities

\* The metadata names the row of the entity.
RowsNamed(e, ts) ==
  \A h \in Live(e) :
    LET t == ts[GetMeta(e, h).table]
    IN  GetMeta(e, h).row \in DOMAIN t.entities /\ t.entities[GetMeta(e, h).row] = h

\* What Sound says of a registry and the tables.
SoundAt(e, ts) == RowsNamed(e, ts) /\ \A i \in DOMAIN ts : SoundTable(ts[i])

\* Sound is about the registry and the tables.
LEMMA SoundIs ==
  /\ Sound <=> SoundAt(entities, archetypes.tables)
  /\ Sound' <=> SoundAt(entities', archetypes'.tables)
BY DEF Sound, SoundAt, RowStoresComponents, ColumnsMatchSignature, ColumnsAligned, RowsNamed,
       SoundTable, Matched, TableOf, MetaOf

\* In a sound table, every column holds the entities.
LEMMA SoundColumn ==
  ASSUME NEW t, SoundTable(t), NEW c \in ColumnTypes(t)
  PROVE  Column(t, c) = t.entities
<1>1. \E k \in DOMAIN t.columns : t.columns[k].ty = c
  BY DEF ColumnTypes
<1> QED
  BY <1>1 DEF SoundTable, Column

\* A new row in every column.
LEMMA SoundPush ==
  ASSUME NEW t, SoundTable(t), NEW u, SameColumns(u, t), NEW h, u.entities = Append(t.entities, h),
         \A k \in DOMAIN t.columns : u.columns[k].data = Append(t.columns[k].data, h)
  PROVE  SoundTable(u)
BY SameColumnsOK DEF SoundTable, SameColumns

\* World::spawn fills every column of the table of the bundle.
LEMMA SoundInsert ==
  ASSUME NEW t \in TableValues, SoundTable(t), RowsFound(t), NEW h \in Handles, h \notin ToSet(t.entities),
         NEW b, t.signature = Types(b)
  PROVE  /\ Types(b) \subseteq ColumnTypes(t)
         /\ SoundTable(TableInsert(t, h, b))
         /\ TableInsert(t, h, b).entities = Append(t.entities, h)
<1> DEFINE u == AddEntity(t, h)
           values == [c \in Types(b) |-> h]
           w == TableInsert(t, h, b)
<1>1. ColumnTypes(t) = Types(b)
  BY DEF SoundTable, Matched
<1>2. u \in TableValues /\ u.signature = t.signature /\ u.columns = t.columns
  BY AddEntityOK
<1>3. u.entities = Append(t.entities, h)
  BY DEF AddEntity, TableValues
<1>4. w = PushValues(u, values)
  BY DEF TableInsert, InsertInto
<1>5. \A k \in DOMAIN t.columns : t.columns[k].ty \in Types(b)
  BY <1>1 DEF ColumnTypes
<1>6. /\ DOMAIN values = Types(b) /\ \A c \in Types(b) : values[c] = h
      /\ \A k \in DOMAIN u.columns : u.columns[k].ty \in DOMAIN values => values[u.columns[k].ty] \in Handles
  OBVIOUS
<1> HIDE DEF u, values, w
<1>7. /\ w.signature = t.signature /\ w.entities = u.entities /\ SameColumns(w, u)
      /\ \A k \in DOMAIN u.columns :
           w.columns[k].data = IF u.columns[k].ty \in DOMAIN values
                               THEN Append(u.columns[k].data, values[u.columns[k].ty])
                               ELSE u.columns[k].data
  BY <1>2, <1>4, <1>6, PushValuesOK, PushColumns, TableIs
<1>8. \A k \in DOMAIN t.columns : w.columns[k].data = Append(t.columns[k].data, h)
  BY <1>2, <1>5, <1>6, <1>7
<1>9. SameColumns(w, t)
  BY <1>2, <1>7 DEF SameColumns
<1>10. SoundTable(w)
  BY <1>3, <1>7, <1>8, <1>9, SoundPush
<1> QED
  BY <1>1, <1>3, <1>7, <1>10 DEF w

\* A row that is copied from a table with all the columns fills every column.
LEMMA SoundCopy ==
  ASSUME NEW src \in TableValues, SoundTable(src), NEW row \in DOMAIN src.entities,
         NEW dst \in TableValues, SoundTable(dst), RowsFound(dst),
         NEW h \in Handles, h \notin ToSet(dst.entities), src.entities[row] = h,
         NEW copied, copied = CopyRow(src, row, AddEntity(dst, h))
  PROVE  /\ copied \in TableValues /\ SameColumns(copied, dst)
         /\ copied.entities = Append(dst.entities, h)
         /\ \A k \in DOMAIN dst.columns :
              copied.columns[k].data =
                IF dst.columns[k].ty \in src.signature THEN Append(dst.columns[k].data, h)
                                                       ELSE dst.columns[k].data
<1> DEFINE u == AddEntity(dst, h)
           values == [c \in ColumnTypes(src) |-> Column(src, c)[row]]
<1>1. u \in TableValues /\ u.signature = dst.signature /\ u.columns = dst.columns
  BY AddEntityOK
<1>2. u.entities = Append(dst.entities, h)
  BY DEF AddEntity, TableValues
<1>3. copied = PushValues(u, values)
  BY DEF CopyRow
<1>4. /\ DOMAIN values = src.signature /\ \A c \in src.signature : values[c] = h
  BY SoundColumn DEF SoundTable, Matched
<1>5. \A k \in DOMAIN u.columns : u.columns[k].ty \in DOMAIN values => values[u.columns[k].ty] \in Handles
  BY <1>4
<1> HIDE DEF u, values
<1>6. /\ copied \in TableValues /\ copied.entities = u.entities /\ SameColumns(copied, u)
      /\ \A k \in DOMAIN u.columns :
           copied.columns[k].data = IF u.columns[k].ty \in DOMAIN values
                                    THEN Append(u.columns[k].data, values[u.columns[k].ty])
                                    ELSE u.columns[k].data
  BY <1>1, <1>3, <1>5, PushValuesOK, PushColumns, TableIs
<1>7. SameColumns(copied, dst)
  BY <1>1, <1>6 DEF SameColumns
<1> QED
  BY <1>1, <1>2, <1>4, <1>6, <1>7

\* Table::remove does not panic, drops the row's components, and keeps the table sound.
LEMMA SoundRemove ==
  ASSUME NEW t \in TableValues, SoundTable(t), RowsFound(t), NEW h \in ToSet(t.entities)
  PROVE  /\ ~RemovePanics(t, h)
         /\ SoundTable(TableRemove(t, h))
         /\ DroppedByRemove(t, h, TRUE) = {<<c, h>> : c \in t.signature}
         /\ DroppedByRemove(t, h, FALSE) = {}
<1> DEFINE u == TableRemove(t, h)
           row == t.entity_lookup[h]
<1>1. /\ h \in DOMAIN t.entity_lookup /\ row \in DOMAIN t.entities /\ t.entities[row] = h
  <2>1. PICK r \in DOMAIN t.entities : t.entities[r] = h
    BY DEF ToSet
  <2> QED
    BY <2>1 DEF RowsFound
<1>2. \A c \in ColumnTypes(t) : Column(t, c) = t.entities
  BY SoundColumn
<1>3. ~RemovePanics(t, h)
  BY <1>1, <1>2 DEF RemovePanics, HasRow
<1>4. /\ u.signature = t.signature /\ u.entities = SwapRemove(t.entities, row)
      /\ u.columns = [k \in DOMAIN t.columns |-> ColumnSwapRemove(t.columns[k], row)]
      /\ SameColumns(u, t)
  BY TableRemoveOK, TableIs, RemoveColumns
<1>5. \A k \in DOMAIN t.columns : t.columns[k] = [ty |-> t.columns[k].ty, data |-> t.columns[k].data]
  BY TableIs DEF IsTable
<1> HIDE DEF u, row
<1>6. \A k \in DOMAIN t.columns : u.columns[k].data = SwapRemove(t.columns[k].data, row)
  BY <1>4, <1>5 DEF ColumnSwapRemove, WithData
<1>7. SoundTable(u)
  BY <1>4, <1>6, SameColumnsOK DEF SoundTable, SameColumns
<1>8. DroppedByRemove(t, h, TRUE) = {<<c, h>> : c \in t.signature}
  BY <1>1, <1>2 DEF DroppedByRemove, SoundTable, Matched, row
<1>9. DroppedByRemove(t, h, FALSE) = {}
  BY DEF DroppedByRemove
<1> QED
  BY <1>3, <1>7, <1>8, <1>9 DEF u

\* The row of the entity k after h was removed from the table t.
RowAfter(e, f, t, h, k) ==
  GetMeta(f, k).row = IF RemoveMovesRow(t, h) /\ k = Last(t.entities)
                      THEN t.entity_lookup[h] ELSE GetMeta(e, k).row

\* swap_remove leaves every other entity in its row, or in that of the removed one.
LEMMA RowMoves ==
  ASSUME NEW t \in TableValues, RowsFound(t), NEW h \in ToSet(t.entities), NEW k, k # h,
         NEW r \in DOMAIN t.entities, t.entities[r] = k,
         NEW q, q = IF RemoveMovesRow(t, h) /\ k = Last(t.entities) THEN t.entity_lookup[h] ELSE r
  PROVE  q \in DOMAIN TableRemove(t, h).entities /\ TableRemove(t, h).entities[q] = k
<1> DEFINE n == Len(t.entities)
           row == t.entity_lookup[h]
           rows == SwapRemove(t.entities, row)
<1>1. n \in Nat /\ DOMAIN t.entities = 1 .. n
  BY TableParts
<1>2. /\ h \in DOMAIN t.entity_lookup /\ row \in 1 .. n /\ t.entities[row] = h
  <2>1. PICK j \in DOMAIN t.entities : t.entities[j] = h
    BY DEF ToSet
  <2> QED
    BY <1>1, <2>1 DEF RowsFound
<1>3. TableRemove(t, h).entities = rows
  BY TableRemoveOK
<1>4. r \in 1 .. n /\ r # row
  BY <1>1, <1>2
<1>5. n > 1 /\ RemoveMovesRow(t, h) /\ Last(t.entities) = t.entities[n]
  BY <1>1, <1>2, <1>4 DEF RemoveMovesRow, Last
<1> HIDE DEF row
<1>6. /\ DOMAIN rows = 1 .. n - 1
      /\ \A j \in 1 .. n - 1 : rows[j] = t.entities[IF j = row THEN n ELSE j]
  BY DEF SwapRemove
<1> HIDE DEF rows, n
<1>7. CASE k = t.entities[n]
  <2>1. q = row
    BY <1>5, <1>7 DEF row
  <2>2. row # n
    BY <1>2, <1>7
  <2>3. row \in 1 .. n - 1
    BY <1>1, <1>2, <2>2
  <2> QED
    BY <1>3, <1>6, <1>7, <2>1, <2>3
<1>8. CASE k # t.entities[n]
  <2>1. q = r /\ r # n
    BY <1>5, <1>8
  <2>2. r \in 1 .. n - 1
    BY <1>1, <1>4, <2>1
  <2> QED
    BY <1>3, <1>4, <1>6, <2>1, <2>2
<1> QED
  BY <1>7, <1>8

\* The metadata follows: the entities of the table, and of the others, are in the rows it names.
LEMMA RowAfterOK ==
  ASSUME NEW e, NEW f, NEW ts, Placed(e, ts), RowsNamed(e, ts), NEW m \in DOMAIN ts, ts[m] \in TableValues,
         NEW h \in ToSet(ts[m].entities), NEW k \in Live(e), k # h, RowAfter(e, f, ts[m], h, k)
  PROVE  /\ GetMeta(e, k).table = m =>
              /\ GetMeta(f, k).row \in DOMAIN TableRemove(ts[m], h).entities
              /\ TableRemove(ts[m], h).entities[GetMeta(f, k).row] = k
         /\ GetMeta(e, k).table # m => GetMeta(f, k).row = GetMeta(e, k).row
<1>1. /\ GetMeta(e, k).row \in DOMAIN ts[GetMeta(e, k).table].entities
      /\ ts[GetMeta(e, k).table].entities[GetMeta(e, k).row] = k
      /\ RowsFound(ts[m])
  BY DEF Placed, RowsNamed
<1>2. CASE GetMeta(e, k).table = m
  BY <1>1, <1>2, RowMoves DEF RowAfter
<1>3. CASE GetMeta(e, k).table # m
  <2>1. Len(ts[m].entities) \in Nat /\ DOMAIN ts[m].entities = 1 .. Len(ts[m].entities)
    BY TableParts
  <2>2. RemoveMovesRow(ts[m], h) => Last(ts[m].entities) \in ToSet(ts[m].entities)
    BY <2>1 DEF RemoveMovesRow, Last, ToSet
  <2> QED
    BY <1>3, <2>2 DEF Placed, RowAfter
<1> QED
  BY <1>2, <1>3

\* A row that is appended leaves the others where they are.
LEMMA RowStays ==
  ASSUME NEW s \in Seq(Handles), NEW h \in Handles
  PROVE  /\ Len(s) + 1 \in DOMAIN Append(s, h) /\ Append(s, h)[Len(s) + 1] = h
         /\ \A r \in DOMAIN s : r \in DOMAIN Append(s, h) /\ Append(s, h)[r] = s[r]
OBVIOUS

\* An entity that arrives in a new row of every column keeps the world sound.
LEMMA ArrivesSound ==
  ASSUME NEW e, NEW f, NEW ts, NEW us, Placed(e, ts), NEW h \in Handles, NEW i, Arrives(e, f, ts, us, h, i),
         SoundAt(e, ts), SoundTable(us[i]), ts[i].entities \in Seq(Handles),
         us[i].entities = Append(ts[i].entities, h),
         GetMeta(f, h).row = Len(ts[i].entities) + 1,
         \A k \in Live(e) : GetMeta(f, k).row = GetMeta(e, k).row
  PROVE  SoundAt(f, us)
<1> USE DEF Arrives
<1>1. ASSUME NEW k \in Live(f)
      PROVE  /\ GetMeta(f, k).row \in DOMAIN us[GetMeta(f, k).table].entities
             /\ us[GetMeta(f, k).table].entities[GetMeta(f, k).row] = k
  <2>1. CASE k = h
    BY <2>1, RowStays
  <2>2. CASE k # h
    <3>1. /\ k \in Live(e) /\ GetMeta(f, k).table = GetMeta(e, k).table
          /\ GetMeta(f, k).row = GetMeta(e, k).row
          /\ GetMeta(e, k).table \in DOMAIN ts
          /\ GetMeta(e, k).row \in DOMAIN ts[GetMeta(e, k).table].entities
          /\ ts[GetMeta(e, k).table].entities[GetMeta(e, k).row] = k
      BY <2>2 DEF Placed, SoundAt, RowsNamed
    <3>2. CASE GetMeta(e, k).table = i
      BY <3>1, <3>2, RowStays
    <3>3. CASE GetMeta(e, k).table # i
      BY <3>1, <3>3
    <3> QED
      BY <3>2, <3>3
  <2> QED
    BY <2>1, <2>2
<1>2. \A j \in DOMAIN us : SoundTable(us[j])
  BY DEF SoundAt, SameSignatures
<1> QED
  BY <1>1, <1>2 DEF SoundAt, RowsNamed

\* So does one that leaves every column.
LEMMA LeavesSound ==
  ASSUME NEW e, NEW f, NEW ts, NEW us, Placed(e, ts), NEW h, NEW i, Leaves(e, f, ts, us, h, i),
         SoundAt(e, ts), ts[i] \in TableValues, us[i] = TableRemove(ts[i], h),
         \A k \in Live(f) : RowAfter(e, f, ts[i], h, k)
  PROVE  SoundAt(f, us)
<1> USE DEF Leaves
<1>0. i \in DOMAIN ts /\ h \in ToSet(ts[i].entities) /\ RowsFound(ts[i])
  BY DEF Placed
<1>1. ASSUME NEW k \in Live(f)
      PROVE  /\ GetMeta(f, k).row \in DOMAIN us[GetMeta(f, k).table].entities
             /\ us[GetMeta(f, k).table].entities[GetMeta(f, k).row] = k
  <2>1. /\ k # h /\ k \in Live(e) /\ GetMeta(f, k).table = GetMeta(e, k).table
        /\ GetMeta(e, k).table \in DOMAIN ts
        /\ GetMeta(e, k).row \in DOMAIN ts[GetMeta(e, k).table].entities
        /\ ts[GetMeta(e, k).table].entities[GetMeta(e, k).row] = k
    BY DEF Placed, SoundAt, RowsNamed
  <2>2. CASE GetMeta(e, k).table = i
    BY <1>0, <2>1, <2>2, RowAfterOK DEF SoundAt
  <2>3. CASE GetMeta(e, k).table # i
    <3>1. GetMeta(f, k).row = GetMeta(e, k).row
      BY <1>0, <2>1, <2>3, RowAfterOK DEF SoundAt
    <3> QED
      BY <2>1, <2>3, <3>1
  <2> QED
    BY <2>2, <2>3
<1>2. ASSUME NEW j \in DOMAIN us
      PROVE  SoundTable(us[j])
  <2>1. CASE j = i
    BY <1>0, <2>1, SoundRemove DEF SoundAt
  <2>2. CASE j # i
    BY <2>2 DEF SoundAt, SameSignatures
  <2> QED
    BY <2>1, <2>2
<1> QED
  BY <1>1, <1>2 DEF SoundAt, RowsNamed

\* And one that moves.
LEMMA MovesSound ==
  ASSUME NEW e, NEW f, NEW ts, NEW us, Placed(e, ts), NEW h \in Handles, NEW m, NEW i,
         Moves(e, f, ts, us, h, m, i),
         SoundAt(e, ts), ts[m] \in TableValues, us[m] = TableRemove(ts[m], h),
         SoundTable(us[i]), ts[i].entities \in Seq(Handles), us[i].entities = Append(ts[i].entities, h),
         GetMeta(f, h).row = Len(ts[i].entities) + 1,
         \A k \in Live(e) \ {h} : RowAfter(e, f, ts[m], h, k)
  PROVE  SoundAt(f, us)
<1> USE DEF Moves
<1>0. m \in DOMAIN ts /\ h \in ToSet(ts[m].entities) /\ RowsFound(ts[m])
  BY DEF Placed
<1>1. ASSUME NEW k \in Live(f)
      PROVE  /\ GetMeta(f, k).row \in DOMAIN us[GetMeta(f, k).table].entities
             /\ us[GetMeta(f, k).table].entities[GetMeta(f, k).row] = k
  <2>1. CASE k = h
    BY <2>1, RowStays
  <2>2. CASE k # h
    <3>1. /\ k \in Live(e) /\ GetMeta(f, k).table = GetMeta(e, k).table
          /\ GetMeta(e, k).table \in DOMAIN ts
          /\ GetMeta(e, k).row \in DOMAIN ts[GetMeta(e, k).table].entities
          /\ ts[GetMeta(e, k).table].entities[GetMeta(e, k).row] = k
      BY <2>2 DEF Placed, SoundAt, RowsNamed
    <3>2. RowAfter(e, f, ts[m], h, k) /\ RowsNamed(e, ts)
      BY <2>2, <3>1 DEF SoundAt
    <3>3. CASE GetMeta(e, k).table = m
      BY <1>0, <2>2, <3>1, <3>2, <3>3, RowAfterOK
    <3>4. CASE GetMeta(e, k).table # m
      <4>1. GetMeta(f, k).row = GetMeta(e, k).row
        BY <1>0, <2>2, <3>1, <3>2, <3>4, RowAfterOK
      <4>2. CASE GetMeta(e, k).table = i
        BY <3>1, <4>1, <4>2, RowStays
      <4>3. CASE GetMeta(e, k).table # i
        BY <3>1, <3>4, <4>1, <4>3
      <4> QED
        BY <4>2, <4>3
    <3> QED
      BY <3>3, <3>4
  <2> QED
    BY <2>1, <2>2
<1>2. ASSUME NEW j \in DOMAIN us
      PROVE  SoundTable(us[j])
  <2>1. CASE j = m
    BY <1>0, <2>1, SoundRemove DEF SoundAt
  <2>2. CASE j # m /\ j # i
    BY <2>2 DEF SoundAt, SameSignatures
  <2> QED
    BY <2>1, <2>2
<1> QED
  BY <1>1, <1>2 DEF SoundAt, RowsNamed

-----------------------------------------------------------------------------
(* The steps of World.                                                      *)

\* The components that an operation drops and returns.
Releases == [dropped : SUBSET (Components \X Handles), returned : SUBSET (Components \X Handles)]

\* The inductive invariant.
WorldInv ==
  /\ RegistryOK(entities)
  /\ ArchetypesOK(archetypes)
  /\ Placed(entities, archetypes.tables)
  /\ released \in Releases
  /\ panicked \in BOOLEAN

\* Tables are added, none is taken away, and each keeps its signature.
TablesKept(ts, us) ==
  \A i \in DOMAIN ts : i \in DOMAIN us /\ us[i].signature = ts[i].signature

\* The map that World is compared with is read from registry and tables.
LEMMA StoreIs == ComponentsBySignature = StoreOf(entities, archetypes.tables)
BY DEF ComponentsBySignature, StoreOf, TableOf, MetaOf

\* Tables that are found or made do not change what the entities have.
LEMMA FindStore ==
  ASSUME ArchetypesOK(archetypes), NEW sig \in SUBSET Components, NEW new, IsNew(new, sig),
         Placed(entities, archetypes.tables)
  PROVE  /\ StoreOf(entities, FindOrInsert(sig, new).tables) = StoreOf(entities, archetypes.tables)
         /\ TablesKept(archetypes.tables, FindOrInsert(sig, new).tables)
<1> DEFINE f == FindOrInsert(sig, new)
<1>1. \A i \in DOMAIN archetypes.tables :
        i \in DOMAIN f.tables /\ f.tables[i] = archetypes.tables[i]
  BY FindOK
<1> HIDE DEF f
<1>2. \A h \in Live(entities) : f.tables[GetMeta(entities, h).table] = archetypes.tables[GetMeta(entities, h).table]
  BY <1>1 DEF Placed
<1>3. StoreOf(entities, f.tables) = StoreOf(entities, archetypes.tables)
  BY <1>2 DEF StoreOf
<1>4. TablesKept(archetypes.tables, f.tables)
  BY <1>1 DEF TablesKept
<1> QED
  BY <1>3, <1>4 DEF f

\* They do not disturb a sound world, unless they are made with the wrong columns.
LEMMA FindSound ==
  ASSUME ArchetypesOK(archetypes), NEW sig \in SUBSET Components, NEW new, IsNew(new, sig),
         Placed(entities, archetypes.tables), SoundAt(entities, archetypes.tables),
         Known(sig) \/ SoundTable(new)
  PROVE  SoundAt(entities, FindOrInsert(sig, new).tables)
<1> DEFINE f == FindOrInsert(sig, new)
           n == Len(archetypes.tables)
<1>1. CASE Known(sig)
  BY <1>1 DEF FindOrInsert
<1>2. CASE ~Known(sig)
  <2>0. n \in Nat /\ DOMAIN archetypes.tables = 1 .. n
    BY DEF ArchetypesOK
  <2>1. f = InsertTable(archetypes, new) /\ sig \notin DOMAIN archetypes.lookup
    BY <1>2 DEF FindOrInsert, Known
  <2> HIDE DEF f
  <2>2. /\ ArchetypesOK(f) /\ Len(f.tables) = n + 1
        /\ \A i \in DOMAIN archetypes.tables : f.tables[i] = archetypes.tables[i]
        /\ f.tables[n + 1] = new
    BY <2>1, InsertTableOK
  <2>3. DOMAIN f.tables = 1 .. n \union {n + 1}
    BY <2>0, <2>2 DEF ArchetypesOK
  <2>4. \A i \in DOMAIN f.tables : SoundTable(f.tables[i])
    BY <1>2, <2>0, <2>2, <2>3 DEF SoundAt
  <2>5. RowsNamed(entities, f.tables)
    BY <2>2 DEF SoundAt, RowsNamed, Placed
  <2> QED
    BY <2>4, <2>5 DEF SoundAt, f
<1> QED
  BY <1>1, <1>2

\* Most operations release nothing.
LEMMA NothingReleased == Nothing \in Releases
BY DEF Nothing, Releases

\* A panic ends the behaviour and leaves the map as it was.
LEMMA PanicStep ==
  ASSUME WorldInv, Panic
  PROVE  WorldInv' /\ TablesKept(archetypes.tables, archetypes'.tables) /\ UNCHANGED BySignature!vars
<1>1. UNCHANGED <<entities, archetypes, released>> /\ panicked' = TRUE
  BY DEF Panic
<1>2. WorldInv'
  BY <1>1 DEF WorldInv, RegistryOK, ArchetypesOK, Placed
<1>3. Issued(entities)' = Issued(entities)
  BY <1>1
<1>4. ComponentsBySignature' = ComponentsBySignature
  BY <1>1 DEF ComponentsBySignature, TableOf, MetaOf
<1> QED
  BY <1>1, <1>2, <1>3, <1>4 DEF BySignature!vars, TablesKept

\* World::spawn: a new handle arrives in the table of the bundle.
LEMMA SpawnStep ==
  ASSUME WorldInv, NEW b \in SpawnBundles, Spawn(b)
  PROVE  /\ WorldInv' /\ TablesKept(archetypes.tables, archetypes'.tables)
         /\ Panic \/ \E h \in Handles : BySignature!Spawn(h, b)
         /\ SoundAt(entities, archetypes.tables) =>
              /\ SoundAt(entities', archetypes'.tables)
              /\ UNCHANGED panicked /\ released' = Nothing
<1> DEFINE h     == AllocatedHandle(entities)
           found == FindOrInsert(Types(b), NewTable(b))
           i     == found.lookup[Types(b)]
           table == found.tables[i]
           new   == TableInsert(table, h, b)
           ts    == [found.tables EXCEPT ![i] = new]
           row   == Len(table.entities) + 1
           reg   == SpawnMeta(Allocate(entities), Meta(h, i, row))
<1>0. ASSUME SoundAt(entities, archetypes.tables)
      PROVE  /\ SoundAt(entities, found.tables)
             /\ Types(b) \subseteq ColumnTypes(table)
  <2>1. b \in Bundles /\ Types(b) \in SUBSET Components
    BY WorldAssumption, BundleOK
  <2>2. ArchetypesOK(archetypes) /\ Placed(entities, archetypes.tables) /\ IsNew(NewTable(b), Types(b))
    BY <2>1, NewTableOK DEF WorldInv
  <2>3. SoundTable(NewTable(b))
    BY <2>1, NewTableColumns DEF SoundTable
  <2>4. SoundAt(entities, found.tables)
    BY <1>0, <2>1, <2>2, <2>3, FindSound
  <2>5. i \in DOMAIN found.tables /\ table.signature = Types(b)
    BY <2>1, <2>2, FindOK
  <2> QED
    BY <2>4, <2>5 DEF SoundAt, SoundTable, Matched
<1>1. CASE ~(Types(b) \subseteq ColumnTypes(table)) /\ Panic
  BY <1>0, <1>1, PanicStep
<1>2. CASE /\ MayAllocate(entities)
           /\ archetypes' = [found EXCEPT !.tables = ts]
           /\ entities' = reg
           /\ released' = Nothing
           /\ UNCHANGED panicked
  <2>1. b \in Bundles /\ Types(b) \in SUBSET Components
    BY WorldAssumption, BundleOK
  <2>2. RegistryOK(entities) /\ ArchetypesOK(archetypes) /\ Placed(entities, archetypes.tables)
    BY DEF WorldInv
  <2>3. IsNew(NewTable(b), Types(b))
    BY <2>1, NewTableOK
  <2>4. /\ ArchetypesOK(found) /\ i \in DOMAIN found.tables
        /\ table.signature = Types(b)
        /\ Placed(entities, found.tables)
    BY <2>1, <2>2, <2>3, FindOK
  <2>5. /\ StoreOf(entities, found.tables) = ComponentsBySignature
        /\ TablesKept(archetypes.tables, found.tables)
    BY <2>1, <2>2, <2>3, FindStore, StoreIs
  <2> HIDE DEF found
  <2>6. found.tables \in Seq(TableValues) /\ i \in Positions /\ table \in TableValues
    <3>1. found.tables \in Seq(TableValues)
      BY <2>4 DEF ArchetypesOK
    <3> QED
      BY <2>4, <3>1 DEF Positions
  <2>7. row \in Nat
    <3> HIDE DEF table
    <3>1. Len(table.entities) \in Nat
      BY <2>6, TableParts
    <3> QED
      BY <3>1
  <2> HIDE DEF i, row
  <2>8. /\ h \in Handles /\ h \notin Issued(entities)
        /\ \A k \in Live(entities) : k.index # h.index
        /\ Issued(reg) = Issued(entities) \union {h}
        /\ Live(reg) = Live(entities) \union {h}
    BY <1>2, <2>2, <2>6, <2>7, SpawnIssues DEF RegistryOK, WorldMetas
  <2>9. /\ RegistryOK(reg) /\ GetMeta(reg, h) = Meta(h, i, row)
        /\ \A k \in Live(entities) : GetMeta(reg, k) = GetMeta(entities, k)
    BY <1>2, <2>2, <2>6, <2>7, SpawnPlaces
  <2> HIDE DEF h, reg, table
  <2>10. h \notin Live(entities) /\ h \notin ToSet(table.entities)
    BY <2>4, <2>8 DEF Live, Placed, table
  <2>11. RowsFound(table)
    BY <2>4 DEF Placed, table
  <2>12. /\ new \in TableValues /\ RowsFound(new) /\ new.signature = table.signature
         /\ ToSet(new.entities) = ToSet(table.entities) \union {h}
    <3> DEFINE added == AddEntity(table, h)
               values == [c \in Types(b) |-> h]
    <3>1. /\ added \in TableValues /\ RowsFound(added)
          /\ added.signature = table.signature
          /\ ToSet(added.entities) = ToSet(table.entities) \union {h}
      BY <2>6, <2>8, <2>10, <2>11, AddEntityOK
    <3>2. new = PushValues(added, values)
      BY DEF TableInsert, InsertInto
    <3>3. \A j \in DOMAIN added.columns : added.columns[j].ty \in DOMAIN values => values[added.columns[j].ty] \in Handles
      BY <2>8
    <3> HIDE DEF added, values, new
    <3>4. /\ new \in TableValues /\ new.signature = added.signature
          /\ new.entities = added.entities /\ new.entity_lookup = added.entity_lookup
      BY <3>1, <3>2, <3>3, PushValuesOK
    <3> QED
      BY <3>1, <3>4 DEF RowsFound
  <2> HIDE DEF new
  <2>13. /\ ts \in Seq(TableValues) /\ Len(ts) = Len(found.tables) /\ DOMAIN ts = DOMAIN found.tables
         /\ ts[i] = new /\ \A j \in DOMAIN found.tables \ {i} : ts[j] = found.tables[j]
    BY <2>4, <2>6, <2>12
  <2> HIDE DEF ts
  <2>14. \A j \in DOMAIN found.tables : ts[j].signature = found.tables[j].signature
    BY <2>12, <2>13 DEF table
  <2>15. ArchetypesOK(archetypes') /\ archetypes'.tables = ts
    BY <1>2, <2>4, <2>13, <2>14, ReplacedOK
  <2>16. Arrives(entities, reg, found.tables, ts, h, i)
    <3>1. GetMeta(reg, h).table = i
      BY <2>9 DEF Meta
    <3>2. \A k \in Live(entities) : GetMeta(reg, k).table = GetMeta(entities, k).table
      BY <2>9
    <3>3. SameSignatures(ts, found.tables)
      BY <2>13, <2>14 DEF SameSignatures
    <3>4. RowsFound(ts[i]) /\ ToSet(ts[i].entities) = ToSet(found.tables[i].entities) \union {h}
      BY <2>12, <2>13 DEF table
    <3> QED
      BY <2>4, <2>8, <2>10, <2>13, <3>1, <3>2, <3>3, <3>4 DEF Arrives
  <2>17. /\ Placed(reg, ts)
         /\ StoreOf(reg, ts) = StoreWith(StoreOf(entities, found.tables), h, found.tables[i].signature)
    BY <2>4, <2>16, ArrivesOK
  <2>18. WorldInv'
    BY <1>2, <2>9, <2>15, <2>17, NothingReleased DEF WorldInv, RegistryOK, ArchetypesOK, Placed
  <2>19. BySignature!Spawn(h, b)
    <3>1. StoreOf(reg, ts) = ComponentsBySignature'
      BY <1>2, <2>15 DEF StoreIs, ComponentsBySignature, StoreOf, TableOf, MetaOf
    <3>2. Types(b) = BySignature!Types(b)
      BY DEF Types, ToSet, BySignature!Types
    <3>3. DOMAIN ComponentsBySignature = Live(entities)
      BY DEF ComponentsBySignature
    <3>4. found.tables[i].signature = Types(b)
      BY <2>4 DEF table
    <3>5. Issued(entities)' = Issued(entities) \union {h}
      BY <1>2, <2>8
    <3> QED
      BY <2>5, <2>8, <2>17, <3>1, <3>2, <3>3, <3>4, <3>5 DEF BySignature!Spawn, StoreWith
  <2>20. TablesKept(archetypes.tables, archetypes'.tables)
    BY <2>5, <2>13, <2>14, <2>15 DEF TablesKept
  <2>21. ASSUME SoundAt(entities, archetypes.tables)
         PROVE  SoundAt(entities', archetypes'.tables)
    <3>1. SoundAt(entities, found.tables)
      BY <1>0, <2>21
    <3>2. SoundTable(new) /\ new.entities = Append(table.entities, h)
      BY <2>4, <2>6, <2>8, <2>10, <2>11, <3>1, SoundInsert DEF SoundAt, new, table
    <3>3. /\ SoundTable(ts[i]) /\ ts[i].entities = Append(found.tables[i].entities, h)
          /\ found.tables[i].entities \in Seq(Handles)
      BY <2>6, <2>13, <3>2, TableParts DEF table
    <3>4. GetMeta(reg, h).row = Len(found.tables[i].entities) + 1
      BY <2>9 DEF Meta, row, table
    <3>5. \A k \in Live(entities) : GetMeta(reg, k).row = GetMeta(entities, k).row
      BY <2>9
    <3>6. SoundAt(reg, ts)
      BY <2>4, <2>8, <2>16, <3>1, <3>3, <3>4, <3>5, ArrivesSound
    <3> QED
      BY <1>2, <2>15, <3>6
  <2> QED
    BY <1>2, <2>8, <2>18, <2>19, <2>20, <2>21
<1> QED
  BY <1>1, <1>2 DEF Spawn

\* A column found by its type holds values; what a removal drops, and what it returns.
LEMMA ColumnOK ==
  ASSUME NEW t \in TableValues, NEW c \in ColumnTypes(t)
  PROVE  c \in Components /\ Column(t, c) \in Seq(Handles)
<1>1. t.columns \in Seq(Columns)
  BY TableParts
<1>2. \A k \in DOMAIN t.columns : t.columns[k].ty \in Components /\ t.columns[k].data \in Seq(Handles)
  <2>1. \A k \in DOMAIN t.columns : t.columns[k] \in Columns
    BY <1>1
  <2> QED
    BY <2>1 DEF Columns
<1>3. PICK k \in DOMAIN t.columns : t.columns[k].ty = c
  BY DEF ColumnTypes
<1> QED
  BY <1>2, <1>3 DEF Column

\* What Table::remove drops are components of the row.
LEMMA DroppedOK ==
  ASSUME NEW t \in TableValues, NEW h, ~RemovePanics(t, h), NEW should_drop \in BOOLEAN
  PROVE  DroppedByRemove(t, h, should_drop) \in SUBSET (Components \X Handles)
<1>1. ASSUME h \in DOMAIN t.entity_lookup, NEW c \in ColumnTypes(t)
      PROVE  c \in Components /\ Column(t, c)[t.entity_lookup[h]] \in Handles
  <2>1. t.entity_lookup[h] \in DOMAIN Column(t, c)
    BY <1>1 DEF RemovePanics, HasRow
  <2> QED
    BY <2>1, ColumnOK
<1> QED
  BY <1>1 DEF DroppedByRemove

\* What Archetypes::remove returns are components of the row.
LEMMA CopyFromOK ==
  ASSUME NEW t \in TableValues, NEW b, NEW row, HasRow(t, Types(b), row)
  PROVE  CopyFrom(t, b, row) \in SUBSET (Components \X Handles)
<1>1. ASSUME NEW c \in Types(b)
      PROVE  c \in Components /\ Column(t, c)[row] \in Handles
  BY ColumnOK DEF HasRow
<1> QED
  BY <1>1 DEF CopyFrom

\* World::despawn: a live entity leaves its table, a stale handle changes nothing.
LEMMA DespawnStep ==
  ASSUME WorldInv, NEW h \in Issued(entities), Despawn(h)
  PROVE  /\ WorldInv' /\ TablesKept(archetypes.tables, archetypes'.tables)
         /\ Panic \/ (h \in Handles /\ BySignature!Despawn(h))
         /\ SoundAt(entities, archetypes.tables) =>
              /\ SoundAt(entities', archetypes'.tables)
              /\ UNCHANGED panicked
              /\ released' = [dropped |-> {<<c, h>> : c \in TableOf(h).signature}, returned |-> {}]
<1> DEFINE i     == MetaOf(h).table
           table == TableOf(h)
           new   == TableRemove(table, h)
           ts    == [archetypes.tables EXCEPT ![i] = new]
           mid   == RegistryAfterRemove(entities, table, h)
           reg   == DespawnMeta(mid, h)
<1>1. /\ RegistryOK(entities) /\ ArchetypesOK(archetypes) /\ Placed(entities, archetypes.tables)
      /\ HasMeta(entities, h)
  BY DEF WorldInv, Despawn
<1>2. h \in Live(entities) /\ h \in Handles
  <2>1. h \in Handles /\ h.index \in 1 .. Len(entities.generations)
    BY <1>1 DEF Issued, RegistryOK, Registries
  <2>2. entities \in Registries(Metas(Positions, Nat)) /\ WellFormed(entities)
    BY <1>1 DEF RegistryOK, WorldMetas
  <2>3. IsAlive(entities, h)
    BY <1>1, <2>1, <2>2, LookupOK
  <2> QED
    BY <2>1, <2>3 DEF Live
<1>3. /\ archetypes.tables \in Seq(TableValues)
      /\ i \in DOMAIN archetypes.tables /\ table = archetypes.tables[i]
      /\ i = GetMeta(entities, h).table
      /\ h \in ToSet(table.entities) /\ RowsFound(table)
      /\ ToSet(table.entities) \subseteq Live(entities)
  BY <1>1, <1>2 DEF ArchetypesOK, Placed, TableOf, MetaOf
<1>4. table \in TableValues
  BY <1>3
<1>5. CASE RemovePanics(table, h) /\ Panic
  <2>1. SoundAt(entities, archetypes.tables) => SoundTable(table)
    BY <1>3 DEF SoundAt
  <2> HIDE DEF table
  <2>2. ~SoundAt(entities, archetypes.tables)
    BY <1>5, <1>3, <1>4, <2>1, SoundRemove
  <2> QED
    BY <1>5, <2>2, PanicStep
<1>6. CASE /\ ~RemovePanics(table, h)
           /\ archetypes' = [archetypes EXCEPT !.tables = ts]
           /\ entities' = reg
           /\ released' = [dropped |-> DroppedByRemove(table, h, TRUE), returned |-> {}]
           /\ UNCHANGED panicked
  <2> HIDE DEF i, table
  <2>5. /\ new \in TableValues /\ RowsFound(new) /\ new.signature = table.signature
        /\ ToSet(new.entities) = ToSet(table.entities) \ {h}
    BY <1>3, <1>4, TableRemoveOK
  <2>6. /\ RegistryOK(mid) /\ Issued(mid) = Issued(entities) /\ Live(mid) = Live(entities)
        /\ \A k \in Live(entities) : GetMeta(mid, k).table = GetMeta(entities, k).table
        /\ \A k \in Live(entities) : RowAfter(entities, mid, table, h, k)
    BY <1>1, <1>3, <1>4, RemovePlaces DEF RowAfter
  <2> HIDE DEF mid
  <2>7. /\ RegistryOK(reg) /\ Issued(reg) = Issued(mid) /\ Live(reg) = Live(mid) \ {h}
        /\ \A k \in Live(mid) \ {h} : GetMeta(reg, k) = GetMeta(mid, k)
    BY <1>2, <2>6, DespawnPlaces
  <2> HIDE DEF new, reg
  <2>8. /\ ts \in Seq(TableValues) /\ Len(ts) = Len(archetypes.tables)
        /\ DOMAIN ts = DOMAIN archetypes.tables
        /\ ts[i] = new /\ \A j \in DOMAIN archetypes.tables \ {i} : ts[j] = archetypes.tables[j]
    BY <1>3, <2>5
  <2> HIDE DEF ts
  <2>9. SameSignatures(ts, archetypes.tables)
    BY <1>3, <2>5, <2>8 DEF SameSignatures
  <2>10. ArchetypesOK(archetypes') /\ archetypes'.tables = ts
    BY <1>6, <1>1, <2>8, <2>9, ReplacedOK DEF SameSignatures
  <2>11. Leaves(entities, reg, archetypes.tables, ts, h, i)
    BY <1>2, <1>3, <2>5, <2>6, <2>7, <2>8, <2>9 DEF Leaves
  <2>12. /\ Placed(reg, ts)
         /\ StoreOf(reg, ts) = StoreWithout(StoreOf(entities, archetypes.tables), h)
    BY <1>1, <2>11, LeavesOK
  <2>13. released' \in Releases
    <3>1. DroppedByRemove(table, h, TRUE) \in SUBSET (Components \X Handles)
      BY <1>6, <1>4, DroppedOK
    <3> QED
      BY <1>6, <3>1 DEF Releases
  <2>14. WorldInv'
    BY <1>6, <2>7, <2>10, <2>12, <2>13 DEF WorldInv, RegistryOK, ArchetypesOK, Placed
  <2>15. BySignature!Despawn(h)
    <3>1. ComponentsBySignature' = StoreOf(reg, ts)
      BY <1>6, <2>10 DEF ComponentsBySignature, StoreOf, TableOf, MetaOf
    <3>2. ComponentsBySignature = StoreOf(entities, archetypes.tables)
      BY StoreIs
    <3>3. DOMAIN ComponentsBySignature = Live(entities)
      BY DEF ComponentsBySignature
    <3>4. Issued(entities)' = Issued(entities)
      BY <1>6, <2>6, <2>7
    <3> QED
      BY <1>2, <2>12, <3>1, <3>2, <3>3, <3>4 DEF BySignature!Despawn, StoreWithout
  <2>16. TablesKept(archetypes.tables, archetypes'.tables)
    BY <2>9, <2>10 DEF SameSignatures, TablesKept
  <2>17. ASSUME SoundAt(entities, archetypes.tables)
         PROVE  /\ SoundAt(entities', archetypes'.tables)
                /\ released' = [dropped |-> {<<c, h>> : c \in table.signature}, returned |-> {}]
    <3>1. SoundTable(table)
      BY <1>3, <2>17 DEF SoundAt
    <3>2. DroppedByRemove(table, h, TRUE) = {<<c, h>> : c \in table.signature}
      BY <1>3, <1>4, <3>1, SoundRemove
    <3>3. \A k \in Live(reg) : RowAfter(entities, reg, archetypes.tables[i], h, k)
      BY <1>3, <2>6, <2>7 DEF RowAfter
    <3>4. archetypes.tables[i] \in TableValues /\ ts[i] = TableRemove(archetypes.tables[i], h)
      BY <1>3, <1>4, <2>8 DEF new
    <3>5. SoundAt(reg, ts)
      BY <1>1, <2>11, <2>17, <3>3, <3>4, LeavesSound
    <3> QED
      BY <1>6, <2>10, <3>2, <3>5
  <2> QED
    BY <1>6, <1>2, <2>14, <2>15, <2>16, <2>17 DEF table
<1> QED
  BY <1>5, <1>6 DEF Despawn

\* What the two ways of moving an entity have in common.
LEMMA MoveStep ==
  ASSUME WorldInv, NEW h \in Live(entities), NEW found, ArchetypesOK(found),
         Placed(entities, found.tables), StoreOf(entities, found.tables) = ComponentsBySignature,
         TablesKept(archetypes.tables, found.tables),
         NEW i \in DOMAIN found.tables, i # MetaOf(h).table,
         found.tables[MetaOf(h).table] = TableOf(h),
         NEW new \in TableValues, RowsFound(new), new.signature = found.tables[i].signature,
         ToSet(new.entities) = ToSet(found.tables[i].entities) \union {h},
         RegistryOK(entities'), Issued(entities') = Issued(entities), Live(entities') = Live(entities),
         GetMeta(entities', h).table = i,
         \A k \in Live(entities) \ {h} : GetMeta(entities', k).table = GetMeta(entities, k).table,
         archetypes' = [found EXCEPT !.tables =
                          [found.tables EXCEPT ![i] = new, ![MetaOf(h).table] = TableRemove(TableOf(h), h)]],
         released' \in Releases, UNCHANGED panicked
  PROVE  /\ WorldInv' /\ TablesKept(archetypes.tables, archetypes'.tables)
         /\ UNCHANGED Issued(entities)
         /\ ComponentsBySignature' = StoreWith(ComponentsBySignature, h, found.tables[i].signature)
         /\ /\ SoundAt(entities, found.tables)
            /\ SoundTable(new) /\ new.entities = Append(found.tables[i].entities, h)
            /\ GetMeta(entities', h).row = Len(found.tables[i].entities) + 1
            /\ \A k \in Live(entities) \ {h} : RowAfter(entities, entities', TableOf(h), h, k)
            => SoundAt(entities', archetypes'.tables)
<1> DEFINE m   == MetaOf(h).table
           src == TableOf(h)
           old == TableRemove(src, h)
           ts  == [found.tables EXCEPT ![i] = new, ![m] = old]
<1>1. /\ found.tables \in Seq(TableValues) /\ m = GetMeta(entities, h).table
      /\ m \in DOMAIN found.tables /\ src = found.tables[m]
      /\ h \in ToSet(src.entities) /\ RowsFound(src)
  BY DEF ArchetypesOK, Placed, MetaOf
<1>2. src \in TableValues
  BY <1>1
<1>3. i # m /\ archetypes' = [found EXCEPT !.tables = ts]
  OBVIOUS
<1> HIDE DEF m, src
<1>4. /\ old \in TableValues /\ RowsFound(old) /\ old.signature = src.signature
      /\ ToSet(old.entities) = ToSet(src.entities) \ {h}
  BY <1>1, <1>2, TableRemoveOK
<1> HIDE DEF old
<1>5. /\ ts \in Seq(TableValues) /\ Len(ts) = Len(found.tables)
      /\ DOMAIN ts = DOMAIN found.tables
      /\ ts[i] = new /\ ts[m] = old
      /\ \A j \in DOMAIN found.tables \ {i, m} : ts[j] = found.tables[j]
  BY <1>1, <1>3, <1>4
<1> HIDE DEF ts
<1>6. SameSignatures(ts, found.tables)
  <2>1. ASSUME NEW j \in DOMAIN found.tables
        PROVE  ts[j].signature = found.tables[j].signature
    <3>1. CASE j = i
      BY <1>5, <3>1
    <3>2. CASE j = m
      BY <1>1, <1>4, <1>5, <3>2
    <3>3. CASE j # i /\ j # m
      BY <1>5, <3>3
    <3> QED
      BY <3>1, <3>2, <3>3
  <2> QED
    BY <1>5, <2>1 DEF SameSignatures
<1>7. ArchetypesOK(archetypes') /\ archetypes'.tables = ts
  <2>1. \A j \in DOMAIN found.tables : ts[j].signature = found.tables[j].signature
    BY <1>6 DEF SameSignatures
  <2>2. ArchetypesOK([found EXCEPT !.tables = ts]) /\ [found EXCEPT !.tables = ts].tables = ts
    BY <1>5, <2>1, ReplacedOK
  <2> QED
    BY <1>3, <2>2
<1>8. Moves(entities, entities', found.tables, ts, h, m, i)
  BY <1>1, <1>3, <1>4, <1>5, <1>6 DEF Moves
<1>9. /\ Placed(entities', ts)
      /\ StoreOf(entities', ts) = StoreWith(StoreOf(entities, found.tables), h, found.tables[i].signature)
  BY <1>8, MovesOK
<1>10. WorldInv'
  BY <1>7, <1>9 DEF WorldInv, RegistryOK, ArchetypesOK, Placed
<1>11. ComponentsBySignature' = StoreOf(entities', ts)
  BY <1>7 DEF ComponentsBySignature, StoreOf, TableOf, MetaOf
<1>12. TablesKept(archetypes.tables, archetypes'.tables)
  BY <1>6, <1>7 DEF SameSignatures, TablesKept
<1>13. ASSUME SoundAt(entities, found.tables),
              SoundTable(new), new.entities = Append(found.tables[i].entities, h),
              GetMeta(entities', h).row = Len(found.tables[i].entities) + 1,
              \A k \in Live(entities) \ {h} : RowAfter(entities, entities', TableOf(h), h, k)
       PROVE  SoundAt(entities', archetypes'.tables)
  <2>1. /\ found.tables[m] \in TableValues /\ ts[m] = TableRemove(found.tables[m], h)
        /\ SoundTable(ts[i]) /\ ts[i].entities = Append(found.tables[i].entities, h)
    BY <1>1, <1>2, <1>5, <1>13 DEF old
  <2>2. found.tables[i].entities \in Seq(Handles) /\ h \in Handles
    <3>1. found.tables[i] \in TableValues
      BY <1>1
    <3> QED
      BY <3>1, TableParts, LiveHandle DEF WorldInv
  <2>3. \A k \in Live(entities) \ {h} : RowAfter(entities, entities', found.tables[m], h, k)
    BY <1>1, <1>13 DEF src
  <2>4. SoundAt(entities', ts)
    BY <1>8, <1>13, <2>1, <2>2, <2>3, MovesSound
  <2> QED
    BY <1>7, <2>4
<1> QED
  BY <1>9, <1>10, <1>11, <1>12, <1>13

\* Replacing the components of a live entity.
LEMMA StoreExcept ==
  ASSUME NEW h \in Live(entities), NEW sig
  PROVE  StoreWith(ComponentsBySignature, h, sig) =
           [ComponentsBySignature EXCEPT ![h] = [c \in sig |-> h]]
<1>1. /\ DOMAIN ComponentsBySignature = Live(entities)
      /\ ComponentsBySignature = [k \in Live(entities) |-> ComponentsBySignature[k]]
  BY DEF ComponentsBySignature
<1> DEFINE store == ComponentsBySignature
           own == [c \in sig |-> h]
<1>2. StoreWith(store, h, sig) = [k \in DOMAIN store \union {h} |-> IF k = h THEN own ELSE store[k]]
  BY DEF StoreWith
<1> HIDE DEF store, own
<1>3. DOMAIN store \union {h} = DOMAIN store
  BY <1>1 DEF store
<1>4. StoreWith(store, h, sig) = [store EXCEPT ![h] = own]
  BY <1>2, <1>3
<1> QED
  BY <1>4 DEF store, own

\* A table that is made is the one that lookup then finds.
LEMMA FoundNew ==
  ASSUME ArchetypesOK(archetypes), NEW sig \in SUBSET Components, NEW new, IsNew(new, sig), ~Known(sig)
  PROVE  LET f == FindOrInsert(sig, new) IN f.tables[f.lookup[sig]] = new
<1> DEFINE f == FindOrInsert(sig, new)
           n == Len(archetypes.tables)
<1>1. f = InsertTable(archetypes, new) /\ sig \notin DOMAIN archetypes.lookup
  BY DEF FindOrInsert, Known
<1> HIDE DEF f
<1>2. ArchetypesOK(f) /\ f.tables[n + 1] = new /\ Len(f.tables) = n + 1
  BY <1>1, InsertTableOK
<1>3. n + 1 \in DOMAIN f.tables
  <2>1. n \in Nat /\ DOMAIN f.tables = 1 .. n + 1
    BY <1>2 DEF ArchetypesOK
  <2> QED
    BY <2>1
<1>4. f.lookup[sig] = n + 1
  BY <1>2, <1>3 DEF ArchetypesOK, IsNew
<1> QED
  BY <1>2, <1>4 DEF f

\* The insertions that EntityMut::insert gets right, and the removals.
MayInsert(h, b) == TableOf(h).signature \intersect Types(b) = {} /\ ~InsertMisplaces(h, b)
MayRemove(h, b) == Types(b) \subseteq TableOf(h).signature /\ ~RemoveMisplaces(h, b)

\* In a sound world, EntityMut::insert fills every column of the joined table.
LEMMA InsertFills ==
  ASSUME WorldInv, ColumnsOnce(archetypes.tables), SoundAt(entities, archetypes.tables),
         NEW h \in Live(entities), NEW b \in InsertBundles, MayInsert(h, b)
  PROVE  LET meta   == MetaOf(h)
             src    == TableOf(h)
             joined == src.signature \union Types(b)
             found  == FindOrInsert(joined, NewJoinedTable(src, b))
             i      == found.lookup[joined]
             dst    == found.tables[i]
             copied == CopyRow(src, meta.row, AddEntity(dst, h))
             row    == Len(copied.columns[1].data)
             filled == InsertInto(copied, b, h)
         IN  /\ SoundAt(entities, found.tables)
             /\ Len(dst.columns) = Len(src.columns) + Len(b)
             /\ ColumnTypes(src) \union Types(b) \subseteq ColumnTypes(dst)
             /\ HasRow(src, ColumnTypes(src), meta.row)
             /\ ~RemovePanics(src, h)
             /\ row = Len(dst.entities) + 1 /\ row > 0
             /\ SoundTable(filled) /\ filled.entities = Append(dst.entities, h)
             /\ \A k, l \in DOMAIN filled.columns :
                  Len(filled.columns[k].data) = Len(filled.columns[l].data)
<1> DEFINE meta   == MetaOf(h)
           src    == TableOf(h)
           joined == src.signature \union Types(b)
           made   == NewJoinedTable(src, b)
           found  == FindOrInsert(joined, made)
           i      == found.lookup[joined]
           dst    == found.tables[i]
           copied == CopyRow(src, meta.row, AddEntity(dst, h))
           row    == Len(copied.columns[1].data)
           filled == InsertInto(copied, b, h)
<1>1. /\ b \in Bundles /\ Types(b) \in SUBSET Components /\ Types(b) # {}
      /\ Len(b) \in Nat \ {0}
  BY WorldAssumption, BundleOK
<1>2. RegistryOK(entities) /\ ArchetypesOK(archetypes) /\ Placed(entities, archetypes.tables)
  BY DEF WorldInv
<1>3. /\ archetypes.tables \in Seq(TableValues)
      /\ meta.table \in DOMAIN archetypes.tables /\ src = archetypes.tables[meta.table]
      /\ meta = GetMeta(entities, h)
      /\ h \in ToSet(src.entities) /\ RowsFound(src)
  BY <1>2 DEF ArchetypesOK, Placed, TableOf, MetaOf
<1>4. src \in TableValues /\ h \in Handles
  BY <1>2, <1>3, LiveHandle
<1>5. /\ SoundTable(src) /\ meta.row \in DOMAIN src.entities /\ src.entities[meta.row] = h
      /\ Distinct(src) /\ src.signature # {}
  BY <1>3 DEF SoundAt, RowsNamed, SoundTable, ColumnsOnce
<1>6. src.signature \intersect Types(b) = {}
  BY DEF MayInsert
<1>7. Known(joined) => archetypes.tables[archetypes.lookup[joined]].columns[1].ty \notin Types(b)
  BY DEF MayInsert, InsertMisplaces
<1> HIDE DEF meta, src
<1>8. joined \in SUBSET Components /\ IsNew(made, joined)
  BY <1>1, <1>4, TableParts, NewJoinedTableOK
<1>9. Matched(made) /\ Distinct(made) /\ SoundTable(made)
  BY <1>1, <1>4, <1>5, <1>6, NewJoinedTableMatched, NewJoinedTableColumns DEF SoundTable
<1>10. joined # {} /\ joined # src.signature
  BY <1>1, <1>6
<1> DEFINE sig == joined
<1>11. sig = src.signature \union Types(b)
  OBVIOUS
<1> HIDE DEF joined, made
<1>12. /\ ArchetypesOK(found) /\ i \in DOMAIN found.tables /\ dst.signature = joined
       /\ Placed(entities, found.tables) /\ found.tables[meta.table] = src
       /\ SoundAt(entities, found.tables)
  <2>1. /\ ArchetypesOK(found) /\ i \in DOMAIN found.tables /\ dst.signature = joined
        /\ \A j \in DOMAIN archetypes.tables :
             j \in DOMAIN found.tables /\ found.tables[j] = archetypes.tables[j]
        /\ \A e : Placed(e, archetypes.tables) => Placed(e, found.tables)
    <3>1. ArchetypesOK(archetypes) /\ joined \in SUBSET Components /\ IsNew(made, joined)
      BY <1>2, <1>8
    <3> QED
      BY <3>1, FindOK
  <2>2. SoundAt(entities, found.tables)
    BY <1>2, <1>8, <1>9, FindSound
  <2> QED
    BY <1>2, <1>3, <2>1, <2>2
<1>13. ColumnsOnce(found.tables)
  <2> DEFINE us == found.tables
  <2>1. \A j \in DOMAIN us : SameColumns(us[j], found.tables[j])
    BY DEF SameColumns
  <2> QED
    BY <1>2, <1>8, <1>9, <1>10, <2>1, ColumnsOnceKept DEF IsNew
<1>14. /\ dst \in TableValues /\ SoundTable(dst) /\ Distinct(dst) /\ RowsFound(dst)
       /\ h \notin ToSet(dst.entities)
  <2>1. found.tables \in Seq(TableValues)
    BY <1>12 DEF ArchetypesOK
  <2>2. i # meta.table
    BY <1>10, <1>12
  <2> HIDE DEF found, i
  <2> QED
    BY <1>3, <1>12, <1>13, <2>1, <2>2 DEF SoundAt, SoundTable, ColumnsOnce, Placed
<1>15. ColumnTypes(dst) = joined /\ ColumnTypes(src) = src.signature
  BY <1>5, <1>12, <1>14 DEF SoundTable, Matched
<1>16. ~Known(joined) => dst = made
  BY <1>2, <1>8, FoundNew
<1>17. Known(joined) => dst = archetypes.tables[archetypes.lookup[joined]]
  BY DEF FindOrInsert
<1> HIDE DEF found, i, dst
<1>18. Len(dst.columns) = Len(src.columns) + Len(b)
  <2> DEFINE S == src.signature
             T == Types(b)
  <2>1. /\ IsFiniteSet(S) /\ Cardinality(S) = Len(src.columns)
    BY <1>4, <1>5, <1>15, ColumnCount
  <2>2. /\ IsFiniteSet(T) /\ Cardinality(T) = Len(b)
    BY <1>1, BundleCount
  <2>3. Cardinality(S \union T) = Len(dst.columns)
    BY <1>11, <1>14, <1>15, ColumnCount DEF sig
  <2>4. S \intersect T = {} /\ Cardinality({}) = 0
    BY <1>6, FS_EmptySet
  <2> HIDE DEF S, T
  <2>5. Cardinality(S \union T) = Cardinality(S) + Cardinality(T) - Cardinality(S \intersect T)
    BY <2>1, <2>2, FS_Union
  <2>6. Len(src.columns) \in Nat
    BY <1>4, TableParts
  <2>7. Len(dst.columns) = Cardinality(S) + Cardinality(T) - 0
    BY <2>3, <2>4, <2>5
  <2>8. Len(dst.columns) = Len(src.columns) + Len(b) - 0
    BY <2>1, <2>2, <2>7
  <2>9. Len(b) \in Nat
    BY <1>1
  <2> QED
    BY <2>6, <2>8, <2>9
<1>19. 1 \in DOMAIN dst.columns /\ dst.columns[1].ty \in src.signature
  <2>1. /\ Len(src.columns) \in Nat /\ DOMAIN src.columns = 1 .. Len(src.columns)
        /\ DOMAIN dst.columns = 1 .. Len(dst.columns)
    BY <1>4, <1>14, TableParts
  <2>2. 1 \in DOMAIN dst.columns
    BY <1>1, <1>18, <2>1
  <2>3. CASE Known(joined)
    BY <1>7, <1>11, <1>15, <1>17, <2>2, <2>3 DEF ColumnTypes, sig
  <2>4. CASE ~Known(joined)
    <3>1. 1 \in 1 .. Len(src.columns)
      <4>1. DOMAIN src.columns # {}
        BY <1>5, <1>15 DEF ColumnTypes
      <4> QED
        BY <2>1, <4>1
    <3>2. made.columns[1].ty = src.columns[1].ty
      BY <1>1, <1>4, <3>1, NewJoinedTableColumns DEF made
    <3> QED
      BY <1>15, <1>16, <2>1, <2>2, <2>4, <3>1, <3>2 DEF ColumnTypes
  <2> QED
    BY <2>2, <2>3, <2>4
<1>20. copied = CopyRow(src, meta.row, AddEntity(dst, h))
  OBVIOUS
<1> HIDE DEF copied
<1>21. /\ copied \in TableValues /\ SameColumns(copied, dst)
       /\ copied.entities = Append(dst.entities, h)
       /\ \A k \in DOMAIN dst.columns :
            copied.columns[k].data =
              IF dst.columns[k].ty \in src.signature THEN Append(dst.columns[k].data, h)
                                                     ELSE dst.columns[k].data
  BY <1>4, <1>5, <1>14, <1>20, SoundCopy
<1>22. dst.entities \in Seq(Handles) /\ \A k \in DOMAIN dst.columns : dst.columns[k].data = dst.entities
  BY <1>14, TableParts DEF SoundTable
<1>23. row = Len(dst.entities) + 1 /\ row > 0
  <2>1. copied.columns[1].data = Append(dst.entities, h)
    BY <1>19, <1>21, <1>22
  <2> QED
    BY <1>4, <1>22, <2>1
<1>24. /\ SoundTable(filled) /\ filled.entities = Append(dst.entities, h)
       /\ DOMAIN filled.columns = DOMAIN dst.columns
       /\ \A k \in DOMAIN dst.columns : filled.columns[k].data = Append(dst.entities, h)
  <2> DEFINE values == [c \in Types(b) |-> h]
  <2>1. filled = PushValues(copied, values)
    BY DEF InsertInto
  <2>2. /\ DOMAIN values = Types(b) /\ \A c \in Types(b) : values[c] = h
        /\ \A k \in DOMAIN copied.columns :
             copied.columns[k].ty \in DOMAIN values => values[copied.columns[k].ty] \in Handles
    BY <1>4
  <2> HIDE DEF values, filled
  <2>3. /\ filled.entities = copied.entities /\ SameColumns(filled, copied)
        /\ \A k \in DOMAIN copied.columns :
             filled.columns[k].data = IF copied.columns[k].ty \in DOMAIN values
                                      THEN Append(copied.columns[k].data, values[copied.columns[k].ty])
                                      ELSE copied.columns[k].data
    BY <1>21, <2>1, <2>2, PushValuesOK, PushColumns, TableIs
  <2>4. SameColumns(filled, dst)
    BY <1>21, <2>3, SameColumnsTrans
  <2>5. ASSUME NEW k \in DOMAIN dst.columns
        PROVE  filled.columns[k].data = Append(dst.columns[k].data, h)
    <3>1. /\ k \in DOMAIN copied.columns /\ copied.columns[k].ty = dst.columns[k].ty
          /\ dst.columns[k].ty \in src.signature \union Types(b)
      BY <1>11, <1>15, <1>21 DEF SameColumns, ColumnTypes, sig
    <3>2. CASE dst.columns[k].ty \in src.signature
      <4>1. dst.columns[k].ty \notin Types(b)
        BY <1>6, <3>2
      <4> QED
        BY <1>21, <2>2, <2>3, <3>1, <3>2, <4>1
    <3>3. CASE dst.columns[k].ty \notin src.signature
      BY <1>21, <2>2, <2>3, <3>1, <3>3
    <3> QED
      BY <3>2, <3>3
  <2>6. filled.entities = Append(dst.entities, h)
    BY <1>21, <2>3
  <2>7. SoundTable(filled)
    BY <1>14, <2>4, <2>5, <2>6, SoundPush
  <2> QED
    BY <1>22, <2>4, <2>5, <2>6, <2>7 DEF SameColumns
<1>25. HasRow(src, ColumnTypes(src), meta.row)
  BY <1>5, SoundColumn DEF HasRow
<1>26. ~RemovePanics(src, h)
  BY <1>3, <1>4, <1>5, SoundRemove
<1>27. ColumnTypes(src) \union Types(b) \subseteq ColumnTypes(dst)
  BY <1>11, <1>15 DEF sig
<1> QED
  BY <1>12, <1>18, <1>23, <1>24, <1>25, <1>26, <1>27
     DEF meta, src, joined, made, found, i, dst, copied

\* In a sound world, EntityMut::remove copies the row into every column that is left.
LEMMA RemoveFills ==
  ASSUME WorldInv, SoundAt(entities, archetypes.tables),
         NEW h \in Live(entities), NEW b \in RemoveBundles, MayRemove(h, b)
  PROVE  LET meta   == MetaOf(h)
             src    == TableOf(h)
             left   == src.signature \ Types(b)
             found  == FindOrInsert(left, NewSubset(src, b))
             i      == found.lookup[left]
             dst    == found.tables[i]
             added  == AddEntity(dst, h)
             copied == CopyRow(src, meta.row, added)
         IN  /\ SoundAt(entities, found.tables)
             /\ HasRow(src, ColumnTypes(dst) \union Types(b), meta.row)
             /\ ~RemovePanics(src, h)
             /\ SoundTable(copied) /\ copied.entities = Append(dst.entities, h)
             /\ Len(added.entities) = Len(dst.entities) + 1
             /\ CopyFrom(src, b, meta.row) = {<<c, h>> : c \in Types(b)}
<1> DEFINE meta   == MetaOf(h)
           src    == TableOf(h)
           left   == src.signature \ Types(b)
           made   == NewSubset(src, b)
           found  == FindOrInsert(left, made)
           i      == found.lookup[left]
           dst    == found.tables[i]
           added  == AddEntity(dst, h)
           copied == CopyRow(src, meta.row, added)
<1>1. b \in Bundles /\ Types(b) \in SUBSET Components /\ Types(b) # {}
  BY WorldAssumption, BundleOK
<1>2. RegistryOK(entities) /\ ArchetypesOK(archetypes) /\ Placed(entities, archetypes.tables)
  BY DEF WorldInv
<1>3. /\ archetypes.tables \in Seq(TableValues)
      /\ meta.table \in DOMAIN archetypes.tables /\ src = archetypes.tables[meta.table]
      /\ meta = GetMeta(entities, h)
      /\ h \in ToSet(src.entities) /\ RowsFound(src)
  BY <1>2 DEF ArchetypesOK, Placed, TableOf, MetaOf
<1>4. src \in TableValues /\ h \in Handles
  BY <1>2, <1>3, LiveHandle
<1>5. /\ SoundTable(src) /\ meta.row \in DOMAIN src.entities /\ src.entities[meta.row] = h
  BY <1>3 DEF SoundAt, RowsNamed, SoundTable
<1>6. Types(b) \subseteq src.signature /\ Known(left)
  BY DEF MayRemove, RemoveMisplaces
<1> HIDE DEF meta, src
<1>7. left \in SUBSET Components /\ left # src.signature /\ left \subseteq src.signature
  BY <1>1, <1>4, <1>6, TableParts
<1> HIDE DEF left, made
<1>8. found = archetypes
  BY <1>6 DEF FindOrInsert
<1>9. /\ i \in DOMAIN archetypes.tables /\ dst = archetypes.tables[i] /\ dst.signature = left
  BY <1>2, <1>6, <1>8 DEF ArchetypesOK, Known
<1> HIDE DEF found, i
<1>10. /\ dst \in TableValues /\ SoundTable(dst) /\ RowsFound(dst) /\ h \notin ToSet(dst.entities)
  <2>1. i # meta.table
    BY <1>3, <1>7, <1>9
  <2> QED
    BY <1>2, <1>3, <1>9, <2>1 DEF SoundAt, Placed
<1>11. ColumnTypes(dst) = left /\ ColumnTypes(src) = src.signature
  BY <1>5, <1>9, <1>10 DEF SoundTable, Matched
<1> HIDE DEF dst
<1>12. copied = CopyRow(src, meta.row, AddEntity(dst, h))
  OBVIOUS
<1> HIDE DEF copied
<1>13. /\ SameColumns(copied, dst) /\ copied.entities = Append(dst.entities, h)
       /\ \A k \in DOMAIN dst.columns :
            copied.columns[k].data =
              IF dst.columns[k].ty \in src.signature THEN Append(dst.columns[k].data, h)
                                                     ELSE dst.columns[k].data
  BY <1>4, <1>5, <1>10, <1>12, SoundCopy
<1>14. SoundTable(copied)
  <2>1. \A k \in DOMAIN dst.columns : dst.columns[k].ty \in src.signature
    BY <1>7, <1>11 DEF ColumnTypes
  <2> QED
    BY <1>10, <1>13, <2>1, SoundPush
<1>15. Len(added.entities) = Len(dst.entities) + 1
  <2>1. dst.entities \in Seq(Handles)
    BY <1>10, TableParts
  <2>2. added.entities = Append(dst.entities, h)
    BY <1>10 DEF AddEntity, TableValues
  <2> QED
    BY <1>4, <2>1, <2>2
<1>16. \A c \in ColumnTypes(src) : Column(src, c) = src.entities
  BY <1>5, SoundColumn
<1>17. HasRow(src, ColumnTypes(dst) \union Types(b), meta.row)
  BY <1>5, <1>6, <1>7, <1>11, <1>16 DEF HasRow
<1>18. CopyFrom(src, b, meta.row) = {<<c, h>> : c \in Types(b)}
  BY <1>5, <1>6, <1>11, <1>16 DEF CopyFrom
<1>19. ~RemovePanics(src, h)
  BY <1>3, <1>4, <1>5, SoundRemove
<1> QED
  BY <1>8, <1>13, <1>14, <1>15, <1>17, <1>18, <1>19
     DEF meta, src, left, made, found, i, dst, copied

\* EntityMut::insert: the entity moves to the table with the types of the bundle.
LEMMA InsertStep ==
  ASSUME WorldInv, NEW h \in Live(entities), NEW b \in InsertBundles, InsertBundle(h, b)
  PROVE  /\ WorldInv' /\ TablesKept(archetypes.tables, archetypes'.tables)
         /\ Panic \/ BySignature!Insert(h, b)
         /\ /\ SoundAt(entities, archetypes.tables) /\ ColumnsOnce(archetypes.tables)
            /\ MayInsert(h, b)
            => /\ SoundAt(entities', archetypes'.tables)
               /\ UNCHANGED panicked /\ released' = Nothing
<1> DEFINE meta   == MetaOf(h)
           src    == TableOf(h)
           joined == src.signature \union Types(b)
           found  == FindOrInsert(joined, NewJoinedTable(src, b))
           i      == found.lookup[joined]
           dst    == found.tables[i]
           added  == AddEntity(dst, h)
           copied == CopyRow(src, meta.row, added)
           row    == Len(copied.columns[1].data)
           filled == InsertInto(copied, b, h)
           mid    == RegistryAfterRemove(entities, src, h)
           reg    == SetMeta(mid, h.index, Meta(h, i, row))
           safe   == /\ SoundAt(entities, archetypes.tables) /\ ColumnsOnce(archetypes.tables)
                     /\ MayInsert(h, b)
<1>0. ASSUME safe
      PROVE  /\ SoundAt(entities, found.tables)
             /\ src.signature \intersect Types(b) = {}
             /\ Len(dst.columns) = Len(src.columns) + Len(b)
             /\ ColumnTypes(src) \union Types(b) \subseteq ColumnTypes(dst)
             /\ HasRow(src, ColumnTypes(src), meta.row)
             /\ ~RemovePanics(src, h)
             /\ row = Len(dst.entities) + 1 /\ row > 0
             /\ SoundTable(filled) /\ filled.entities = Append(dst.entities, h)
             /\ \A k, l \in DOMAIN filled.columns :
                  Len(filled.columns[k].data) = Len(filled.columns[l].data)
  BY <1>0, InsertFills DEF MayInsert
<1>1. CASE Panic /\ ~safe
  BY <1>1, PanicStep
<1>2. CASE /\ Len(dst.columns) = Len(src.columns) + Len(b)
           /\ HasRow(src, ColumnTypes(src), meta.row)
           /\ ~RemovePanics(src, h)
           /\ archetypes' = [found EXCEPT !.tables =
                               [found.tables EXCEPT ![i] = filled, ![meta.table] = TableRemove(src, h)]]
           /\ entities' = reg
           /\ released' = [dropped |-> DroppedByRemove(src, h, FALSE), returned |-> {}]
           /\ UNCHANGED panicked
  <2>1. /\ b \in Bundles /\ Types(b) \in SUBSET Components
        /\ Len(b) \in Nat \ {0}
    BY WorldAssumption, BundleOK
  <2>2. RegistryOK(entities) /\ ArchetypesOK(archetypes) /\ Placed(entities, archetypes.tables)
    BY DEF WorldInv
  <2>3. /\ archetypes.tables \in Seq(TableValues)
        /\ meta.table \in DOMAIN archetypes.tables /\ src = archetypes.tables[meta.table]
        /\ meta.table = GetMeta(entities, h).table
        /\ h \in ToSet(src.entities) /\ RowsFound(src)
        /\ ToSet(src.entities) \subseteq Live(entities)
    BY <2>2 DEF ArchetypesOK, Placed, TableOf, MetaOf
  <2>4. src \in TableValues /\ h \in Handles
    BY <2>2, <2>3, LiveHandle
  <2> HIDE DEF meta, src, safe
  <2>5. joined \in SUBSET Components /\ IsNew(NewJoinedTable(src, b), joined)
    BY <2>1, <2>4, TableParts, NewJoinedTableOK
  <2> HIDE DEF joined
  <2>6. /\ ArchetypesOK(found) /\ i \in DOMAIN found.tables
        /\ dst.signature = joined
        /\ Placed(entities, found.tables)
        /\ found.tables[meta.table] = src
    <3> DEFINE new == NewJoinedTable(src, b)
    <3> HIDE DEF new
    <3>1. ArchetypesOK(archetypes) /\ joined \in SUBSET Components /\ IsNew(new, joined)
      BY <2>2, <2>5 DEF new
    <3>2. /\ ArchetypesOK(found)
          /\ i \in DOMAIN found.tables
          /\ dst.signature = joined
          /\ \A j \in DOMAIN archetypes.tables :
               j \in DOMAIN found.tables /\ found.tables[j] = archetypes.tables[j]
          /\ \A e : Placed(e, archetypes.tables) => Placed(e, found.tables)
      BY <3>1, FindOK DEF new
    <3> QED
      BY <2>2, <2>3, <3>2
  <2>7. /\ StoreOf(entities, found.tables) = ComponentsBySignature
        /\ TablesKept(archetypes.tables, found.tables)
    BY <2>2, <2>5, FindStore, StoreIs
  <2> HIDE DEF found
  <2>8. found.tables \in Seq(TableValues) /\ i \in Positions /\ dst \in TableValues
    <3>1. found.tables \in Seq(TableValues)
      BY <2>6 DEF ArchetypesOK
    <3> QED
      BY <2>6, <3>1 DEF Positions
  <2> HIDE DEF i
  <2>9. i # meta.table
    <3>1. Len(src.columns) \in Nat
      BY <2>4, TableParts
    <3>2. dst # src
      BY <1>2, <2>1, <3>1
    <3> QED
      BY <2>6, <3>2
  <2>10. h \notin ToSet(dst.entities) /\ RowsFound(dst)
    BY <2>3, <2>6, <2>9 DEF Placed
  <2> HIDE DEF dst
  <2>11. /\ added \in TableValues /\ RowsFound(added)
         /\ added.signature = dst.signature /\ added.columns = dst.columns
         /\ ToSet(added.entities) = ToSet(dst.entities) \union {h}
    BY <2>4, <2>8, <2>10, AddEntityOK
  <2> HIDE DEF added
  <2>12. /\ copied \in TableValues /\ copied.signature = added.signature
         /\ copied.entities = added.entities /\ copied.entity_lookup = added.entity_lookup
         /\ Len(copied.columns) = Len(added.columns)
    <3> DEFINE values == [c \in ColumnTypes(src) |-> Column(src, c)[meta.row]]
    <3>1. copied = PushValues(added, values)
      BY DEF CopyRow
    <3>2. ASSUME NEW c \in ColumnTypes(src)
          PROVE  values[c] \in Handles
      BY <1>2, <2>4, ColumnOK DEF HasRow
    <3>3. \A k \in DOMAIN added.columns : added.columns[k].ty \in DOMAIN values => values[added.columns[k].ty] \in Handles
      BY <3>2
    <3> HIDE DEF values, copied
    <3> QED
      BY <2>11, <3>1, <3>3, PushValuesOK
  <2> HIDE DEF copied
  <2>13. row \in Nat
    <3>1. /\ copied.columns \in Seq(Columns)
          /\ DOMAIN copied.columns = 1 .. Len(copied.columns)
          /\ Len(src.columns) \in Nat
      BY <2>4, <2>12, TableParts
    <3>2. Len(copied.columns) = Len(src.columns) + Len(b)
      BY <1>2, <2>11, <2>12
    <3>3. 1 \in DOMAIN copied.columns
      BY <2>1, <3>1, <3>2
    <3>4. copied.columns[1] \in Columns
      BY <3>1, <3>3
    <3>5. copied.columns[1].data \in Seq(Handles)
      BY <3>4 DEF Columns
    <3> QED
      BY <3>5
  <2> HIDE DEF row
  <2>14. /\ filled \in TableValues /\ RowsFound(filled) /\ filled.signature = dst.signature
         /\ ToSet(filled.entities) = ToSet(dst.entities) \union {h}
    <3> DEFINE values == [c \in Types(b) |-> h]
    <3>1. filled = PushValues(copied, values)
      BY DEF InsertInto
    <3>2. \A k \in DOMAIN copied.columns : copied.columns[k].ty \in DOMAIN values => values[copied.columns[k].ty] \in Handles
      BY <2>4
    <3> HIDE DEF values, filled
    <3>3. /\ filled \in TableValues /\ filled.signature = copied.signature
          /\ filled.entities = copied.entities /\ filled.entity_lookup = copied.entity_lookup
      BY <2>12, <3>1, <3>2, PushValuesOK
    <3> QED
      BY <2>11, <2>12, <3>3 DEF RowsFound
  <2>15. /\ RegistryOK(mid) /\ Issued(mid) = Issued(entities) /\ Live(mid) = Live(entities)
         /\ \A k \in Live(entities) : GetMeta(mid, k).table = GetMeta(entities, k).table
         /\ \A k \in Live(entities) : RowAfter(entities, mid, src, h, k)
    BY <2>2, <2>3, <2>4, RemovePlaces DEF RowAfter
  <2> HIDE DEF mid
  <2>16. /\ RegistryOK(reg) /\ Issued(reg) = Issued(mid) /\ Live(reg) = Live(mid)
         /\ GetMeta(reg, h) = Meta(h, i, row)
         /\ \A k \in Live(mid) \ {h} : GetMeta(reg, k) = GetMeta(mid, k)
    BY <2>8, <2>13, <2>15, SetMetaPlaces
  <2> HIDE DEF reg, filled
  <2>17. /\ RegistryOK(entities') /\ Issued(entities') = Issued(entities) /\ Live(entities') = Live(entities)
         /\ GetMeta(entities', h).table = i
         /\ \A k \in Live(entities) \ {h} : GetMeta(entities', k).table = GetMeta(entities, k).table
    BY <1>2, <2>15, <2>16 DEF Meta
  <2>18. released' \in Releases
    <3>1. DroppedByRemove(src, h, FALSE) \in SUBSET (Components \X Handles)
      BY <1>2, <2>4, DroppedOK
    <3> QED
      BY <1>2, <3>1 DEF Releases
  <2>19. /\ WorldInv' /\ TablesKept(archetypes.tables, archetypes'.tables)
         /\ UNCHANGED Issued(entities)
         /\ ComponentsBySignature' = StoreWith(ComponentsBySignature, h, found.tables[i].signature)
         /\ /\ SoundAt(entities, found.tables)
            /\ SoundTable(filled) /\ filled.entities = Append(found.tables[i].entities, h)
            /\ GetMeta(entities', h).row = Len(found.tables[i].entities) + 1
            /\ \A k \in Live(entities) \ {h} : RowAfter(entities, entities', TableOf(h), h, k)
            => SoundAt(entities', archetypes'.tables)
    <3>1. filled.signature = found.tables[i].signature /\ ToSet(filled.entities) = ToSet(found.tables[i].entities) \union {h}
      BY <2>14 DEF dst
    <3>2. i # MetaOf(h).table /\ found.tables[MetaOf(h).table] = TableOf(h)
      BY <2>6, <2>9 DEF meta, src
    <3>3. archetypes' = [found EXCEPT !.tables =
             [found.tables EXCEPT ![i] = filled, ![MetaOf(h).table] = TableRemove(TableOf(h), h)]]
      BY <1>2 DEF meta, src
    <3>4. UNCHANGED panicked
      BY <1>2
    <3> QED
      BY <2>6, <2>7, <2>14, <2>17, <2>18, <3>1, <3>2, <3>3, <3>4, MoveStep
  <2>20. BySignature!Insert(h, b)
    <3>1. found.tables[i].signature = joined
      BY <2>6 DEF dst
    <3>2. Types(b) = BySignature!Types(b)
      BY DEF Types, ToSet, BySignature!Types
    <3>3. DOMAIN ComponentsBySignature = Live(entities) /\ ComponentsBySignature[h] = [c \in src.signature |-> h]
      BY DEF ComponentsBySignature, src
    <3>4. [c \in joined |-> h] =
            [c \in DOMAIN ComponentsBySignature[h] \union BySignature!Types(b) |->
               IF c \in BySignature!Types(b) THEN h ELSE ComponentsBySignature[h][c]]
      BY <3>2, <3>3 DEF joined
    <3>5. ComponentsBySignature' = [ComponentsBySignature EXCEPT ![h] = [c \in joined |-> h]]
      BY <2>19, <3>1, StoreExcept
    <3>6. ComponentsBySignature' =
            [ComponentsBySignature EXCEPT ![h] =
               [c \in DOMAIN ComponentsBySignature[h] \union BySignature!Types(b) |->
                  IF c \in BySignature!Types(b) THEN h ELSE ComponentsBySignature[h][c]]]
      BY <3>4, <3>5
    <3> QED
      BY <2>19, <3>3, <3>6 DEF BySignature!Insert
  <2>21. ASSUME safe
         PROVE  SoundAt(entities', archetypes'.tables) /\ released' = Nothing
    <3>1. /\ SoundAt(entities, found.tables) /\ SoundTable(filled)
          /\ filled.entities = Append(found.tables[i].entities, h)
          /\ row = Len(found.tables[i].entities) + 1
      BY <1>0, <2>21 DEF dst
    <3>2. GetMeta(entities', h).row = Len(found.tables[i].entities) + 1
      BY <1>2, <2>16, <3>1 DEF Meta
    <3>3. \A k \in Live(entities) \ {h} : RowAfter(entities, entities', TableOf(h), h, k)
      BY <1>2, <2>15, <2>16 DEF RowAfter, src
    <3>4. SoundAt(entities', archetypes'.tables)
      BY <2>19, <3>1, <3>2, <3>3
    <3>5. SoundTable(src)
      BY <2>3, <2>21 DEF safe, SoundAt
    <3>6. DroppedByRemove(src, h, FALSE) = {}
      BY <2>3, <2>4, <3>5, SoundRemove
    <3> QED
      BY <1>2, <3>4, <3>6 DEF Nothing
  <2> QED
    BY <1>2, <2>19, <2>20, <2>21 DEF safe
<1> QED
  BY <1>0, <1>1, <1>2 DEF InsertBundle

\* EntityMut::remove: the entity moves to the table without the types of the bundle.
LEMMA RemoveStep ==
  ASSUME WorldInv, NEW h \in Live(entities), NEW b \in RemoveBundles, RemoveBundle(h, b)
  PROVE  /\ WorldInv' /\ TablesKept(archetypes.tables, archetypes'.tables)
         /\ Panic \/ BySignature!Remove(h, b)
         /\ SoundAt(entities, archetypes.tables) /\ MayRemove(h, b) =>
              /\ SoundAt(entities', archetypes'.tables)
              /\ UNCHANGED panicked
              /\ released' = [dropped |-> {}, returned |-> {<<c, h>> : c \in Types(b)}]
<1> DEFINE meta  == MetaOf(h)
           src   == TableOf(h)
           left  == src.signature \ Types(b)
           found == FindOrInsert(left, NewSubset(src, b))
           i     == found.lookup[left]
           dst   == found.tables[i]
           added == AddEntity(dst, h)
           row   == Len(added.entities)
           copied == CopyRow(src, meta.row, added)
           mid   == SetMeta(entities, h.index, Meta(h, i, row))
           reg   == RegistryAfterRemove(mid, src, h)
           safe  == SoundAt(entities, archetypes.tables) /\ MayRemove(h, b)
<1>0. ASSUME safe
      PROVE  /\ SoundAt(entities, found.tables)
             /\ HasRow(src, ColumnTypes(dst) \union Types(b), meta.row)
             /\ ~RemovePanics(src, h)
             /\ SoundTable(copied) /\ copied.entities = Append(dst.entities, h)
             /\ row = Len(dst.entities) + 1
             /\ CopyFrom(src, b, meta.row) = {<<c, h>> : c \in Types(b)}
  BY <1>0, RemoveFills
<1>1. CASE Panic /\ ~safe
  BY <1>1, PanicStep
<1>2. CASE /\ HasRow(src, ColumnTypes(dst) \union Types(b), meta.row)
           /\ ~RemovePanics(src, h)
           /\ Types(b) \subseteq src.signature
           /\ archetypes' = [found EXCEPT !.tables =
                               [found.tables EXCEPT ![i] = copied, ![meta.table] = TableRemove(src, h)]]
           /\ entities' = reg
           /\ released' = [dropped  |-> DroppedByRemove(src, h, FALSE),
                           returned |-> CopyFrom(src, b, meta.row)]
           /\ UNCHANGED panicked
  <2>1. b \in Bundles /\ Types(b) \in SUBSET Components /\ Types(b) # {}
    BY WorldAssumption, BundleOK
  <2>2. RegistryOK(entities) /\ ArchetypesOK(archetypes) /\ Placed(entities, archetypes.tables)
    BY DEF WorldInv
  <2>3. /\ archetypes.tables \in Seq(TableValues)
        /\ meta.table \in DOMAIN archetypes.tables /\ src = archetypes.tables[meta.table]
        /\ meta.table = GetMeta(entities, h).table
        /\ h \in ToSet(src.entities) /\ RowsFound(src)
        /\ ToSet(src.entities) \subseteq Live(entities)
    BY <2>2 DEF ArchetypesOK, Placed, TableOf, MetaOf
  <2>4. src \in TableValues /\ h \in Handles
    BY <2>2, <2>3, LiveHandle
  <2> HIDE DEF meta, src, safe
  <2>5. left \in SUBSET Components /\ IsNew(NewSubset(src, b), left)
    BY <2>1, <2>4, TableParts, NewSubsetOK
  <2>6. left # src.signature
    BY <1>2, <2>1
  <2> HIDE DEF left
  <2>7. /\ ArchetypesOK(found) /\ i \in DOMAIN found.tables
        /\ dst.signature = left
        /\ Placed(entities, found.tables)
        /\ found.tables[meta.table] = src
    <3> DEFINE new == NewSubset(src, b)
    <3> HIDE DEF new
    <3>1. ArchetypesOK(archetypes) /\ left \in SUBSET Components /\ IsNew(new, left)
      BY <2>2, <2>5 DEF new
    <3>2. /\ ArchetypesOK(found)
          /\ i \in DOMAIN found.tables
          /\ dst.signature = left
          /\ \A j \in DOMAIN archetypes.tables :
               j \in DOMAIN found.tables /\ found.tables[j] = archetypes.tables[j]
          /\ \A e : Placed(e, archetypes.tables) => Placed(e, found.tables)
      BY <3>1, FindOK DEF new
    <3> QED
      BY <2>2, <2>3, <3>2
  <2>8. /\ StoreOf(entities, found.tables) = ComponentsBySignature
        /\ TablesKept(archetypes.tables, found.tables)
    BY <2>2, <2>5, FindStore, StoreIs
  <2> HIDE DEF found
  <2>9. found.tables \in Seq(TableValues) /\ i \in Positions /\ dst \in TableValues
    <3>1. found.tables \in Seq(TableValues)
      BY <2>7 DEF ArchetypesOK
    <3> QED
      BY <2>7, <3>1 DEF Positions
  <2> HIDE DEF i
  <2>10. i # meta.table
    BY <2>6, <2>7
  <2>11. h \notin ToSet(dst.entities) /\ RowsFound(dst)
    BY <2>3, <2>7, <2>10 DEF Placed
  <2> HIDE DEF dst
  <2>12. /\ added \in TableValues /\ RowsFound(added)
         /\ added.signature = dst.signature /\ added.columns = dst.columns
         /\ ToSet(added.entities) = ToSet(dst.entities) \union {h}
    BY <2>4, <2>9, <2>11, AddEntityOK
  <2> HIDE DEF added
  <2>13. row \in Nat
    BY <2>12, TableParts
  <2> HIDE DEF row
  <2>14. /\ copied \in TableValues /\ RowsFound(copied) /\ copied.signature = dst.signature
         /\ ToSet(copied.entities) = ToSet(dst.entities) \union {h}
    <3> DEFINE values == [c \in ColumnTypes(src) |-> Column(src, c)[meta.row]]
    <3>1. copied = PushValues(added, values)
      BY DEF CopyRow
    <3>2. ASSUME NEW c \in ColumnTypes(dst), c \in ColumnTypes(src)
          PROVE  values[c] \in Handles
      BY <1>2, <2>4, <3>2, ColumnOK DEF HasRow
    <3>3. \A k \in DOMAIN added.columns : added.columns[k].ty \in ColumnTypes(dst)
      BY <2>12 DEF ColumnTypes
    <3>4. \A k \in DOMAIN added.columns : added.columns[k].ty \in DOMAIN values => values[added.columns[k].ty] \in Handles
      BY <3>2, <3>3
    <3> HIDE DEF values, copied
    <3>5. /\ copied \in TableValues /\ copied.signature = added.signature
          /\ copied.entities = added.entities /\ copied.entity_lookup = added.entity_lookup
      BY <2>12, <3>1, <3>4, PushValuesOK
    <3> QED
      BY <2>12, <3>5 DEF RowsFound
  <2>15. /\ RegistryOK(mid) /\ Issued(mid) = Issued(entities) /\ Live(mid) = Live(entities)
         /\ GetMeta(mid, h) = Meta(h, i, row)
         /\ \A k \in Live(entities) \ {h} : GetMeta(mid, k) = GetMeta(entities, k)
    BY <2>2, <2>9, <2>13, SetMetaPlaces
  <2> HIDE DEF mid
  <2>16. /\ RegistryOK(reg) /\ Issued(reg) = Issued(mid) /\ Live(reg) = Live(mid)
         /\ \A k \in Live(mid) : GetMeta(reg, k).table = GetMeta(mid, k).table
         /\ \A k \in Live(mid) : RowAfter(mid, reg, src, h, k)
    BY <2>3, <2>4, <2>15, RemovePlaces DEF RowAfter
  <2> HIDE DEF reg, copied
  <2>17. /\ RegistryOK(entities') /\ Issued(entities') = Issued(entities) /\ Live(entities') = Live(entities)
         /\ GetMeta(entities', h).table = i
         /\ \A k \in Live(entities) \ {h} : GetMeta(entities', k).table = GetMeta(entities, k).table
    BY <1>2, <2>15, <2>16 DEF Meta
  <2>18. released' \in Releases
    <3>1. DroppedByRemove(src, h, FALSE) \in SUBSET (Components \X Handles)
      BY <1>2, <2>4, DroppedOK
    <3>2. HasRow(src, Types(b), meta.row)
      BY <1>2 DEF HasRow
    <3>3. CopyFrom(src, b, meta.row) \in SUBSET (Components \X Handles)
      BY <2>4, <3>2, CopyFromOK
    <3> QED
      BY <1>2, <3>1, <3>3 DEF Releases
  <2>19. /\ WorldInv' /\ TablesKept(archetypes.tables, archetypes'.tables)
         /\ UNCHANGED Issued(entities)
         /\ ComponentsBySignature' = StoreWith(ComponentsBySignature, h, found.tables[i].signature)
         /\ /\ SoundAt(entities, found.tables)
            /\ SoundTable(copied) /\ copied.entities = Append(found.tables[i].entities, h)
            /\ GetMeta(entities', h).row = Len(found.tables[i].entities) + 1
            /\ \A k \in Live(entities) \ {h} : RowAfter(entities, entities', TableOf(h), h, k)
            => SoundAt(entities', archetypes'.tables)
    <3>1. copied.signature = found.tables[i].signature /\ ToSet(copied.entities) = ToSet(found.tables[i].entities) \union {h}
      BY <2>14 DEF dst
    <3>2. i # MetaOf(h).table /\ found.tables[MetaOf(h).table] = TableOf(h)
      BY <2>7, <2>10 DEF meta, src
    <3>3. archetypes' = [found EXCEPT !.tables =
             [found.tables EXCEPT ![i] = copied, ![MetaOf(h).table] = TableRemove(TableOf(h), h)]]
      BY <1>2 DEF meta, src
    <3>4. UNCHANGED panicked
      BY <1>2
    <3> QED
      BY <2>7, <2>8, <2>14, <2>17, <2>18, <3>1, <3>2, <3>3, <3>4, MoveStep
  <2>20. BySignature!Remove(h, b)
    <3>1. found.tables[i].signature = left
      BY <2>7 DEF dst
    <3>2. Types(b) = BySignature!Types(b)
      BY DEF Types, ToSet, BySignature!Types
    <3>3. DOMAIN ComponentsBySignature = Live(entities) /\ ComponentsBySignature[h] = [c \in src.signature |-> h]
      BY DEF ComponentsBySignature, src
    <3>4. [c \in left |-> h] =
            [c \in DOMAIN ComponentsBySignature[h] \ BySignature!Types(b) |-> ComponentsBySignature[h][c]]
      BY <3>2, <3>3 DEF left
    <3>5. ComponentsBySignature' = [ComponentsBySignature EXCEPT ![h] = [c \in left |-> h]]
      BY <2>19, <3>1, StoreExcept
    <3>6. ComponentsBySignature' =
            [ComponentsBySignature EXCEPT ![h] =
               [c \in DOMAIN ComponentsBySignature[h] \ BySignature!Types(b) |-> ComponentsBySignature[h][c]]]
      BY <3>4, <3>5
    <3>7. BySignature!Types(b) \subseteq DOMAIN ComponentsBySignature[h]
      BY <1>2, <3>2, <3>3
    <3> QED
      BY <2>19, <3>3, <3>6, <3>7 DEF BySignature!Remove
  <2>21. ASSUME safe
         PROVE  /\ SoundAt(entities', archetypes'.tables)
                /\ released' = [dropped |-> {}, returned |-> {<<c, h>> : c \in Types(b)}]
    <3>1. /\ SoundAt(entities, found.tables) /\ SoundTable(copied)
          /\ copied.entities = Append(found.tables[i].entities, h)
          /\ row = Len(found.tables[i].entities) + 1
      BY <1>0, <2>21 DEF dst
    <3>2. ~(RemoveMovesRow(src, h) /\ h = Last(src.entities))
      BY <2>21 DEF safe, MayRemove, RemoveMisplaces, RemoveMovesRow, src
    <3>3. GetMeta(entities', h).row = Len(found.tables[i].entities) + 1
      BY <1>2, <2>15, <2>16, <3>1, <3>2 DEF Meta, RowAfter
    <3>4. \A k \in Live(entities) \ {h} : RowAfter(entities, entities', TableOf(h), h, k)
      BY <1>2, <2>15, <2>16 DEF RowAfter, src
    <3>5. SoundAt(entities', archetypes'.tables)
      BY <2>19, <3>1, <3>3, <3>4
    <3>6. SoundTable(src)
      BY <2>3, <2>21 DEF safe, SoundAt
    <3>7. DroppedByRemove(src, h, FALSE) = {}
      BY <2>3, <2>4, <3>6, SoundRemove
    <3> QED
      BY <1>0, <1>2, <2>21, <3>5, <3>7
  <2> QED
    BY <1>2, <2>19, <2>20, <2>21 DEF safe
<1> QED
  BY <1>0, <1>1, <1>2 DEF RemoveBundle

\* The columns stay what they are in every step.
LEMMA SpawnColumns ==
  ASSUME WorldInv, ColumnsOnce(archetypes.tables), NEW b \in SpawnBundles, Spawn(b)
  PROVE  ColumnsOnce(archetypes'.tables)
<1> DEFINE h     == AllocatedHandle(entities)
           sig   == Types(b)
           made  == NewTable(b)
           found == FindOrInsert(sig, made)
           i     == found.lookup[sig]
           new   == TableInsert(found.tables[i], h, b)
           ts    == [found.tables EXCEPT ![i] = new]
<1>1. CASE Panic
  BY <1>1 DEF Panic
<1>2. CASE archetypes' = [found EXCEPT !.tables = ts]
  <2>1. /\ b \in Bundles /\ sig \in SUBSET Components /\ sig # {}
    BY WorldAssumption, BundleOK
  <2>2. ArchetypesOK(archetypes) /\ IsNew(made, sig) /\ Distinct(made)
    BY <2>1, NewTableOK, NewTableColumns DEF WorldInv
  <2> HIDE DEF sig, made
  <2>3. ArchetypesOK(found) /\ i \in DOMAIN found.tables
    BY <2>1, <2>2, FindOK
  <2> HIDE DEF found, i, new, h
  <2>4. found.tables \in Seq(TableValues) /\ archetypes'.tables = ts
    BY <1>2, <2>3 DEF ArchetypesOK
  <2>5. SameColumns(new, found.tables[i])
    <3> DEFINE t == found.tables[i]
               u == AddEntity(t, h)
    <3>1. IsTable(t)
      BY <2>3, <2>4, TableIs
    <3> HIDE DEF t
    <3>2. IsTable(u) /\ SameColumns(u, t)
      BY <3>1, AddColumns
    <3>3. new = PushValues(u, [c \in Types(b) |-> h])
      BY DEF new, TableInsert, InsertInto, u, t
    <3> HIDE DEF u
    <3>4. SameColumns(new, u)
      BY <3>2, <3>3, PushColumns
    <3>5. SameColumns(new, t)
      BY <3>2, <3>4, SameColumnsTrans
    <3> QED
      BY <3>5 DEF t
  <2>6. /\ DOMAIN ts = DOMAIN found.tables
        /\ \A j \in DOMAIN ts : SameColumns(ts[j], found.tables[j])
    <3>1. SameColumns(found.tables[i], found.tables[i])
      BY DEF SameColumns
    <3>2. [found.tables EXCEPT ![i] = new, ![i] = new] = ts
      OBVIOUS
    <3> HIDE DEF ts
    <3> QED
      BY <2>3, <2>5, <3>2, ReplacedColumns
  <2> HIDE DEF ts
  <2>7. ColumnsOnce(ts)
    BY <2>1, <2>2, <2>6, ColumnsOnceKept DEF found, IsNew
  <2> QED
    BY <2>4, <2>7
<1> QED
  BY <1>1, <1>2 DEF Spawn

\* A despawn changes the rows of a table, not its columns.
LEMMA DespawnColumns ==
  ASSUME WorldInv, ColumnsOnce(archetypes.tables), NEW h \in Issued(entities), Despawn(h)
  PROVE  ColumnsOnce(archetypes'.tables)
<1> DEFINE i     == MetaOf(h).table
           table == TableOf(h)
           new   == TableRemove(table, h)
           ts    == [archetypes.tables EXCEPT ![i] = new]
<1>1. CASE Panic
  BY <1>1 DEF Panic
<1>2. CASE archetypes' = [archetypes EXCEPT !.tables = ts]
  <2>1. archetypes.tables \in Seq(TableValues) /\ archetypes'.tables = ts /\ table = archetypes.tables[i]
    BY <1>2 DEF WorldInv, ArchetypesOK, TableOf
  <2> HIDE DEF i, table
  <2>2. /\ DOMAIN ts = DOMAIN archetypes.tables
        /\ \A j \in DOMAIN archetypes.tables : SameColumns(ts[j], archetypes.tables[j])
    <3>1. ASSUME NEW j \in DOMAIN archetypes.tables
          PROVE  SameColumns(ts[j], archetypes.tables[j])
      <4>1. CASE j = i
        <5>1. table \in TableValues
          BY <2>1, <4>1
        <5>2. SameColumns(new, table)
          BY <5>1, TableIs, RemoveColumns
        <5> QED
          BY <2>1, <4>1, <5>2
      <4>2. CASE j # i
        BY <4>2 DEF SameColumns
      <4> QED
        BY <4>1, <4>2
    <3> QED
      BY <3>1
  <2> HIDE DEF ts
  <2>3. ColumnsOnce(ts)
    <3>1. \A j \in DOMAIN ts :
            /\ Matched(ts[j]) <=> Matched(archetypes.tables[j])
            /\ Distinct(ts[j]) <=> Distinct(archetypes.tables[j])
            /\ ts[j].signature = archetypes.tables[j].signature
      BY <2>2, SameColumnsOK DEF SameColumns
    <3> QED
      BY <2>2, <3>1 DEF ColumnsOnce
  <2> QED
    BY <2>1, <2>3
<1> QED
  BY <1>1, <1>2 DEF Despawn

\* An insertion makes a table, if it has to, of the columns of two others.
LEMMA InsertColumns ==
  ASSUME WorldInv, ColumnsOnce(archetypes.tables), NEW h \in Live(entities), NEW b \in InsertBundles,
         InsertBundle(h, b)
  PROVE  ColumnsOnce(archetypes'.tables)
<1> DEFINE meta   == MetaOf(h)
           src    == TableOf(h)
           sig    == src.signature \union Types(b)
           made   == NewJoinedTable(src, b)
           found  == FindOrInsert(sig, made)
           i      == found.lookup[sig]
           m      == meta.table
           copied == CopyRow(src, meta.row, AddEntity(found.tables[i], h))
           filled == InsertInto(copied, b, h)
           ts     == [found.tables EXCEPT ![i] = filled, ![m] = TableRemove(src, h)]
<1>1. CASE Panic
  BY <1>1 DEF Panic
<1>2. CASE /\ Known(sig) \/ src.signature \intersect Types(b) = {}
           /\ archetypes' = [found EXCEPT !.tables = ts]
  <2>1. /\ b \in Bundles /\ Types(b) \in SUBSET Components /\ Types(b) # {}
    BY WorldAssumption, BundleOK
  <2>2. ArchetypesOK(archetypes) /\ Placed(entities, archetypes.tables)
    BY DEF WorldInv
  <2>3. /\ archetypes.tables \in Seq(TableValues)
        /\ m \in DOMAIN archetypes.tables /\ src = archetypes.tables[m]
    BY <2>2 DEF ArchetypesOK, Placed, TableOf, MetaOf
  <2>4. src \in TableValues
    BY <2>3
  <2> HIDE DEF m, src, meta
  <2>5. sig \in SUBSET Components /\ IsNew(made, sig)
    BY <2>1, <2>4, NewJoinedTableOK, TableParts
  <2>6. ASSUME \A j \in DOMAIN archetypes.tables : Matched(archetypes.tables[j]), ~Known(sig)
        PROVE  Distinct(made) /\ sig # {}
    <3>1. Matched(src) /\ Distinct(src) /\ src.signature # {}
      BY <2>3, <2>6 DEF ColumnsOnce
    <3>2. src.signature \intersect Types(b) = {}
      BY <1>2, <2>6
    <3> QED
      BY <2>1, <2>4, <3>1, <3>2, NewJoinedTableMatched
  <2> HIDE DEF sig, made
  <2>7. /\ ArchetypesOK(found) /\ i \in DOMAIN found.tables
        /\ \A j \in DOMAIN archetypes.tables :
             j \in DOMAIN found.tables /\ found.tables[j] = archetypes.tables[j]
    BY <2>2, <2>5, FindOK
  <2> HIDE DEF found, i, filled
  <2>8. found.tables \in Seq(TableValues) /\ archetypes'.tables = ts
    BY <1>2, <2>7 DEF ArchetypesOK
  <2>9. SameColumns(filled, found.tables[i])
    <3> DEFINE t == found.tables[i]
               u == AddEntity(t, h)
    <3>1. IsTable(t)
      BY <2>7, <2>8, TableIs
    <3>2. copied = PushValues(u, [c \in ColumnTypes(src) |-> Column(src, c)[meta.row]])
      BY DEF CopyRow
    <3>3. filled = PushValues(copied, [c \in Types(b) |-> h])
      BY DEF filled, InsertInto
    <3> HIDE DEF t, copied
    <3>4. IsTable(u) /\ SameColumns(u, t)
      BY <3>1, AddColumns
    <3> HIDE DEF u
    <3>5. IsTable(copied) /\ SameColumns(copied, u)
      BY <3>2, <3>4, PushColumns
    <3>6. SameColumns(filled, copied)
      BY <3>3, <3>5, PushColumns
    <3>7. SameColumns(copied, t)
      BY <3>4, <3>5, SameColumnsTrans
    <3>8. SameColumns(filled, t)
      BY <3>6, <3>7, SameColumnsTrans
    <3> QED
      BY <3>8 DEF t
  <2>10. SameColumns(TableRemove(src, h), found.tables[m]) /\ m \in DOMAIN found.tables
    BY <2>3, <2>4, <2>7, TableIs, RemoveColumns
  <2>11. /\ DOMAIN ts = DOMAIN found.tables
         /\ \A j \in DOMAIN ts : SameColumns(ts[j], found.tables[j])
    BY <2>7, <2>9, <2>10, ReplacedColumns
  <2> HIDE DEF ts
  <2>12. ColumnsOnce(ts)
    BY <2>2, <2>5, <2>6, <2>11, ColumnsOnceKept DEF found, IsNew
  <2> QED
    BY <2>8, <2>12
<1> QED
  BY <1>1, <1>2 DEF InsertBundle

\* A removal that makes a table makes one without the columns of its signature.
LEMMA RemoveBundleColumns ==
  ASSUME WorldInv, ColumnsOnce(archetypes.tables), NEW h \in Live(entities), NEW b \in RemoveBundles,
         RemoveBundle(h, b)
  PROVE  ColumnsOnce(archetypes'.tables)
<1> DEFINE meta   == MetaOf(h)
           src    == TableOf(h)
           sig    == src.signature \ Types(b)
           made   == NewSubset(src, b)
           found  == FindOrInsert(sig, made)
           i      == found.lookup[sig]
           m      == meta.table
           copied == CopyRow(src, meta.row, AddEntity(found.tables[i], h))
           ts     == [found.tables EXCEPT ![i] = copied, ![m] = TableRemove(src, h)]
<1>1. CASE Panic
  BY <1>1 DEF Panic
<1>2. CASE /\ Types(b) \subseteq src.signature
           /\ archetypes' = [found EXCEPT !.tables = ts]
  <2>1. /\ b \in Bundles /\ Types(b) \in SUBSET Components /\ Types(b) # {}
    BY WorldAssumption, BundleOK
  <2>2. ArchetypesOK(archetypes) /\ Placed(entities, archetypes.tables)
    BY DEF WorldInv
  <2>3. /\ archetypes.tables \in Seq(TableValues)
        /\ m \in DOMAIN archetypes.tables /\ src = archetypes.tables[m]
    BY <2>2 DEF ArchetypesOK, Placed, TableOf, MetaOf
  <2>4. src \in TableValues
    BY <2>3
  <2> HIDE DEF m, src, meta
  <2>5. sig \in SUBSET Components /\ IsNew(made, sig)
    BY <2>1, <2>4, NewSubsetOK, TableParts
  <2>6. ASSUME \A j \in DOMAIN archetypes.tables : Matched(archetypes.tables[j])
        PROVE  ~Matched(made)
    BY <1>2, <2>1, <2>3, <2>4, <2>6, NewSubsetMismatched
  <2> HIDE DEF sig, made
  <2>7. /\ ArchetypesOK(found) /\ i \in DOMAIN found.tables
        /\ \A j \in DOMAIN archetypes.tables :
             j \in DOMAIN found.tables /\ found.tables[j] = archetypes.tables[j]
    BY <2>2, <2>5, FindOK
  <2> HIDE DEF found, i
  <2>8. found.tables \in Seq(TableValues) /\ archetypes'.tables = ts
    BY <1>2, <2>7 DEF ArchetypesOK
  <2>9. SameColumns(copied, found.tables[i])
    <3> DEFINE t == found.tables[i]
               u == AddEntity(t, h)
    <3>1. IsTable(t)
      BY <2>7, <2>8, TableIs
    <3>2. copied = PushValues(u, [c \in ColumnTypes(src) |-> Column(src, c)[meta.row]])
      BY DEF CopyRow
    <3> HIDE DEF t, copied
    <3>4. IsTable(u) /\ SameColumns(u, t)
      BY <3>1, AddColumns
    <3> HIDE DEF u
    <3>5. SameColumns(copied, u)
      BY <3>2, <3>4, PushColumns
    <3>6. SameColumns(copied, t)
      BY <3>4, <3>5, SameColumnsTrans
    <3> QED
      BY <3>6 DEF t
  <2> HIDE DEF copied
  <2>10. SameColumns(TableRemove(src, h), found.tables[m]) /\ m \in DOMAIN found.tables
    BY <2>3, <2>4, <2>7, TableIs, RemoveColumns
  <2>11. /\ DOMAIN ts = DOMAIN found.tables
         /\ \A j \in DOMAIN ts : SameColumns(ts[j], found.tables[j])
    BY <2>7, <2>9, <2>10, ReplacedColumns
  <2> HIDE DEF ts
  <2>12. ColumnsOnce(ts)
    BY <2>2, <2>5, <2>6, <2>11, ColumnsOnceKept DEF found, IsNew
  <2> QED
    BY <2>8, <2>12
<1> QED
  BY <1>1, <1>2 DEF RemoveBundle

\* ColumnsOnce holds in every state of World.
LEMMA ColumnsOnceStep ==
  ASSUME WorldInv, ColumnsOnce(archetypes.tables), [Next]_vars
  PROVE  ColumnsOnce(archetypes.tables)'
<1>1. CASE UNCHANGED vars
  BY <1>1 DEF vars, ColumnsOnce, Matched, Distinct, ColumnTypes
<1>2. CASE Next
  <2>1. ColumnsOnce(archetypes'.tables)
    BY <1>2, SpawnColumns, DespawnColumns, InsertColumns, RemoveBundleColumns DEF Next
  <2> QED
    BY <2>1 DEF ColumnsOnce, Matched, Distinct, ColumnTypes
<1> QED
  BY <1>1, <1>2

-----------------------------------------------------------------------------
(* What holds of World.                                                     *)

\* World::new has no entities and no tables.
LEMMA WorldInitOK == Init => WorldInv /\ BySignature!Init
<1> SUFFICES ASSUME Init
             PROVE  WorldInv /\ BySignature!Init
  OBVIOUS
<1>1. /\ entities = EmptyRegistry /\ released = Nothing /\ panicked = FALSE
      /\ archetypes = [generation |-> 0, tables |-> <<>>, lookup |-> [s \in {} |-> None]]
  BY DEF Init, EmptyArchetypes
<1>2. RegistryOK(entities)
  BY <1>1, EmptyRegistryOK DEF RegistryOK
<1>3. Issued(entities) = {} /\ Live(entities) = {}
  BY <1>1 DEF EmptyRegistry, Issued, Live
<1>4. ArchetypesOK(archetypes)
  <2>1. [s \in {} |-> None] \in [{} -> Positions]
    OBVIOUS
  <2>2. {} \in SUBSET SUBSET Components
    OBVIOUS
  <2>3. [s \in {} |-> None] \in Lookups
    BY <2>1, <2>2 DEF Lookups
  <2>4. /\ archetypes.generation = 0 /\ archetypes.tables = <<>>
        /\ archetypes.lookup = [s \in {} |-> None]
    BY <1>1
  <2>5. archetypes \in [generation : Nat, tables : Seq(TableValues), lookup : Lookups]
    BY <1>1, <2>3
  <2>6. DOMAIN archetypes.lookup = {} /\ DOMAIN archetypes.tables = {} /\ Len(archetypes.tables) = 0
    BY <2>4
  <2> QED
    BY <2>4, <2>5, <2>6 DEF ArchetypesOK
<1>5. Placed(entities, archetypes.tables)
  <2>1. DOMAIN archetypes.tables = {}
    BY <1>1
  <2> QED
    BY <1>3, <2>1 DEF Placed
<1>6. WorldInv
  BY <1>1, <1>2, <1>4, <1>5, NothingReleased DEF WorldInv
<1>7. ComponentsBySignature = [h \in {} |-> {}]
  BY <1>3 DEF ComponentsBySignature
<1> QED
  BY <1>3, <1>6, <1>7 DEF BySignature!Init

\* Every step keeps the invariant and is one of the map, or changes nothing in it.
LEMMA WorldStepOK ==
  ASSUME WorldInv, [Next]_vars
  PROVE  /\ WorldInv' /\ TablesKept(archetypes.tables, archetypes'.tables)
         /\ [BySignature!Next]_(BySignature!vars)
<1>1. ASSUME NEW b \in SpawnBundles, Spawn(b)
      PROVE  /\ WorldInv' /\ TablesKept(archetypes.tables, archetypes'.tables)
             /\ [BySignature!Next]_(BySignature!vars)
  BY <1>1, SpawnStep, PanicStep DEF BySignature!Next
<1>2. ASSUME NEW h \in Issued(entities), Despawn(h)
      PROVE  /\ WorldInv' /\ TablesKept(archetypes.tables, archetypes'.tables)
             /\ [BySignature!Next]_(BySignature!vars)
  BY <1>2, DespawnStep, PanicStep DEF BySignature!Next
<1>3. ASSUME NEW h \in Live(entities), NEW b \in InsertBundles, InsertBundle(h, b)
      PROVE  /\ WorldInv' /\ TablesKept(archetypes.tables, archetypes'.tables)
             /\ [BySignature!Next]_(BySignature!vars)
  <2>1. h \in Handles
    BY DEF Live, Issued
  <2> QED
    BY <1>3, <2>1, InsertStep, PanicStep DEF BySignature!Next
<1>4. ASSUME NEW h \in Live(entities), NEW b \in RemoveBundles, RemoveBundle(h, b)
      PROVE  /\ WorldInv' /\ TablesKept(archetypes.tables, archetypes'.tables)
             /\ [BySignature!Next]_(BySignature!vars)
  <2>1. h \in Handles
    BY DEF Live, Issued
  <2> QED
    BY <1>4, <2>1, RemoveStep, PanicStep DEF BySignature!Next
<1>5. CASE UNCHANGED vars
  <2>1. UNCHANGED <<entities, archetypes, released, panicked>>
    BY <1>5 DEF vars
  <2>2. WorldInv'
    BY <2>1 DEF WorldInv, RegistryOK, ArchetypesOK, Placed
  <2>3. ComponentsBySignature' = ComponentsBySignature
    BY <2>1 DEF ComponentsBySignature, TableOf, MetaOf
  <2> QED
    BY <2>1, <2>2, <2>3 DEF BySignature!vars, TablesKept
<1> QED
  BY <1>1, <1>2, <1>3, <1>4, <1>5 DEF Next

\* The invariant holds throughout.
LEMMA WorldInvHolds == Spec => []WorldInv
<1>1. Init => WorldInv
  BY WorldInitOK
<1>2. WorldInv /\ [Next]_vars => WorldInv'
  BY WorldStepOK
<1> QED
  BY <1>1, <1>2, PTL DEF Spec

\* The invariant gives every part its type.
LEMMA WorldInvTypes ==
  ASSUME WorldInv
  PROVE  TypeOK
<1>1. entities \in Registries(Metas(Nat \ {0}, Nat))
  BY DEF WorldInv, RegistryOK, WorldMetas, Positions
<1>2. /\ archetypes.generation \in Nat /\ archetypes.tables \in Seq(TableValues)
      /\ released \in Releases /\ panicked \in BOOLEAN
  BY DEF WorldInv, ArchetypesOK
<1>3. ASSUME NEW i \in DOMAIN archetypes.tables
      PROVE  LET t == archetypes.tables[i]
             IN  /\ t.signature \subseteq Components
                 /\ t.entities \in Seq(Handles)
                 /\ DOMAIN t.entity_lookup \subseteq Handles
                 /\ \A c \in DOMAIN t.columns :
                      t.columns[c] \in [ty : Components, data : Seq(Handles)]
  <2>1. archetypes.tables[i] \in TableValues
    BY <1>2
  <2> DEFINE t == archetypes.tables[i]
  <2>2. /\ t.signature \subseteq Components /\ t.entities \in Seq(Handles)
        /\ DOMAIN t.entity_lookup \subseteq Handles /\ t.columns \in Seq(Columns)
    BY <2>1, TableParts
  <2> HIDE DEF t
  <2>3. \A c \in DOMAIN t.columns : t.columns[c] \in Columns
    BY <2>2
  <2> QED
    BY <2>2, <2>3 DEF Columns, t
<1> QED
  BY <1>1, <1>2, <1>3 DEF TypeOK, Releases

(* Every part of a world always has its type.                               *)
THEOREM WorldTypes == Spec => []TypeOK
<1>1. WorldInv => TypeOK
  BY WorldInvTypes
<1> QED
  BY <1>1, WorldInvHolds, PTL

(* No two tables ever have one signature, `lookup` finds each table, and the  *)
(* generation counts them (archetype/registry.rs:24).                        *)
THEOREM OneTableForEachArchetype == Spec => []OneTablePerArchetype
<1>1. WorldInv => OneTablePerArchetype
  BY DEF WorldInv, ArchetypesOK, OneTablePerArchetype
<1> QED
  BY <1>1, WorldInvHolds, PTL

(* Whatever is spawned, despawned, inserted and removed, every entity is in   *)
(* one row of one table, the table that its metadata names, and its table     *)
(* finds the row; no table keeps a dead entity.                               *)
THEOREM EntitiesResideInOneTable == Spec => []ResidesInOneTable
<1>1. ASSUME WorldInv
      PROVE  ResidesInOneTable
  <2>1. Placed(entities, archetypes.tables)
    BY <1>1 DEF WorldInv
  <2>2. ASSUME NEW h \in Live(entities), NEW i \in DOMAIN archetypes.tables
        PROVE  h \in Residents(i) <=> i = MetaOf(h).table
    BY <2>1 DEF Placed, Residents, MetaOf
  <2>3. ASSUME NEW i \in DOMAIN archetypes.tables
        PROVE  LET t == archetypes.tables[i]
               IN  /\ IsInjective(t.entities)
                   /\ Residents(i) \subseteq Live(entities)
                   /\ \A r \in DOMAIN t.entities :
                        t.entities[r] \in DOMAIN t.entity_lookup /\ t.entity_lookup[t.entities[r]] = r
    <3> DEFINE t == archetypes.tables[i]
    <3>1. RowsFound(t) /\ Residents(i) \subseteq Live(entities)
      BY <2>1 DEF Placed, Residents
    <3> HIDE DEF t
    <3>2. IsInjective(t.entities)
      BY <3>1 DEF RowsFound, IsInjective
    <3> QED
      BY <3>1, <3>2 DEF RowsFound, t
  <2> QED
    BY <2>2, <2>3 DEF ResidesInOneTable
<1> QED
  BY <1>1, WorldInvHolds, PTL

(* EntityRef::has, which scans the rows of every table, always answers for a  *)
(* live entity what the signature of its table says, and FALSE for a dead one. *)
THEOREM HasComponentsIsExact == Spec => []HasComponentsExact
<1>1. ASSUME WorldInv
      PROVE  HasComponentsExact
  <2>1. Placed(entities, archetypes.tables)
    BY <1>1 DEF WorldInv
  <2> SUFFICES ASSUME NEW h \in Issued(entities), NEW sig \in SUBSET Components \ {{}}
               PROVE  HasComponents(h, sig) <=> IsAlive(entities, h) /\ sig \subseteq TableOf(h).signature
    BY DEF HasComponentsExact
  <2>2. ASSUME HasComponents(h, sig)
        PROVE  IsAlive(entities, h) /\ sig \subseteq TableOf(h).signature
    <3>1. PICK i \in DOMAIN archetypes.tables :
            sig \subseteq archetypes.tables[i].signature /\ h \in ToSet(archetypes.tables[i].entities)
      BY <2>2 DEF HasComponents
    <3>2. h \in Live(entities) /\ GetMeta(entities, h).table = i
      BY <2>1, <3>1 DEF Placed
    <3> QED
      BY <3>1, <3>2 DEF Live, TableOf, MetaOf
  <2>3. ASSUME IsAlive(entities, h), sig \subseteq TableOf(h).signature
        PROVE  HasComponents(h, sig)
    <3>1. h \in Live(entities)
      BY <2>3 DEF Live
    <3>2. /\ GetMeta(entities, h).table \in DOMAIN archetypes.tables
          /\ h \in ToSet(archetypes.tables[GetMeta(entities, h).table].entities)
      BY <2>1, <3>1 DEF Placed
    <3> QED
      BY <2>3, <3>2 DEF HasComponents, TableOf, MetaOf
  <2> QED
    BY <2>2, <2>3
<1> QED
  BY <1>1, WorldInvHolds, PTL

(* A World is a map from live entities to the components of their archetypes: *)
(* every operation that does not panic is the operation of the map, and one   *)
(* that panics changes nothing.                                               *)
THEOREM WorldImplementsMap == Spec => ImplementsMapBySignature
<1>1. Init => BySignature!Init
  BY WorldInitOK
<1>2. WorldInv /\ [Next]_vars => [BySignature!Next]_(BySignature!vars)
  BY WorldStepOK
<1> QED
  BY <1>1, <1>2, WorldInvHolds, PTL DEF Spec, ImplementsMapBySignature, BySignature!Spec

-----------------------------------------------------------------------------
(* What the operations do to the component values of a sound world.         *)

\* What the columns hold at the rows that the metadata names.
DataOf(e, ts) ==
  [h \in Live(e) |->
     LET t == ts[GetMeta(e, h).table]
     IN  [c \in ColumnTypes(t) |->
            IF GetMeta(e, h).row \in DOMAIN Column(t, c)
            THEN Column(t, c)[GetMeta(e, h).row] ELSE None]]

\* In a sound world, the columns hold what the signatures promise.
LEMMA SoundData ==
  ASSUME NEW e, NEW ts, Placed(e, ts), SoundAt(e, ts)
  PROVE  DataOf(e, ts) = StoreOf(e, ts)
<1>1. ASSUME NEW h \in Live(e)
      PROVE  LET t == ts[GetMeta(e, h).table]
             IN  [c \in ColumnTypes(t) |->
                    IF GetMeta(e, h).row \in DOMAIN Column(t, c)
                    THEN Column(t, c)[GetMeta(e, h).row] ELSE None] = [c \in t.signature |-> h]
  <2> DEFINE t == ts[GetMeta(e, h).table]
             r == GetMeta(e, h).row
  <2>1. SoundTable(t) /\ r \in DOMAIN t.entities /\ t.entities[r] = h
    BY DEF Placed, SoundAt, RowsNamed
  <2> HIDE DEF t, r
  <2>2. ColumnTypes(t) = t.signature /\ \A c \in ColumnTypes(t) : Column(t, c) = t.entities
    BY <2>1, SoundColumn DEF SoundTable, Matched
  <2>3. [c \in ColumnTypes(t) |-> IF r \in DOMAIN Column(t, c) THEN Column(t, c)[r] ELSE None]
          = [c \in t.signature |-> h]
    BY <2>1, <2>2
  <2> QED
    BY <2>3 DEF t, r
<1> QED
  BY <1>1 DEF DataOf, StoreOf

\* The components of a store, each with its entity.
PairsOf(store) == UNION {{<<c, h>> : c \in DOMAIN store[h]} : h \in DOMAIN store}

\* From store s to store u, the entity h loses the types, and nothing else is lost.
Loses(s, u, h, types) ==
  \A k, c : (k \in DOMAIN s /\ c \in DOMAIN s[k]) /\ ~(k \in DOMAIN u /\ c \in DOMAIN u[k])
             <=> k = h /\ c \in types

\* Those are the components that are gone.
LEMMA PairsTaken ==
  ASSUME NEW s, NEW u, NEW h, NEW types, Loses(s, u, h, types)
  PROVE  PairsOf(s) \ PairsOf(u) = {<<c, h>> : c \in types}
<1>1. \A k, c : <<c, k>> \in PairsOf(s) <=> k \in DOMAIN s /\ c \in DOMAIN s[k]
  BY DEF PairsOf
<1>2. \A k, c : <<c, k>> \in PairsOf(u) <=> k \in DOMAIN u /\ c \in DOMAIN u[k]
  BY DEF PairsOf
<1>3. \A p \in PairsOf(s) : \E k, c : p = <<c, k>>
  BY DEF PairsOf
<1> QED
  BY <1>1, <1>2, <1>3 DEF Loses

\* From one sound world to another, the data and the values are those of the signatures.
LEMMA SoundValues ==
  ASSUME WorldInv, WorldInv', SoundAt(entities, archetypes.tables), SoundAt(entities', archetypes'.tables)
  PROVE  /\ ComponentsByData = ComponentsBySignature /\ ComponentsByData' = ComponentsBySignature'
         /\ Values = PairsOf(ComponentsBySignature) /\ Values' = PairsOf(ComponentsBySignature')
<1>1. Placed(entities, archetypes.tables) /\ Placed(entities', archetypes'.tables)
  BY DEF WorldInv, Placed
<1>2. /\ DataOf(entities, archetypes.tables) = StoreOf(entities, archetypes.tables)
      /\ DataOf(entities', archetypes'.tables) = StoreOf(entities', archetypes'.tables)
  BY <1>1, SoundData
<1>3. ComponentsByData = ComponentsBySignature
  BY <1>2 DEF ComponentsByData, ComponentsBySignature, DataOf, StoreOf, TableOf, MetaOf
<1>4. ComponentsByData' = ComponentsBySignature'
  BY <1>2 DEF ComponentsByData, ComponentsBySignature, DataOf, StoreOf, TableOf, MetaOf
<1>5. /\ DOMAIN ComponentsBySignature = Live(entities)
      /\ \A h \in Live(entities) : \A c \in DOMAIN ComponentsBySignature[h] : ComponentsBySignature[h][c] = h
  BY DEF ComponentsBySignature
<1>6. /\ DOMAIN ComponentsBySignature' = Live(entities)'
      /\ \A h \in Live(entities)' : \A c \in DOMAIN (ComponentsBySignature')[h] : (ComponentsBySignature')[h][c] = h
  BY DEF ComponentsBySignature
<1>7. Values = PairsOf(ComponentsBySignature)
  BY <1>3, <1>5 DEF Values, ValuesOf, PairsOf
<1>8. Values' = PairsOf(ComponentsBySignature')
  BY <1>4, <1>6 DEF Values, ValuesOf, PairsOf
<1> QED
  BY <1>3, <1>4, <1>7, <1>8

\* What leaves the store when an operation of the map is taken.
LEMMA MapValues ==
  ASSUME NEW h
  PROVE  /\ \A b : BySignature!Spawn(h, b) /\ Live(entities) \subseteq Issued(entities) =>
              PairsOf(ComponentsBySignature) \ PairsOf(ComponentsBySignature') = {}
         /\ BySignature!Despawn(h) =>
              PairsOf(ComponentsBySignature) \ PairsOf(ComponentsBySignature') =
                {<<c, h>> : c \in DOMAIN ComponentsBySignature[h]}
         /\ \A b : BySignature!Insert(h, b) =>
              PairsOf(ComponentsBySignature) \ PairsOf(ComponentsBySignature') = {}
         /\ \A b : BySignature!Remove(h, b) =>
              PairsOf(ComponentsBySignature) \ PairsOf(ComponentsBySignature') =
                {<<c, h>> : c \in Types(b)}
<1> DEFINE s == ComponentsBySignature
           u == ComponentsBySignature'
           D(types) == PairsOf(s) \ PairsOf(u) = {<<c, h>> : c \in types}
<1>1. ASSUME NEW b, BySignature!Spawn(h, b), Live(entities) \subseteq Issued(entities)
      PROVE  PairsOf(s) \ PairsOf(u) = {}
  <2>1. h \notin DOMAIN s
    BY <1>1 DEF BySignature!Spawn, ComponentsBySignature
  <2>2. u = [k \in DOMAIN s \union {h} |-> IF k = h THEN [c \in BySignature!Types(b) |-> h] ELSE s[k]]
    BY <1>1 DEF BySignature!Spawn
  <2> HIDE DEF s, u
  <2>3. Loses(s, u, h, {})
    BY <2>1, <2>2 DEF Loses
  <2> QED
    BY <2>3, PairsTaken
<1>2. ASSUME BySignature!Despawn(h)
      PROVE  D(DOMAIN s[h])
  <2>1. h \in DOMAIN s /\ u = [k \in DOMAIN s \ {h} |-> s[k]]
    BY <1>2 DEF BySignature!Despawn
  <2> HIDE DEF s, u
  <2>2. Loses(s, u, h, DOMAIN s[h])
    BY <2>1 DEF Loses
  <2> QED
    BY <2>2, PairsTaken
<1>3. ASSUME NEW b, BySignature!Insert(h, b)
      PROVE  PairsOf(s) \ PairsOf(u) = {}
  <2> DEFINE own == [c \in DOMAIN s[h] \union BySignature!Types(b) |->
                       IF c \in BySignature!Types(b) THEN h ELSE s[h][c]]
  <2>1. h \in DOMAIN s /\ u = [s EXCEPT ![h] = own]
    BY <1>3 DEF BySignature!Insert
  <2>2. DOMAIN s[h] \subseteq DOMAIN own
    OBVIOUS
  <2> HIDE DEF s, u, own
  <2>3. Loses(s, u, h, {})
    BY <2>1, <2>2 DEF Loses
  <2> QED
    BY <2>3, PairsTaken
<1>4. ASSUME NEW b, BySignature!Remove(h, b)
      PROVE  D(Types(b))
  <2> DEFINE own == [c \in DOMAIN s[h] \ BySignature!Types(b) |-> s[h][c]]
  <2>1. h \in DOMAIN s /\ u = [s EXCEPT ![h] = own] /\ BySignature!Types(b) \subseteq DOMAIN s[h]
    BY <1>4 DEF BySignature!Remove
  <2>2. DOMAIN own = DOMAIN s[h] \ BySignature!Types(b) /\ Types(b) = BySignature!Types(b)
    BY DEF Types, ToSet, BySignature!Types
  <2> HIDE DEF s, u, own
  <2>3. Loses(s, u, h, Types(b))
    BY <2>1, <2>2 DEF Loses
  <2> QED
    BY <2>3, PairsTaken
<1> QED
  BY <1>1, <1>2, <1>3, <1>4

\* A step of the map by signature is one of the map by data, when the two agree.
LEMMA SameMap ==
  ASSUME ComponentsByData = ComponentsBySignature, ComponentsByData' = ComponentsBySignature',
         NEW h
  PROVE  /\ \A b : BySignature!Spawn(h, b) => ByData!Spawn(h, b)
         /\ BySignature!Despawn(h) => ByData!Despawn(h)
         /\ \A b : BySignature!Insert(h, b) => ByData!Insert(h, b)
         /\ \A b : BySignature!Remove(h, b) => ByData!Remove(h, b)
<1>1. \A b : BySignature!Types(b) = ByData!Types(b)
  BY DEF BySignature!Types, ByData!Types
<1>2. ASSUME NEW b, BySignature!Spawn(h, b)
      PROVE  ByData!Spawn(h, b)
  BY <1>1, <1>2 DEF BySignature!Spawn, ByData!Spawn
<1>3. BySignature!Despawn(h) => ByData!Despawn(h)
  BY DEF BySignature!Despawn, ByData!Despawn
<1>4. ASSUME NEW b, BySignature!Insert(h, b)
      PROVE  ByData!Insert(h, b)
  BY <1>1, <1>4 DEF BySignature!Insert, ByData!Insert
<1>5. ASSUME NEW b, BySignature!Remove(h, b)
      PROVE  ByData!Remove(h, b)
  BY <1>1, <1>5 DEF BySignature!Remove, ByData!Remove
<1> QED
  BY <1>2, <1>3, <1>4, <1>5

\* What a safe step of a sound world does.
SafeStepHolds ==
  /\ Sound' /\ ~panicked'
  /\ ByData!Next
  /\ released'.dropped \union released'.returned = Values \ Values'
  /\ released'.dropped \intersect released'.returned = {}

\* The four operations, each on a sound world.
LEMMA SafeStepOK ==
  ASSUME WorldInv, ColumnsOnce(archetypes.tables), Sound, ~panicked, SafeStep
  PROVE  SafeStepHolds
<1> DEFINE s == ComponentsBySignature
           u == ComponentsBySignature'
<1>1. SoundAt(entities, archetypes.tables)
  BY SoundIs
<1>2. Live(entities) \subseteq Issued(entities) /\ Live(entities) \subseteq Handles
  BY DEF Live, Issued
<1>3. ASSUME WorldInv', SoundAt(entities', archetypes'.tables), UNCHANGED panicked
      PROVE  /\ Sound' /\ ~panicked' /\ ~Panic
             /\ ComponentsByData = s /\ ComponentsByData' = u
             /\ Values = PairsOf(s) /\ Values' = PairsOf(u)
  <2>1. ~panicked' /\ ~Panic
    BY <1>3 DEF Panic
  <2>2. Sound'
    BY <1>3, SoundIs
  <2> QED
    BY <1>1, <1>3, <2>1, <2>2, SoundValues
<1>4. ASSUME NEW b \in SpawnBundles, Spawn(b)
      PROVE  SafeStepHolds
  <2>1. /\ WorldInv' /\ SoundAt(entities', archetypes'.tables)
        /\ UNCHANGED panicked /\ released' = Nothing
        /\ Panic \/ \E h \in Handles : BySignature!Spawn(h, b)
    BY <1>1, <1>4, SpawnStep
  <2>2. PICK h \in Handles : BySignature!Spawn(h, b)
    BY <1>3, <2>1
  <2>3. ByData!Next
    BY <1>3, <2>1, <2>2, SameMap DEF ByData!Next
  <2>4. Values \ Values' = {}
    BY <1>2, <1>3, <2>1, <2>2, MapValues
  <2> QED
    BY <1>3, <2>1, <2>3, <2>4 DEF SafeStepHolds, Nothing
<1>5. ASSUME NEW h \in Issued(entities), Despawn(h)
      PROVE  SafeStepHolds
  <2>1. /\ WorldInv' /\ SoundAt(entities', archetypes'.tables)
        /\ UNCHANGED panicked
        /\ released' = [dropped |-> {<<c, h>> : c \in TableOf(h).signature}, returned |-> {}]
        /\ Panic \/ (h \in Handles /\ BySignature!Despawn(h))
    BY <1>1, <1>5, DespawnStep
  <2>2. h \in Handles /\ BySignature!Despawn(h)
    BY <1>3, <2>1
  <2>3. ByData!Next
    BY <1>3, <2>1, <2>2, SameMap DEF ByData!Next
  <2>4. DOMAIN s[h] = TableOf(h).signature
    BY <2>2 DEF BySignature!Despawn, ComponentsBySignature
  <2>5. Values \ Values' = {<<c, h>> : c \in TableOf(h).signature}
    BY <1>3, <2>1, <2>2, <2>4, MapValues
  <2> QED
    BY <1>3, <2>1, <2>3, <2>5 DEF SafeStepHolds
<1>6. ASSUME NEW h \in Live(entities), NEW b \in InsertBundles,
             TableOf(h).signature \intersect Types(b) = {}, ~InsertMisplaces(h, b), InsertBundle(h, b)
      PROVE  SafeStepHolds
  <2>1. /\ WorldInv' /\ SoundAt(entities', archetypes'.tables)
        /\ UNCHANGED panicked /\ released' = Nothing
        /\ Panic \/ BySignature!Insert(h, b)
    BY <1>1, <1>6, InsertStep DEF MayInsert
  <2>2. h \in Handles /\ BySignature!Insert(h, b)
    BY <1>2, <1>3, <2>1
  <2>3. ByData!Next
    BY <1>3, <2>1, <2>2, SameMap DEF ByData!Next
  <2>4. Values \ Values' = {}
    BY <1>3, <2>1, <2>2, MapValues
  <2> QED
    BY <1>3, <2>1, <2>3, <2>4 DEF SafeStepHolds, Nothing
<1>7. ASSUME NEW h \in Live(entities), NEW b \in RemoveBundles,
             ~RemoveMisplaces(h, b), RemoveBundle(h, b)
      PROVE  SafeStepHolds
  <2>1. MayRemove(h, b)
    BY <1>7 DEF MayRemove, RemoveBundle
  <2>2. /\ WorldInv' /\ SoundAt(entities', archetypes'.tables)
        /\ UNCHANGED panicked
        /\ released' = [dropped |-> {}, returned |-> {<<c, h>> : c \in Types(b)}]
        /\ Panic \/ BySignature!Remove(h, b)
    BY <1>1, <1>7, <2>1, RemoveStep
  <2>3. h \in Handles /\ BySignature!Remove(h, b)
    BY <1>2, <1>3, <2>2
  <2>4. ByData!Next
    BY <1>3, <2>2, <2>3, SameMap DEF ByData!Next
  <2>5. Values \ Values' = {<<c, h>> : c \in Types(b)}
    BY <1>3, <2>2, <2>3, MapValues
  <2> QED
    BY <1>3, <2>2, <2>4, <2>5 DEF SafeStepHolds
<1> QED
  BY <1>4, <1>5, <1>6, <1>7 DEF SafeStep

\* The columns of every table have distinct types, and there are as many as the signature has.
LEMMA ColumnsOnceHolds == Spec => [](WorldInv /\ ColumnsOnce(archetypes.tables))
<1>1. Init => WorldInv /\ ColumnsOnce(archetypes.tables)
  <2>1. Init => DOMAIN archetypes.tables = {}
    BY DEF Init, EmptyArchetypes
  <2> QED
    BY <2>1, WorldInitOK DEF ColumnsOnce
<1>2. WorldInv /\ ColumnsOnce(archetypes.tables) /\ [Next]_vars =>
        WorldInv' /\ ColumnsOnce(archetypes.tables)'
  BY WorldStepOK, ColumnsOnceStep
<1> QED
  BY <1>1, <1>2, PTL DEF Spec

(* Apart from the two ways in which a move loses the row, and from inserting *)
(* a component that is there already, every operation on a sound world       *)
(* succeeds, leaves it sound, does to the data in the columns what a map     *)
(* would, and drops or returns exactly the values that leave it.             *)
THEOREM SafeStepsAreSound == Spec => SafeStepsImplementMap
<1>1. WorldInv /\ ColumnsOnce(archetypes.tables) /\ [Next]_vars =>
        [Sound /\ ~panicked /\ SafeStep =>
           /\ Sound' /\ ~panicked'
           /\ ByData!Next
           /\ released'.dropped \union released'.returned = Values \ Values'
           /\ released'.dropped \intersect released'.returned = {}]_vars
  BY SafeStepOK DEF SafeStepHolds
<1> QED
  BY <1>1, ColumnsOnceHolds, PTL DEF Spec, SafeStepsImplementMap

-----------------------------------------------------------------------------
(* The query's cache.                                                       *)

\* Applies evaluates a filter as filter.rs describes it, if no Xor holds several.
LEMMA FiltersAsDescribed ==
  ASSUME SingleXors, NEW f, NEW sig
  PROVE  Applies(f, sig) = Means(f, sig)
<1> DEFINE Holds(h, g) ==
             \/ g.op = "unit"
             \/ g.op = "with" /\ g.types \subseteq sig
             \/ g.op = "without" /\ g.types \intersect sig = {}
             \/ g.op = "or" /\ \E i \in DOMAIN g.of : h[g.of[i]]
             \/ g.op = "not" /\ \E i \in DOMAIN g.of : ~h[g.of[i]]
             \/ g.op = "xor" /\ \A i \in DOMAIN g.of : h[g.of[i]]
           Holding(h, g) == {i \in DOMAIN g.of : h[g.of[i]]}
           Meaning(h, g) ==
             \/ g.op = "unit"
             \/ g.op = "with" /\ \A c \in g.types : c \in sig
             \/ g.op = "without" /\ \A c \in g.types : c \notin sig
             \/ g.op = "or" /\ Holding(h, g) # {}
             \/ g.op = "not" /\ Holding(h, g) # DOMAIN g.of
             \/ g.op = "xor" /\ Cardinality(Holding(h, g)) % 2 = 1
<1>1. ASSUME NEW h, NEW g \in FilterTrees
      PROVE  Holds(h, g) = Meaning(h, g)
  <2>1. CASE g.op = "unit"
    BY <2>1
  <2>2. CASE g.op = "with"
    BY <2>2
  <2>3. CASE g.op = "without"
    BY <2>3
  <2>4. CASE g.op = "or"
    BY <2>4
  <2>5. CASE g.op = "not"
    BY <2>5
  <2>6. CASE g.op = "xor"
    <3>1. DOMAIN g.of = {1}
      BY <2>6 DEF SingleXors
    <3>2. CASE h[g.of[1]]
      <4>1. Holding(h, g) = {1}
        BY <3>1, <3>2
      <4>2. Cardinality(Holding(h, g)) = 1
        BY <4>1, FS_Singleton
      <4> QED
        BY <2>6, <3>1, <3>2, <4>2
    <3>3. CASE ~h[g.of[1]]
      <4>1. Holding(h, g) = {}
        BY <3>1, <3>3
      <4>2. Cardinality(Holding(h, g)) = 0
        BY <4>1, FS_EmptySet
      <4> QED
        BY <2>6, <3>1, <3>3, <4>2
    <3> QED
      BY <3>2, <3>3
  <2>7. CASE g.op \notin {"unit", "with", "without", "or", "not", "xor"}
    BY <2>7
  <2> QED
    BY <2>1, <2>2, <2>3, <2>4, <2>5, <2>6, <2>7
<1> DEFINE IsHolds(h) == h = [g \in FilterTrees |-> Holds(h, g)]
           IsMeaning(h) == h = [g \in FilterTrees |-> Meaning(h, g)]
<1>2. \A h : IsHolds(h) <=> IsMeaning(h)
  <2> HIDE DEF Holds, Meaning
  <2> QED
    BY <1>1
<1>3. (CHOOSE h : IsHolds(h)) = CHOOSE h : IsMeaning(h)
  <2> HIDE DEF IsHolds, IsMeaning
  <2> QED
    BY <1>2
<1>4. Applies(f, sig) = (CHOOSE h : IsHolds(h))[f]
  BY DEF Applies
<1>5. Means(f, sig) = (CHOOSE h : IsMeaning(h))[f]
  BY DEF Means
<1> HIDE DEF IsHolds, IsMeaning
<1> QED
  BY <1>3, <1>4, <1>5


\* The tables that the query asks for are those that cache_tables accepts.
LEMMA MatchingIsMatches ==
  ASSUME SingleXors
  PROVE  MatchingTables = {i \in DOMAIN archetypes.tables : Matches(archetypes.tables[i].signature)}
BY FiltersAsDescribed DEF MatchingTables, Matches, TableIndices

\* c lists the matching ones of the first n tables, each once.
Lists(c, n) ==
  /\ c \in Seq(Nat) /\ IsInjective(c)
  /\ ToSet(c) = {i \in 1 .. n : Matches(archetypes.tables[i].signature)}

\* One more table.
LEMMA ListsNext ==
  ASSUME NEW c, NEW n \in Nat, Lists(c, n)
  PROVE  /\ Matches(archetypes.tables[n + 1].signature) => Lists(Append(c, n + 1), n + 1)
         /\ ~Matches(archetypes.tables[n + 1].signature) => Lists(c, n + 1)
<1>1. /\ c \in Seq(Nat) /\ IsInjective(c) /\ Len(c) \in Nat /\ DOMAIN c = 1 .. Len(c)
      /\ \A i : (\E k \in DOMAIN c : c[k] = i) <=> i \in 1 .. n /\ Matches(archetypes.tables[i].signature)
  BY DEF Lists, ToSet
<1>2. 1 .. n + 1 = (1 .. n) \union {n + 1} /\ n + 1 \notin 1 .. n
  OBVIOUS
<1>3. CASE Matches(archetypes.tables[n + 1].signature)
  <2> DEFINE d == Append(c, n + 1)
  <2>1. /\ d \in Seq(Nat) /\ DOMAIN d = 1 .. Len(c) + 1
        /\ d[Len(c) + 1] = n + 1 /\ \A k \in DOMAIN c : k \in DOMAIN d /\ d[k] = c[k]
        /\ \A k \in DOMAIN d : k \in DOMAIN c \/ k = Len(c) + 1
    BY <1>1
  <2> HIDE DEF d
  <2>2. \A k \in DOMAIN c : c[k] # n + 1
    BY <1>1, <1>2
  <2>3. IsInjective(d)
    <3>1. \A a, b \in DOMAIN d : d[a] = d[b] => a = b
      BY <1>1, <2>1, <2>2 DEF IsInjective
    <3> QED
      BY <3>1 DEF IsInjective
  <2>4. ToSet(d) = {i \in 1 .. n + 1 : Matches(archetypes.tables[i].signature)}
    <3>1. ToSet(d) = ToSet(c) \union {n + 1}
      <4>1. \A i : i \in ToSet(d) => i \in ToSet(c) \/ i = n + 1
        BY <1>1, <2>1 DEF ToSet
      <4>2. \A i \in ToSet(c) : i \in ToSet(d)
        BY <2>1 DEF ToSet
      <4>3. Len(c) + 1 \in DOMAIN d
        BY <1>1, <2>1
      <4>4. n + 1 \in ToSet(d)
        BY <2>1, <4>3 DEF ToSet
      <4> QED
        BY <4>1, <4>2, <4>4
    <3> QED
      BY <1>2, <1>3, <3>1 DEF Lists
  <2> QED
    BY <1>3, <2>1, <2>3, <2>4 DEF Lists, d
<1>4. CASE ~Matches(archetypes.tables[n + 1].signature)
  BY <1>2, <1>4 DEF Lists
<1> QED
  BY <1>3, <1>4

\* cache_tables looks at the tables from next_scan on, one after the other.
LEMMA ScannedOK ==
  ASSUME NEW s, s.next_scan \in Positions, Len(archetypes.tables) \in Nat,
         s.next_scan - 1 <= Len(archetypes.tables), Lists(s.cache, s.next_scan - 1)
  PROVE  Lists(Scanned(s), Len(archetypes.tables))
<1> DEFINE n == Len(archetypes.tables) - s.next_scan + 1
           at(k) == s.next_scan + k - 1
           more(k, c) == IF Matches(archetypes.tables[at(k)].signature) THEN Append(c, at(k)) ELSE c
           step == [k \in 1 .. n |-> [c \in Seq(Nat) |-> more(k, c)]]
           IsCache(f) == f = [k \in 0 .. n |-> IF k = 0 THEN s.cache ELSE more(k, f[k - 1])]
           cache == CHOOSE f : IsCache(f)
<1>1. /\ n \in Nat /\ at(n) = Len(archetypes.tables) /\ at(0) = s.next_scan - 1
      /\ \A k \in 1 .. n : at(k) \in Nat /\ at(k - 1) \in Nat /\ at(k) = at(k - 1) + 1
  <2>1. s.next_scan \in Nat /\ s.next_scan >= 1
    BY DEF Positions
  <2>2. n \in Nat /\ at(n) = Len(archetypes.tables) /\ at(0) = s.next_scan - 1
    BY <2>1
  <2>3. ASSUME NEW k \in 1 .. n
        PROVE  at(k) \in Nat /\ at(k - 1) \in Nat /\ at(k) = at(k - 1) + 1
    <3> HIDE DEF n
    <3>1. k \in Nat /\ k >= 1
      BY <2>2
    <3> QED
      BY <2>1, <3>1
  <2> QED
    BY <2>2, <2>3
<1>2. Scanned(s) = cache[n]
  BY DEF Scanned
<1>3. \A k \in 1 .. n : \A c \in Seq(Nat) : more(k, c) \in Seq(Nat)
  BY <1>1
<1>4. s.cache \in Seq(Nat)
  BY DEF Lists
<1> HIDE DEF n, more, at
<1>5. step \in [1 .. n -> [Seq(Nat) -> Seq(Nat)]]
  BY <1>3
<1>6. PICK f \in [0 .. n -> Seq(Nat)] : Iterates(f, n, s.cache, step)
  <2> HIDE DEF step
  <2> QED
    BY <1>1, <1>4, <1>5, RecursionExists
<1>7. IsCache(f)
  <2>1. ASSUME NEW k \in 1 .. n
        PROVE  f[k] = more(k, f[k - 1])
    <3>1. f[k - 1] \in Seq(Nat)
      BY <1>1
    <3> QED
      BY <1>6, <3>1 DEF Iterates
  <2>2. \A k \in 0 .. n : f[k] = IF k = 0 THEN s.cache ELSE more(k, f[k - 1])
    BY <1>1, <1>6, <2>1 DEF Iterates
  <2>3. f = [k \in 0 .. n |-> f[k]]
    OBVIOUS
  <2> QED
    BY <2>2, <2>3
<1>8. IsCache(cache)
  <2> HIDE DEF IsCache
  <2> QED
    BY <1>7
<1> HIDE DEF cache
<1>9. \A k \in 0 .. n : cache[k] = IF k = 0 THEN s.cache ELSE more(k, cache[k - 1])
  BY <1>8, Zenon
<1> DEFINE T == {k \in 0 .. n : Lists(cache[k], at(k))}
<1>10. 0 .. n \subseteq T
  <2>1. 0 \in T
    <3>1. 0 \in 0 .. n
      BY <1>1
    <3>2. cache[0] = s.cache
      BY <1>9, <3>1
    <3> QED
      BY <1>1, <3>1, <3>2
  <2>2. ASSUME NEW k \in 1 .. n, k - 1 \in T
        PROVE  k \in T
    <3>1. k \in 0 .. n /\ k # 0 /\ Lists(cache[k - 1], at(k - 1))
      BY <1>1, <2>2
    <3>2. cache[k] = more(k, cache[k - 1])
      BY <1>9, <3>1
    <3>3. Lists(more(k, cache[k - 1]), at(k))
      <4> DEFINE c == cache[k - 1]
      <4>1. at(k - 1) \in Nat /\ at(k) = at(k - 1) + 1
        BY <1>1
      <4> HIDE DEF c
      <4>2. /\ Matches(archetypes.tables[at(k)].signature) => Lists(Append(c, at(k)), at(k))
            /\ ~Matches(archetypes.tables[at(k)].signature) => Lists(c, at(k))
        BY <3>1, <4>1, ListsNext DEF c
      <4> QED
        BY <4>2 DEF c, more
    <3> QED
      BY <3>1, <3>2, <3>3
  <2> HIDE DEF T
  <2> QED
    BY <1>1, <2>1, <2>2, UpTo
<1>11. Lists(cache[n], at(n))
  BY <1>1, <1>10
<1> QED
  BY <1>1, <1>2, <1>11


-----------------------------------------------------------------------------
(* Windows and the rows in them.                                            *)

\* A row of a window is its table and a number after the base.
LEMMA InWindow ==
  ASSUME NEW w \in Windows, NEW r
  PROVE  r \in WindowRows(w) <=>
           \E n \in Nat : w.base < n /\ n <= w.base + w.remaining /\ r = <<w.table, n>>
<1>1. w.base \in Nat /\ w.remaining \in Nat
  BY DEF Windows
<1>2. \A n : n \in w.base + 1 .. w.base + w.remaining <=>
              n \in Nat /\ w.base < n /\ n <= w.base + w.remaining
  BY <1>1
<1> QED
  BY <1>2 DEF WindowRows

\* An empty window has no rows.
LEMMA EmptyWindow ==
  ASSUME NEW w \in Windows, w.remaining = 0
  PROVE  WindowRows(w) = {}
<1>1. \A r : r \notin WindowRows(w)
  BY InWindow DEF Windows
<1> QED
  BY <1>1

\* Taking the first row of a window leaves the others.
LEMMA TakeFirst ==
  ASSUME NEW w \in Windows, w.remaining > 0
  PROVE  /\ AfterFirst(w) \in Windows
         /\ First(w) \in WindowRows(w)
         /\ WindowRows(AfterFirst(w)) = WindowRows(w) \ {First(w)}
<1> DEFINE v == AfterFirst(w)
<1>1. w.table \in Nat /\ w.base \in Nat /\ w.remaining \in Nat
  BY DEF Windows
<1>2. v.table = w.table /\ v.base = w.base + 1 /\ v.remaining = w.remaining - 1 /\ v \in Windows
  BY <1>1 DEF AfterFirst, Window, Windows
<1>3. First(w) \in WindowRows(w)
  BY <1>1, InWindow DEF First
<1> HIDE DEF v
<1>4. \A r : r \in WindowRows(v) <=> r \in WindowRows(w) \ {First(w)}
  <2>1. \A r : r \in WindowRows(v) <=>
          \E n \in Nat : w.base + 1 < n /\ n <= w.base + w.remaining /\ r = <<w.table, n>>
    BY <1>1, <1>2, InWindow
  <2>2. \A r : r \in WindowRows(w) \ {First(w)} <=>
          \E n \in Nat : w.base < n /\ n <= w.base + w.remaining /\ r = <<w.table, n>> /\ n # w.base + 1
    BY InWindow DEF First
  <2>3. \A n \in Nat : w.base + 1 < n <=> w.base < n /\ n # w.base + 1
    BY <1>1
  <2> QED
    BY <2>1, <2>2, <2>3
<1> QED
  BY <1>2, <1>3, <1>4 DEF v

\* Taking the last row of a window leaves the others.
LEMMA TakeLast ==
  ASSUME NEW w \in Windows, w.remaining > 0
  PROVE  /\ BeforeLast(w) \in Windows
         /\ LastRow(w) \in WindowRows(w)
         /\ WindowRows(BeforeLast(w)) = WindowRows(w) \ {LastRow(w)}
<1> DEFINE v == BeforeLast(w)
<1>1. w.table \in Nat /\ w.base \in Nat /\ w.remaining \in Nat
  BY DEF Windows
<1>2. v.table = w.table /\ v.base = w.base /\ v.remaining = w.remaining - 1 /\ v \in Windows
  BY <1>1 DEF BeforeLast, Window, Windows
<1>3. LastRow(w) \in WindowRows(w)
  BY <1>1, InWindow DEF LastRow
<1> HIDE DEF v
<1>4. \A r : r \in WindowRows(v) <=> r \in WindowRows(w) \ {LastRow(w)}
  <2>1. \A r : r \in WindowRows(v) <=>
          \E n \in Nat : w.base < n /\ n <= w.base + w.remaining - 1 /\ r = <<w.table, n>>
    BY <1>1, <1>2, InWindow
  <2>2. \A r : r \in WindowRows(w) \ {LastRow(w)} <=>
          \E n \in Nat : /\ w.base < n /\ n <= w.base + w.remaining /\ r = <<w.table, n>>
                         /\ n # w.base + w.remaining
    BY InWindow DEF LastRow
  <2>3. \A n \in Nat : n <= w.base + w.remaining - 1 <=>
                         n <= w.base + w.remaining /\ n # w.base + w.remaining
    BY <1>1
  <2> QED
    BY <2>1, <2>2, <2>3
<1> QED
  BY <1>2, <1>3, <1>4 DEF v

\* The halves of a window divide its rows.
LEMMA HalvesOK ==
  ASSUME NEW w \in Windows
  PROVE  /\ Halves(w) \subseteq Windows
         /\ UNION {WindowRows(v) : v \in Halves(w)} = WindowRows(w)
         /\ \A u, v \in Halves(w) : u # v => WindowRows(u) \intersect WindowRows(v) = {}
<1> DEFINE n == (w.remaining + 1) \div 2
           m == w.remaining \div 2
           a == Window(w.table, w.base, n)
           b == Window(w.table, w.base + n, m)
<1>1. w.table \in Nat /\ w.base \in Nat /\ w.remaining \in Nat
  BY DEF Windows
<1>2. n \in Nat /\ m \in Nat /\ n + m = w.remaining
  BY <1>1
<1>3. Halves(w) = {a, b}
  BY DEF Halves
<1> HIDE DEF n, m
<1>4. /\ a \in Windows /\ a.table = w.table /\ a.base = w.base /\ a.remaining = n
      /\ b \in Windows /\ b.table = w.table /\ b.base = w.base + n /\ b.remaining = m
  BY <1>1, <1>2 DEF Window, Windows
<1> HIDE DEF a, b
<1>5. \A r : r \in WindowRows(a) <=>
        \E k \in Nat : w.base < k /\ k <= w.base + n /\ r = <<w.table, k>>
  BY <1>4, InWindow
<1>6. \A r : r \in WindowRows(b) <=>
        \E k \in Nat : w.base + n < k /\ k <= w.base + n + m /\ r = <<w.table, k>>
  BY <1>4, InWindow
<1>7. \A k \in Nat : w.base < k /\ k <= w.base + w.remaining <=>
                       \/ w.base < k /\ k <= w.base + n
                       \/ w.base + n < k /\ k <= w.base + n + m
  BY <1>1, <1>2
<1>8. \A r : r \in WindowRows(w) <=> r \in WindowRows(a) \/ r \in WindowRows(b)
  BY <1>5, <1>6, <1>7, InWindow
<1>9. WindowRows(a) \intersect WindowRows(b) = {}
  <2>1. \A k, l \in Nat : k <= w.base + n /\ w.base + n < l => k # l
    BY <1>1, <1>2
  <2> QED
    BY <1>5, <1>6, <2>1
<1>10. UNION {WindowRows(v) : v \in Halves(w)} = WindowRows(a) \union WindowRows(b)
  BY <1>3
<1> QED
  BY <1>3, <1>4, <1>8, <1>9, <1>10

\* A window has as many rows as remain in it.
LEMMA WindowSize ==
  ASSUME NEW w \in Windows
  PROVE  IsFiniteSet(WindowRows(w)) /\ Cardinality(WindowRows(w)) = w.remaining
<1> DEFINE I == w.base + 1 .. w.base + w.remaining
           row == [n \in I |-> <<w.table, n>>]
<1>1. w.base \in Nat /\ w.remaining \in Nat
  BY DEF Windows
<1>2. IsFiniteSet(I) /\ Cardinality(I) = w.remaining
  <2> DEFINE a == w.base + 1
             b == w.base + w.remaining
  <2>1. a \in Int /\ b \in Int /\ (a > b <=> w.remaining = 0) /\ b - a + 1 = w.remaining
    BY <1>1
  <2> HIDE DEF a, b
  <2>2. IsFiniteSet(a .. b) /\ Cardinality(a .. b) = IF a > b THEN 0 ELSE b - a + 1
    BY <2>1, FS_Interval
  <2>3. I = a .. b
    BY DEF a, b
  <2> QED
    BY <2>1, <2>2, <2>3
<1>3. row \in Bijection(I, WindowRows(w))
  <2> HIDE DEF I
  <2>1. row \in [I -> WindowRows(w)]
    BY DEF WindowRows, I
  <2>2. \A i, j \in I : row[i] = row[j] => i = j
    OBVIOUS
  <2>3. \A r \in WindowRows(w) : \E i \in I : row[i] = r
    BY DEF WindowRows, I
  <2> QED
    BY <2>1, <2>2, <2>3 DEF Bijection, Injection, Surjection, IsInjective
<1>4. ExistsBijection(I, WindowRows(w))
  BY <1>3 DEF ExistsBijection
<1> HIDE DEF I
<1> QED
  BY <1>2, <1>4, FS_Bijection


-----------------------------------------------------------------------------
(* How the rows of the cached tables are divided.                           *)

Iterators == [window : Windows, rest : Seq(Nat), reversed : BOOLEAN]
Producers == [window : Windows, folding : BOOLEAN]

\* The whole table i of the tables ts, and the rows of the tables that c lists.
Whole(ts, i) == Window(i, 0, Len(ts[i].entities))
RowsOf(ts, c) == UNION {WindowRows(Whole(ts, c[k])) : k \in DOMAIN c}
TableList(ts, c) ==
  c \in Seq(Nat) /\ IsInjective(c) /\ \A k \in DOMAIN c : Whole(ts, c[k]) \in Windows

\* The rows `all` are those returned, those left in the iterator's table, and those of
\* the tables after it, and no row is twice among them.
Iterating(ts, all, returned, it) ==
  /\ it \in Iterators
  /\ TableList(ts, it.rest)
  /\ all = returned \union WindowRows(it.window) \union RowsOf(ts, it.rest)
  /\ returned \intersect WindowRows(it.window) = {}
  /\ returned \intersect RowsOf(ts, it.rest) = {}
  /\ WindowRows(it.window) \intersect RowsOf(ts, it.rest) = {}

Held(ps) == UNION {WindowRows(p.window) : p \in ps}
HeldOnce(ps) ==
  \A p, q \in ps : p # q => WindowRows(p.window) \intersect WindowRows(q.window) = {}

\* The rows `all` are those returned and those that the producers hold, each in one place.
Producing(all, returned, ps) ==
  /\ ps \subseteq Producers
  /\ all = returned \union Held(ps)
  /\ returned \intersect Held(ps) = {}
  /\ HeldOnce(ps)

\* Two tables have no row in common.
LEMMA TablesApart ==
  ASSUME NEW u \in Windows, NEW v \in Windows, u.table # v.table
  PROVE  WindowRows(u) \intersect WindowRows(v) = {}
<1>1. ASSUME NEW r \in WindowRows(u), r \in WindowRows(v)
      PROVE  FALSE
  <2>1. PICK n \in Nat : r = <<u.table, n>>
    BY <1>1, InWindow
  <2>2. PICK m \in Nat : r = <<v.table, m>>
    BY <1>1, InWindow
  <2> QED
    BY <2>1, <2>2
<1> QED
  BY <1>1

\* The rows of a list of tables are those of the first and those of the others.
LEMMA HeadRows ==
  ASSUME NEW ts, NEW c, TableList(ts, c), c # <<>>
  PROVE  /\ TableList(ts, Tail(c))
         /\ Whole(ts, Head(c)) \in Windows
         /\ RowsOf(ts, c) = WindowRows(Whole(ts, Head(c))) \union RowsOf(ts, Tail(c))
         /\ WindowRows(Whole(ts, Head(c))) \intersect RowsOf(ts, Tail(c)) = {}
<1> DEFINE d == Tail(c)
<1>1. c \in Seq(Nat) /\ IsInjective(c) /\ \A k \in DOMAIN c : Whole(ts, c[k]) \in Windows
  BY DEF TableList
<1>2. /\ DOMAIN c = 1 .. Len(c) /\ Len(c) \in Nat /\ Len(c) > 0
      /\ d \in Seq(Nat) /\ DOMAIN d = 1 .. Len(c) - 1
      /\ \A k \in DOMAIN d : d[k] = c[k + 1]
      /\ Head(c) = c[1]
  BY <1>1
<1> HIDE DEF d
<1>3. /\ 1 \in DOMAIN c
      /\ \A k \in DOMAIN d : k + 1 \in DOMAIN c /\ k + 1 # 1
      /\ \A k \in DOMAIN c : k = 1 \/ (k - 1 \in DOMAIN d /\ d[k - 1] = c[k])
  BY <1>2
<1>4. IsInjective(d)
  <2>1. ASSUME NEW a \in DOMAIN d, NEW b \in DOMAIN d, d[a] = d[b]
        PROVE  a = b
    <3>1. a + 1 = b + 1
      BY <1>1, <1>2, <1>3, <2>1 DEF IsInjective
    <3> QED
      BY <1>2, <3>1
  <2> QED
    BY <2>1 DEF IsInjective
<1>5. TableList(ts, d)
  BY <1>1, <1>2, <1>3, <1>4 DEF TableList
<1>6. Whole(ts, c[1]) \in Windows
  BY <1>1, <1>3
<1>7. \A r : r \in RowsOf(ts, c) <=> r \in WindowRows(Whole(ts, c[1])) \/ r \in RowsOf(ts, d)
  <2>1. ASSUME NEW r \in RowsOf(ts, c)
        PROVE  r \in WindowRows(Whole(ts, c[1])) \/ r \in RowsOf(ts, d)
    <3>1. PICK k \in DOMAIN c : r \in WindowRows(Whole(ts, c[k]))
      BY DEF RowsOf
    <3> QED
      BY <1>3, <3>1 DEF RowsOf
  <2>2. ASSUME NEW r \in RowsOf(ts, d)
        PROVE  r \in RowsOf(ts, c)
    <3>1. PICK k \in DOMAIN d : r \in WindowRows(Whole(ts, d[k]))
      BY DEF RowsOf
    <3> QED
      BY <1>2, <1>3, <3>1 DEF RowsOf
  <2>3. ASSUME NEW r \in WindowRows(Whole(ts, c[1]))
        PROVE  r \in RowsOf(ts, c)
    BY <1>3 DEF RowsOf
  <2> QED
    BY <2>1, <2>2, <2>3
<1>8. WindowRows(Whole(ts, c[1])) \intersect RowsOf(ts, d) = {}
  <2>1. ASSUME NEW k \in DOMAIN d
        PROVE  WindowRows(Whole(ts, c[1])) \intersect WindowRows(Whole(ts, d[k])) = {}
    <3>1. d[k] # c[1]
      BY <1>1, <1>2, <1>3 DEF IsInjective
    <3>2. Whole(ts, d[k]) \in Windows
      BY <1>5 DEF TableList
    <3>3. Whole(ts, d[k]).table = d[k] /\ Whole(ts, c[1]).table = c[1]
      BY DEF Whole, Window
    <3> QED
      BY <1>6, <3>1, <3>2, <3>3, TablesApart
  <2> QED
    BY <2>1 DEF RowsOf
<1> QED
  BY <1>2, <1>5, <1>6, <1>7, <1>8 DEF d

\* QueryIter::jump, from a table that has no row left.
LEMMA JumpOK ==
  ASSUME NEW all, NEW returned, NEW it, Iterating(archetypes.tables, all, returned, it),
         it.window.remaining = 0, it.rest # <<>>
  PROVE  Iterating(archetypes.tables, all, returned, Jumped(it))
<1> DEFINE ts == archetypes.tables
           new == Jumped(it)
<1>1. it \in Iterators /\ TableList(ts, it.rest)
  BY DEF Iterating
<1>2. /\ TableList(ts, Tail(it.rest))
      /\ Whole(ts, Head(it.rest)) \in Windows
      /\ RowsOf(ts, it.rest) = WindowRows(Whole(ts, Head(it.rest))) \union RowsOf(ts, Tail(it.rest))
      /\ WindowRows(Whole(ts, Head(it.rest))) \intersect RowsOf(ts, Tail(it.rest)) = {}
  BY <1>1, HeadRows
<1>3. Tail(it.rest) \in Seq(Nat)
  BY <1>2 DEF TableList
<1>4. WholeTable(Head(it.rest)) = Whole(ts, Head(it.rest))
  BY DEF WholeTable, Whole, RowCount
<1>5. /\ new \in Iterators
      /\ new.window = Whole(ts, Head(it.rest)) /\ new.rest = Tail(it.rest)
  BY <1>1, <1>2, <1>3, <1>4 DEF Jumped, Iterators
<1>6. WindowRows(it.window) = {}
  BY <1>1, EmptyWindow DEF Iterators
<1> HIDE DEF new, ts
<1>7. /\ all = returned \union WindowRows(it.window) \union RowsOf(ts, it.rest)
      /\ returned \intersect RowsOf(ts, it.rest) = {}
  BY DEF Iterating, ts
<1>8. Iterating(ts, all, returned, new)
  BY <1>2, <1>5, <1>6, <1>7 DEF Iterating
<1> QED
  BY <1>8 DEF ts, new

\* A row is taken from the iterator's table.
LEMMA TakeOK ==
  ASSUME NEW ts, NEW all, NEW returned, NEW it, Iterating(ts, all, returned, it),
         NEW row \in WindowRows(it.window), NEW new \in Iterators, new.rest = it.rest,
         WindowRows(new.window) = WindowRows(it.window) \ {row}
  PROVE  row \notin returned /\ Iterating(ts, all, returned \union {row}, new)
BY DEF Iterating

\* A producer is replaced by others, and rows of it are returned.
LEMMA ReplaceOK ==
  ASSUME NEW all, NEW returned, NEW ps, Producing(all, returned, ps), NEW p \in ps,
         NEW qs \in SUBSET Producers, NEW rows, HeldOnce(qs),
         WindowRows(p.window) = rows \union Held(qs), rows \intersect Held(qs) = {}
  PROVE  Producing(all, returned \union rows, (ps \ {p}) \union qs) /\ rows \intersect returned = {}
<1> DEFINE others == ps \ {p}
           new == others \union qs
<1>1. /\ ps \subseteq Producers /\ HeldOnce(ps)
      /\ all = returned \union Held(ps) /\ returned \intersect Held(ps) = {}
  BY DEF Producing
<1>2. Held(ps) = Held(others) \union WindowRows(p.window)
  BY DEF Held
<1>3. Held(new) = Held(others) \union Held(qs)
  BY DEF Held
<1>4. Held(others) \intersect WindowRows(p.window) = {}
  BY <1>1 DEF Held, HeldOnce
<1>5. HeldOnce(new)
  <2> SUFFICES ASSUME NEW u \in new, NEW v \in new, u # v
               PROVE  WindowRows(u.window) \intersect WindowRows(v.window) = {}
    BY DEF HeldOnce
  <2>1. ASSUME NEW a \in others, NEW b \in qs
        PROVE  WindowRows(a.window) \intersect WindowRows(b.window) = {}
    <3>1. WindowRows(a.window) \subseteq Held(others) /\ WindowRows(b.window) \subseteq Held(qs)
      BY DEF Held
    <3> QED
      BY <1>4, <3>1
  <2>2. CASE u \in others /\ v \in others
    BY <1>1, <2>2 DEF HeldOnce
  <2>3. CASE u \in qs /\ v \in qs
    BY <2>3 DEF HeldOnce
  <2> HIDE DEF others
  <2> QED
    BY <2>1, <2>2, <2>3
<1>6. new \subseteq Producers
  BY <1>1
<1> HIDE DEF others, new
<1>7. Producing(all, returned \union rows, new) /\ rows \intersect returned = {}
  BY <1>1, <1>2, <1>3, <1>4, <1>5, <1>6 DEF Producing
<1> QED
  BY <1>7 DEF new, others


\* unfiltered_len adds up the rows of the tables that are left.
LEMMA LenOK ==
  ASSUME NEW all, NEW returned, NEW it, Iterating(archetypes.tables, all, returned, it)
  PROVE  IterLen(it) = Cardinality(all \ returned)
<1> DEFINE ts == archetypes.tables
           c == it.rest
           n == Len(c)
           w == it.window
           size(k) == RowCount(c[k])
           part(k) == WindowRows(Whole(ts, c[k]))
           Prefix(k) == WindowRows(w) \union UNION {part(l) : l \in 1 .. k}
           step == [k \in 1 .. n |-> [m \in Nat |-> m + size(k)]]
           IsRows(f) == f = [k \in 0 .. n |-> IF k = 0 THEN w.remaining ELSE f[k - 1] + size(k)]
           rows == CHOOSE f : IsRows(f)
<1>1. /\ w \in Windows /\ w.remaining \in Nat
      /\ c \in Seq(Nat) /\ n \in Nat /\ DOMAIN c = 1 .. n /\ IsInjective(c)
      /\ \A k \in 1 .. n : Whole(ts, c[k]) \in Windows
  BY DEF Iterating, Iterators, TableList, Windows
<1>2. IterLen(it) = rows[n]
  BY DEF IterLen
<1>3. \A k \in 1 .. n : /\ size(k) \in Nat /\ IsFiniteSet(part(k)) /\ Cardinality(part(k)) = size(k)
                        /\ \A l \in 1 .. n : l # k => part(k) \intersect part(l) = {}
                        /\ WindowRows(w) \intersect part(k) = {}
  <2> TAKE k \in 1 .. n
  <2>1. Whole(ts, c[k]).remaining = size(k) /\ Whole(ts, c[k]) \in Windows
    BY <1>1 DEF Whole, Window, RowCount
  <2>2. size(k) \in Nat
    BY <2>1 DEF Windows
  <2>3. IsFiniteSet(part(k)) /\ Cardinality(part(k)) = size(k)
    BY <2>1, WindowSize
  <2>4. ASSUME NEW l \in 1 .. n, l # k
        PROVE  part(k) \intersect part(l) = {}
    <3>1. c[l] # c[k] /\ Whole(ts, c[l]) \in Windows
      BY <1>1, <2>4 DEF IsInjective
    <3>2. Whole(ts, c[k]).table = c[k] /\ Whole(ts, c[l]).table = c[l]
      BY DEF Whole, Window
    <3> QED
      BY <2>1, <3>1, <3>2, TablesApart
  <2>5. WindowRows(w) \intersect part(k) = {}
    <3>1. part(k) \subseteq RowsOf(ts, c)
      BY <1>1 DEF RowsOf
    <3>2. WindowRows(w) \intersect RowsOf(ts, c) = {}
      BY DEF Iterating
    <3> QED
      BY <3>1, <3>2
  <2> QED
    BY <2>2, <2>3, <2>4, <2>5
<1>4. all \ returned = Prefix(n)
  <2>1. /\ all = returned \union WindowRows(w) \union RowsOf(ts, c)
        /\ returned \intersect WindowRows(w) = {} /\ returned \intersect RowsOf(ts, c) = {}
    BY DEF Iterating
  <2>2. RowsOf(ts, c) = UNION {part(l) : l \in 1 .. n}
    BY <1>1 DEF RowsOf
  <2> HIDE DEF part, ts, c, w
  <2> QED
    BY <2>1, <2>2
<1> HIDE DEF n, size, part, w
<1>5. step \in [1 .. n -> [Nat -> Nat]]
  BY <1>3
<1>6. PICK f \in [0 .. n -> Nat] : Iterates(f, n, w.remaining, step)
  <2> HIDE DEF step
  <2> QED
    BY <1>1, <1>5, RecursionExists
<1>7. IsRows(f)
  <2>1. ASSUME NEW k \in 1 .. n
        PROVE  f[k] = f[k - 1] + size(k)
    <3>1. f[k - 1] \in Nat
      BY <1>1
    <3> QED
      BY <1>6, <3>1 DEF Iterates
  <2>2. \A k \in 0 .. n : f[k] = IF k = 0 THEN w.remaining ELSE f[k - 1] + size(k)
    BY <1>1, <1>6, <2>1 DEF Iterates
  <2>3. f = [k \in 0 .. n |-> f[k]]
    OBVIOUS
  <2> QED
    BY <2>2, <2>3
<1>8. IsRows(rows)
  <2> HIDE DEF IsRows
  <2> QED
    BY <1>7
<1> HIDE DEF rows
<1>9. \A k \in 0 .. n : rows[k] = IF k = 0 THEN w.remaining ELSE rows[k - 1] + size(k)
  BY <1>8, Zenon
<1> HIDE DEF IsRows
<1> DEFINE T == {k \in 0 .. n : IsFiniteSet(Prefix(k)) /\ Cardinality(Prefix(k)) = rows[k]}
<1>10. 0 .. n \subseteq T
  <2>1. 0 \in T
    <3>1. Prefix(0) = WindowRows(w)
      OBVIOUS
    <3>2. IsFiniteSet(WindowRows(w)) /\ Cardinality(WindowRows(w)) = w.remaining
      BY <1>1, WindowSize
    <3>3. 0 \in 0 .. n /\ rows[0] = w.remaining
      BY <1>1, <1>9
    <3> HIDE DEF Prefix
    <3> QED
      BY <3>1, <3>2, <3>3
  <2>2. ASSUME NEW k \in 1 .. n, k - 1 \in T
        PROVE  k \in T
    <3> DEFINE a == Prefix(k - 1)
    <3>1. k \in 0 .. n /\ k # 0 /\ IsFiniteSet(a) /\ Cardinality(a) = rows[k - 1]
      BY <1>1, <2>2
    <3>2. Prefix(k) = a \union part(k)
      <4>1. 1 .. k = (1 .. k - 1) \union {k}
        OBVIOUS
      <4> QED
        BY <4>1
    <3>3. a \intersect part(k) = {}
      <4>1. \A l \in 1 .. k - 1 : l \in 1 .. n /\ l # k
        BY <1>1
      <4> QED
        BY <1>3, <4>1
    <3>4. rows[k] = rows[k - 1] + size(k)
      BY <1>9, <3>1
    <3> HIDE DEF a, Prefix
    <3>5. Cardinality(a) \in Nat
      BY <3>1, FS_CardinalityType
    <3>6. /\ IsFiniteSet(a \union part(k))
          /\ Cardinality(a \union part(k)) = Cardinality(a) + Cardinality(part(k)) - Cardinality({})
      BY <1>3, <3>1, <3>3, FS_Union
    <3>7. Cardinality(a \union part(k)) = rows[k]
      BY <1>3, <3>1, <3>4, <3>5, <3>6, FS_EmptySet
    <3> QED
      BY <3>1, <3>2, <3>6, <3>7
  <2> HIDE DEF T
  <2> QED
    BY <1>1, <2>1, <2>2, UpTo
<1> HIDE DEF Prefix
<1>11. Cardinality(Prefix(n)) = rows[n]
  BY <1>1, <1>10
<1> QED
  BY <1>2, <1>4, <1>11


-----------------------------------------------------------------------------
(* The invariant of a query.                                                *)

\* The cache lists the matching ones of the tables that the last scan saw.
CacheOK ==
  /\ state \in [cache : Seq(Nat), next_scan : Positions, generation : Nat]
  /\ state.next_scan = state.generation + 1
  /\ state.generation <= Len(archetypes.tables)
  /\ Lists(state.cache, state.generation)

CachedRows == RowsOf(archetypes.tables, state.cache)

\* Each row is in the bag once.
Once(bag) == bag = SetToBag(DOMAIN bag)

\* What is returned and what is left, in each phase.
RowsOK ==
  /\ Once(yielded)
  /\ phase \in {"new", "idle", "running"} =>
       iter = NoIter /\ producers = {} /\ yielded = EmptyBag
  /\ phase \in {"iterating", "exhausted"} =>
       producers = {} /\ Iterating(archetypes.tables, CachedRows, DOMAIN yielded, iter)
  /\ phase = "exhausted" /\ ~iter.reversed => iter.window.remaining = 0 /\ iter.rest = <<>>
  /\ phase = "parallel" => iter = NoIter /\ Producing(CachedRows, DOMAIN yielded, producers)

QueryInv ==
  /\ WorldInv
  /\ query \in QueryTypes
  /\ phase \in {"new", "idle", "running", "iterating", "exhausted", "parallel"}
  /\ CacheOK
  /\ phase \notin {"new", "idle"} => state.generation = archetypes.generation
  /\ RowsOK

\* The system does not touch the world, except that it may panic.
WorldKept ==
  /\ UNCHANGED <<entities, archetypes, released, query>>
  /\ panicked' = panicked \/ panicked' = TRUE

\* ... and a panic of the system leaves the world well formed.
LEMMA WorldKeptOK ==
  ASSUME WorldInv, query \in QueryTypes, WorldKept
  PROVE  WorldInv' /\ query' \in QueryTypes
<1>1. UNCHANGED <<entities, archetypes, released, query>> /\ panicked' \in BOOLEAN
  BY DEF WorldKept, WorldInv
<1> QED
  BY <1>1 DEF WorldInv, RegistryOK, ArchetypesOK, Placed

\* A cache that is not touched stays right while the world stays as it is.
LEMMA CacheKeptOK ==
  ASSUME CacheOK, WorldKept, UNCHANGED state
  PROVE  CacheOK' /\ CachedRows' = CachedRows /\ archetypes' = archetypes
<1>1. archetypes' = archetypes /\ query' = query /\ state' = state
  BY DEF WorldKept
<1> QED
  BY <1>1 DEF CacheOK, Lists, Matches, CachedRows

\* The number of tables, and the tables that the cache lists.
LEMMA CachedTables ==
  ASSUME WorldInv, CacheOK
  PROVE  /\ Len(archetypes.tables) \in Nat /\ archetypes.generation = Len(archetypes.tables)
         /\ TableList(archetypes.tables, state.cache)
<1> DEFINE ts == archetypes.tables
           c == state.cache
<1>1. ts \in Seq(TableValues) /\ archetypes.generation = Len(ts)
  BY DEF WorldInv, ArchetypesOK
<1>2. /\ c \in Seq(Nat) /\ IsInjective(c) /\ state.generation \in Nat
      /\ state.generation <= Len(ts) /\ ToSet(c) \subseteq 1 .. state.generation
  BY DEF CacheOK, Lists
<1> HIDE DEF ts, c
<1>3. Len(ts) \in Nat /\ DOMAIN ts = 1 .. Len(ts)
  BY <1>1
<1>4. ASSUME NEW k \in DOMAIN c
      PROVE  Whole(ts, c[k]) \in Windows
  <2>1. c[k] \in Nat /\ c[k] \in DOMAIN ts
    <3>1. c[k] \in ToSet(c)
      BY DEF ToSet
    <3> QED
      BY <1>2, <1>3, <3>1
  <2>2. ts[c[k]] \in TableValues
    BY <1>1, <2>1
  <2>3. Len(ts[c[k]].entities) \in Nat
    <3>1. ts[c[k]].entities \in Seq(Handles)
      BY <2>2, TableParts
    <3> QED
      BY <3>1
  <2> QED
    BY <2>1, <2>3 DEF Whole, Window, Windows
<1>5. TableList(ts, c)
  BY <1>2, <1>4 DEF TableList
<1> QED
  BY <1>1, <1>3, <1>5 DEF ts, c

\* A scan brings the cache up to date.
LEMMA CacheTablesOK ==
  ASSUME WorldInv, NEW s, s.next_scan \in Positions,
         s.next_scan - 1 <= Len(archetypes.tables), Lists(s.cache, s.next_scan - 1),
         state' = CacheTables(s), UNCHANGED <<archetypes, query>>
  PROVE  CacheOK' /\ state'.generation = archetypes'.generation
<1> DEFINE n == Len(archetypes.tables)
           c == Scanned(s)
<1>1. archetypes.generation = n /\ n \in Nat
  BY DEF WorldInv, ArchetypesOK
<1>2. Lists(c, n)
  BY <1>1, ScannedOK
<1>3. state' = [cache |-> c, next_scan |-> n + 1, generation |-> n]
  BY <1>1 DEF CacheTables
<1>4. c \in Seq(Nat)
  BY <1>2 DEF Lists
<1>5. archetypes' = archetypes /\ query' = query
  OBVIOUS
<1>6. /\ IsInjective(c)
      /\ ToSet(c) = {i \in 1 .. n : Matches(archetypes.tables[i].signature)}
  BY <1>2 DEF Lists
<1> HIDE DEF c
<1>7. \A i : Matches(archetypes.tables[i].signature)' <=> Matches(archetypes.tables[i].signature)
  BY <1>5 DEF Matches
<1>8. /\ state' \in [cache : Seq(Nat), next_scan : Positions, generation : Nat]
      /\ state'.cache = c /\ state'.next_scan = n + 1 /\ state'.generation = n
  BY <1>1, <1>3, <1>4 DEF Positions
<1>9. Len(archetypes'.tables) = n
  BY <1>5
<1> HIDE DEF n
<1>10. Lists(state.cache, state.generation)'
  BY <1>4, <1>6, <1>7, <1>8 DEF Lists
<1>11. CacheOK'
  BY <1>1, <1>8, <1>9, <1>10 DEF CacheOK
<1> QED
  BY <1>1, <1>5, <1>8, <1>11

\* A row is added to those returned.
LEMMA YieldOK ==
  ASSUME Once(yielded), NEW row, row \notin DOMAIN yielded, Yield(row)
  PROVE  Once(yielded') /\ DOMAIN yielded' = DOMAIN yielded \union {row}
<1> DEFINE D == DOMAIN yielded
           U == D \union {row}
<1>1. yielded = [r \in D |-> 1]
  BY DEF Once, SetToBag
<1>2. yielded' = [r \in U |-> (IF r \in D THEN yielded[r] ELSE 0)
                               + (IF r \in {row} THEN 1 ELSE 0)]
  BY DEF Yield, SetToBag, (+)
<1>3. \A r \in U : (IF r \in D THEN yielded[r] ELSE 0) + (IF r \in {row} THEN 1 ELSE 0) = 1
  BY <1>1
<1>4. yielded' = [r \in U |-> 1]
  BY <1>2, <1>3
<1> HIDE DEF U
<1>5. DOMAIN yielded' = U
  BY <1>4
<1> QED
  BY <1>4, <1>5 DEF Once, SetToBag, U


-----------------------------------------------------------------------------
(* The steps of a query.                                                    *)

\* A new query has an empty cache, which lists the matching ones of no tables.
LEMMA QueryInitOK == QueryInit => QueryInv
<1> SUFFICES ASSUME QueryInit
             PROVE  QueryInv
  OBVIOUS
<1>1. /\ Init /\ query \in QueryTypes /\ state = EmptyState /\ phase = "new"
      /\ iter = NoIter /\ producers = {} /\ yielded = EmptyBag
  BY DEF QueryInit
<1>2. WorldInv
  BY <1>1, WorldInitOK
<1>3. Lists(<<>>, 0)
  BY DEF Lists, ToSet, IsInjective
<1>4. CacheOK
  BY <1>1, <1>3 DEF CacheOK, EmptyState, Positions, Init, EmptyArchetypes
<1>5. Once(yielded)
  BY <1>1 DEF Once, EmptyBag, SetToBag
<1> QED
  BY <1>1, <1>2, <1>4, <1>5 DEF QueryInv, RowsOK

\* Between the runs of the system the world changes and the cache is kept: tables are
\* only added.
LEMMA WorldStepKeeps ==
  ASSUME QueryInv, WorldStep
  PROVE  QueryInv'
<1>1. /\ phase \in {"new", "idle"} /\ Next
      /\ UNCHANGED <<query, state, phase, iter, producers, yielded>>
  BY DEF WorldStep
<1>2. WorldInv /\ query \in QueryTypes /\ CacheOK /\ RowsOK
  BY DEF QueryInv
<1>3. WorldInv' /\ TablesKept(archetypes.tables, archetypes'.tables)
  BY <1>1, <1>2, WorldStepOK
<1>4. CacheOK'
  <2> DEFINE ts == archetypes.tables
             us == archetypes'.tables
             n == state.generation
  <2>1. ts \in Seq(TableValues) /\ us \in Seq(TableValues)
    BY <1>2, <1>3 DEF WorldInv, ArchetypesOK
  <2>2. n \in Nat /\ n <= Len(ts) /\ Lists(state.cache, n)
    BY <1>2 DEF CacheOK
  <2>3. \A i \in DOMAIN ts : i \in DOMAIN us /\ us[i].signature = ts[i].signature
    BY <1>3 DEF TablesKept
  <2>4. /\ Len(ts) \in Nat /\ Len(us) \in Nat
        /\ DOMAIN ts = 1 .. Len(ts) /\ DOMAIN us = 1 .. Len(us)
    BY <2>1
  <2> HIDE DEF ts, us
  <2>5. Len(ts) <= Len(us)
    BY <2>3, <2>4
  <2>6. \A i \in 1 .. n : us[i].signature = ts[i].signature
    BY <2>2, <2>3, <2>4
  <2>7. \A i \in 1 .. n : Matches(archetypes.tables[i].signature)'
                          <=> Matches(archetypes.tables[i].signature)
    BY <1>1, <2>6 DEF Matches, ts, us
  <2>8. Lists(state.cache, state.generation)'
    BY <1>1, <2>2, <2>7 DEF Lists
  <2>9. state' \in [cache : Seq(Nat), next_scan : Positions, generation : Nat]
        /\ state'.next_scan = state'.generation + 1 /\ state'.generation <= Len(us)
    BY <1>1, <1>2, <2>2, <2>4, <2>5 DEF CacheOK
  <2> QED
    BY <2>8, <2>9 DEF CacheOK, us
<1>5. RowsOK'
  BY <1>1, <1>2 DEF RowsOK
<1> QED
  BY <1>1, <1>2, <1>3, <1>4, <1>5 DEF QueryInv

\* A scan that finds no column for the query panics and leaves all else as it was.
LEMMA ScanFailsKeeps ==
  ASSUME QueryInv, Panic, UNCHANGED <<query, state, phase, iter, producers, yielded>>
  PROVE  QueryInv'
<1>1. WorldKept /\ UNCHANGED archetypes
  BY DEF WorldKept, Panic
<1>2. WorldInv' /\ query' \in QueryTypes
  BY <1>1, WorldKeptOK DEF QueryInv
<1>3. CacheOK' /\ CachedRows' = CachedRows
  BY <1>1, CacheKeptOK DEF QueryInv
<1>4. RowsOK'
  BY <1>1, <1>3 DEF QueryInv, RowsOK
<1> QED
  BY <1>1, <1>2, <1>3, <1>4 DEF QueryInv

\* The cache is built, and refreshed before each run.
LEMMA InitQueryKeeps ==
  ASSUME QueryInv, InitQuery, ~MissesColumn(EmptyState)
  PROVE  QueryInv'
<1>1. /\ phase = "new" /\ state' = CacheTables(EmptyState) /\ phase' = "idle"
      /\ UNCHANGED <<vars, query, iter, producers, yielded>>
  BY DEF InitQuery
<1>2. WorldInv /\ query \in QueryTypes /\ RowsOK /\ CacheOK
  BY DEF QueryInv
<1>3. WorldKept
  BY <1>1 DEF WorldKept, vars
<1>4. WorldInv' /\ query' \in QueryTypes
  BY <1>2, <1>3, WorldKeptOK
<1>5. /\ EmptyState.next_scan = 1 /\ EmptyState.next_scan \in Positions
      /\ EmptyState.next_scan - 1 = 0 /\ Len(archetypes.tables) \in Nat
      /\ EmptyState.cache = <<>>
  BY <1>2, CachedTables DEF EmptyState, Positions
<1>6. Lists(<<>>, 0)
  BY DEF Lists, ToSet, IsInjective
<1>7. UNCHANGED <<archetypes, query>>
  BY <1>1 DEF vars
<1>8. CacheOK'
  <2> DEFINE s == EmptyState
  <2>1. state' = CacheTables(s)
    BY <1>1
  <2>2. /\ s.next_scan \in Positions /\ s.next_scan - 1 <= Len(archetypes.tables)
        /\ Lists(s.cache, s.next_scan - 1)
    BY <1>5, <1>6
  <2> HIDE DEF s
  <2> QED
    BY <1>2, <1>7, <2>1, <2>2, CacheTablesOK
<1>9. RowsOK'
  BY <1>1, <1>2 DEF RowsOK
<1> QED
  BY <1>1, <1>4, <1>8, <1>9 DEF QueryInv

\* ... and the scan goes on where the last one ended.
LEMMA BeforeUpdateKeeps ==
  ASSUME QueryInv, BeforeUpdate,
         ~(state.generation # archetypes.generation /\ MissesColumn(state))
  PROVE  QueryInv'
<1>1. /\ phase = "idle" /\ phase' = "running"
      /\ state' = IF state.generation # archetypes.generation THEN CacheTables(state) ELSE state
      /\ UNCHANGED <<vars, query, iter, producers, yielded>>
  BY DEF BeforeUpdate
<1>2. WorldInv /\ query \in QueryTypes /\ RowsOK /\ CacheOK
  BY DEF QueryInv
<1>3. WorldKept /\ UNCHANGED <<archetypes, query>>
  BY <1>1 DEF WorldKept, vars
<1>4. WorldInv' /\ query' \in QueryTypes
  BY <1>2, <1>3, WorldKeptOK
<1>5. CacheOK' /\ state'.generation = archetypes'.generation
  <2>1. CASE state.generation = archetypes.generation
    BY <1>1, <1>2, <1>3, <2>1, CacheKeptOK
  <2>2. CASE state.generation # archetypes.generation
    <3>1. state' = CacheTables(state)
      BY <1>1, <2>2
    <3>2. /\ state.next_scan \in Positions /\ state.next_scan - 1 <= Len(archetypes.tables)
          /\ Lists(state.cache, state.next_scan - 1)
      <4>1. state.next_scan - 1 = state.generation
        BY <1>2 DEF CacheOK
      <4> QED
        BY <1>2, <4>1 DEF CacheOK
    <3> QED
      BY <1>2, <1>3, <3>1, <3>2, CacheTablesOK
  <2> QED
    BY <2>1, <2>2
<1>6. RowsOK'
  BY <1>1, <1>2 DEF RowsOK
<1> QED
  BY <1>1, <1>4, <1>5, <1>6 DEF QueryInv

\* In the other steps of the system, the cache is kept: what remains to be shown is
\* what becomes of the rows.
LEMMA RunKeeps ==
  ASSUME QueryInv, WorldKept, UNCHANGED state, RowsOK', phase \notin {"new", "idle"},
         phase' \in {"idle", "running", "iterating", "exhausted", "parallel"}
  PROVE  QueryInv'
<1>1. WorldInv' /\ query' \in QueryTypes
  BY WorldKeptOK DEF QueryInv
<1>2. CacheOK' /\ archetypes' = archetypes
  BY CacheKeptOK DEF QueryInv
<1>3. state'.generation = archetypes'.generation
  BY <1>2 DEF QueryInv
<1> QED
  BY <1>1, <1>2, <1>3 DEF QueryInv

\* When the system returns, its iterator is dropped.
LEMMA AfterUpdateKeeps ==
  ASSUME QueryInv, AfterUpdate
  PROVE  QueryInv'
<1>1. /\ phase \in {"running", "iterating", "exhausted", "parallel"} /\ producers' = {}
      /\ phase' = "idle" /\ iter' = NoIter /\ yielded' = EmptyBag
      /\ UNCHANGED <<vars, query, state>>
  BY DEF AfterUpdate
<1>2. WorldKept
  BY <1>1 DEF WorldKept, vars
<1>3. Once(yielded')
  BY <1>1 DEF Once, EmptyBag, SetToBag
<1>4. RowsOK'
  BY <1>1, <1>3 DEF RowsOK
<1> QED
  BY <1>1, <1>2, <1>4, RunKeeps

\* The iterator starts before the first cached table.
LEMMA IterKeeps ==
  ASSUME QueryInv, Iter
  PROVE  QueryInv'
<1> DEFINE c == state.cache
           ts == archetypes.tables
           start == [window |-> NoTable, rest |-> c, reversed |-> FALSE]
<1>1. /\ phase = "running" /\ phase' = "iterating"
      /\ iter' = IF c = <<>> THEN NoIter ELSE Jumped(start)
      /\ UNCHANGED <<vars, query, state, producers, yielded>>
  <2>1. [NoIter EXCEPT !.rest = c] = start
    <3> DEFINE none == NoIter
    <3>1. /\ none \in [window : {NoTable}, rest : {<<>>}, reversed : BOOLEAN]
          /\ none.window = NoTable /\ none.reversed = FALSE
      BY DEF NoIter
    <3> HIDE DEF none, c
    <3>2. [none EXCEPT !.rest = c] =
            [window |-> none.window, rest |-> c, reversed |-> none.reversed]
      BY <3>1
    <3> QED
      BY <3>1, <3>2 DEF none, start
  <2> QED
    BY <2>1 DEF Iter
<1>2. WorldInv /\ CacheOK /\ RowsOK
  BY DEF QueryInv
<1>3. WorldKept
  BY <1>1 DEF WorldKept, vars
<1>4. producers = {} /\ DOMAIN yielded = {} /\ Once(yielded)
  BY <1>1, <1>2 DEF RowsOK, EmptyBag, SetToBag
<1>5. TableList(ts, c)
  BY <1>2, CachedTables
<1>6. NoTable \in Windows /\ NoTable.remaining = 0
  BY DEF NoTable, Window, Windows
<1>7. start.window = NoTable /\ start.rest = c /\ start \in Iterators
  <2>1. c \in Seq(Nat)
    BY <1>5 DEF TableList
  <2> HIDE DEF c
  <2> QED
    BY <1>6, <2>1 DEF Iterators
<1> HIDE DEF start
<1>8. WindowRows(start.window) = {}
  BY <1>6, <1>7, EmptyWindow
<1>9. Iterating(ts, CachedRows, {}, start)
  BY <1>5, <1>7, <1>8 DEF Iterating, CachedRows
<1>10. Iterating(ts, CachedRows, {}, iter')
  <2>1. CASE c = <<>>
    <3>1. start = NoIter
      BY <2>1 DEF start, NoIter
    <3> QED
      BY <1>1, <1>9, <2>1, <3>1
  <2>2. CASE c # <<>>
    BY <1>1, <1>6, <1>7, <1>9, <2>2, JumpOK
  <2> QED
    BY <2>1, <2>2
<1>11. ts' = ts /\ CachedRows' = CachedRows
  BY <1>1, <1>2, <1>3, CacheKeptOK
<1>12. RowsOK'
  BY <1>1, <1>4, <1>10, <1>11 DEF RowsOK
<1> QED
  BY <1>1, <1>3, <1>12, RunKeeps


\* Iterator::next, from the front.
LEMMA NextItemKeeps ==
  ASSUME QueryInv, NextItem
  PROVE  QueryInv'
<1> DEFINE ts == archetypes.tables
           jumps == iter.window.remaining = 0 /\ iter.rest # <<>>
           at == IF jumps THEN Jumped(iter) ELSE iter
<1>1. /\ phase \in {"iterating", "exhausted"}
      /\ \/ /\ at.window.remaining > 0
            /\ Yield(First(at.window))
            /\ iter' = [at EXCEPT !.window = AfterFirst(at.window)]
            /\ phase' = "iterating"
            /\ UNCHANGED vars
         \/ /\ at.window.remaining = 0 /\ jumps
            /\ panicked' = TRUE
            /\ UNCHANGED <<entities, archetypes, released, phase, iter, yielded>>
         \/ /\ at.window.remaining = 0 /\ ~jumps
            /\ phase' = "exhausted"
            /\ UNCHANGED <<vars, iter, yielded>>
      /\ UNCHANGED <<query, state, producers>>
  BY DEF NextItem
<1>2. WorldInv /\ CacheOK /\ RowsOK
  BY DEF QueryInv
<1>3. WorldKept
  BY <1>1 DEF WorldKept, vars
<1>4. ts' = ts /\ CachedRows' = CachedRows
  BY <1>1, <1>2, <1>3, CacheKeptOK
<1>5. producers = {} /\ Once(yielded) /\ Iterating(ts, CachedRows, DOMAIN yielded, iter)
  BY <1>1, <1>2 DEF RowsOK
<1>6. Iterating(ts, CachedRows, DOMAIN yielded, at)
  BY <1>5, JumpOK
<1> DEFINE v == AfterFirst(at.window)
           new == [at EXCEPT !.window = v]
<1>7. CASE at.window.remaining > 0
  <2> HIDE DEF at
  <2>1. Yield(First(at.window)) /\ iter' = new /\ phase' = "iterating"
    <3>1. ~(at.window.remaining = 0)
      BY <1>7
    <3> QED
      BY <1>1, <3>1
  <2>2. at \in Iterators /\ at.window \in Windows
    BY <1>6 DEF Iterating, Iterators
  <2>3. /\ v \in Windows /\ First(at.window) \in WindowRows(at.window)
        /\ WindowRows(v) = WindowRows(at.window) \ {First(at.window)}
    BY <1>7, <2>2, TakeFirst
  <2> HIDE DEF v
  <2>4. new \in Iterators /\ new.window = v /\ new.rest = at.rest
    BY <2>2, <2>3 DEF Iterators
  <2> HIDE DEF new
  <2>5. /\ First(at.window) \notin DOMAIN yielded
        /\ Iterating(ts, CachedRows, DOMAIN yielded \union {First(at.window)}, new)
    BY <1>6, <2>3, <2>4, TakeOK
  <2>6. Once(yielded') /\ DOMAIN yielded' = DOMAIN yielded \union {First(at.window)}
    BY <1>5, <2>1, <2>5, YieldOK
  <2>7. RowsOK'
    BY <1>1, <1>4, <1>5, <2>1, <2>5, <2>6 DEF RowsOK
  <2> QED
    BY <1>1, <1>3, <2>1, <2>7, RunKeeps
<1>8. CASE at.window.remaining = 0 /\ jumps
  <2> HIDE DEF at, jumps
  <2>1. UNCHANGED <<phase, iter, yielded, producers, state>>
    BY <1>1, <1>8
  <2>2. RowsOK'
    BY <1>2, <1>4, <2>1 DEF RowsOK
  <2> QED
    BY <1>1, <1>3, <2>1, <2>2, RunKeeps
<1>9. CASE at.window.remaining = 0 /\ ~jumps
  <2>1. at = iter
    BY <1>9
  <2> HIDE DEF at
  <2>2. iter.window.remaining = 0 /\ iter.rest = <<>>
    BY <1>9, <2>1
  <2> HIDE DEF jumps
  <2>3. phase' = "exhausted" /\ UNCHANGED <<iter, yielded, producers, state>>
    BY <1>1, <1>9
  <2>4. RowsOK'
    BY <1>4, <1>5, <2>2, <2>3 DEF RowsOK
  <2> QED
    BY <1>1, <1>3, <2>3, <2>4, RunKeeps
<1> HIDE DEF at, jumps
<1> QED
  BY <1>1, <1>7, <1>8, <1>9

\* DoubleEndedIterator::next_back, from the end of the iterator's table.
LEMMA NextBackItemKeeps ==
  ASSUME QueryInv, NextBackItem
  PROVE  QueryInv'
<1> DEFINE ts == archetypes.tables
           row == LastRow(iter.window)
           v == BeforeLast(iter.window)
           new == [iter EXCEPT !.window = v, !.reversed = TRUE]
           ended == [iter EXCEPT !.reversed = TRUE]
<1>1. /\ phase = "iterating"
      /\ \/ /\ iter.window.remaining > 0
            /\ Yield(row) /\ iter' = new /\ phase' = phase
         \/ /\ iter.window.remaining = 0
            /\ iter' = ended /\ phase' = "exhausted" /\ yielded' = yielded
      /\ UNCHANGED <<vars, query, state, producers>>
  BY DEF NextBackItem
<1>2. WorldInv /\ CacheOK /\ RowsOK
  BY DEF QueryInv
<1>3. WorldKept
  BY <1>1 DEF WorldKept, vars
<1>4. ts' = ts /\ CachedRows' = CachedRows
  BY <1>1, <1>2, <1>3, CacheKeptOK
<1>5. producers = {} /\ Once(yielded) /\ Iterating(ts, CachedRows, DOMAIN yielded, iter)
  BY <1>1, <1>2 DEF RowsOK
<1>6. iter \in Iterators /\ iter.window \in Windows
  BY <1>5 DEF Iterating, Iterators
<1>7. CASE iter.window.remaining > 0
  <2>1. Yield(row) /\ iter' = new /\ phase' = "iterating"
    <3>1. ~(iter.window.remaining = 0)
      BY <1>7
    <3> HIDE DEF new, row
    <3> QED
      BY <1>1, <3>1
  <2>2. /\ v \in Windows /\ row \in WindowRows(iter.window)
        /\ WindowRows(v) = WindowRows(iter.window) \ {row}
    BY <1>6, <1>7, TakeLast
  <2> HIDE DEF v, row
  <2>3. new \in Iterators /\ new.window = v /\ new.rest = iter.rest
    BY <1>6, <2>2 DEF Iterators
  <2> HIDE DEF new
  <2>4. row \notin DOMAIN yielded /\ Iterating(ts, CachedRows, DOMAIN yielded \union {row}, new)
    BY <1>5, <2>2, <2>3, TakeOK
  <2>5. Once(yielded') /\ DOMAIN yielded' = DOMAIN yielded \union {row}
    BY <1>5, <2>1, <2>4, YieldOK
  <2>6. RowsOK'
    BY <1>1, <1>4, <1>5, <2>1, <2>4, <2>5 DEF RowsOK
  <2> QED
    BY <1>1, <1>3, <2>1, <2>6, RunKeeps
<1>8. CASE iter.window.remaining = 0
  <2>1. iter' = ended /\ phase' = "exhausted" /\ yielded' = yielded
    <3>1. ~(iter.window.remaining > 0)
      BY <1>8
    <3> HIDE DEF ended
    <3> QED
      BY <1>1, <3>1
  <2>2. /\ ended \in Iterators /\ ended.window = iter.window /\ ended.rest = iter.rest
        /\ ended.reversed = TRUE
    BY <1>6 DEF Iterators
  <2> HIDE DEF ended
  <2>3. Iterating(ts, CachedRows, DOMAIN yielded, ended)
    BY <1>5, <2>2 DEF Iterating
  <2>4. iter'.reversed
    BY <2>1, <2>2
  <2>5. RowsOK'
    BY <1>1, <1>4, <1>5, <2>1, <2>3, <2>4 DEF RowsOK
  <2> QED
    BY <1>1, <1>3, <2>1, <2>5, RunKeeps
<1> QED
  BY <1>1, <1>7, <1>8

\* A producer that has yet to return a row, and a window.
Fresh(w) == [window |-> w, folding |-> FALSE]

\* ... which it holds as it is.
LEMMA FreshOK ==
  ASSUME NEW w \in Windows
  PROVE  Fresh(w) \in Producers /\ Fresh(w).window = w
BY DEF Fresh, Producers

\* rayon's producers start with a cached table each.
LEMMA ParIterKeeps ==
  ASSUME QueryInv, ParIter
  PROVE  QueryInv'
<1> DEFINE ts == archetypes.tables
           c == state.cache
           new == {Fresh(Whole(ts, c[i])) : i \in DOMAIN c}
<1>1. /\ phase = "running" /\ phase' = "parallel" /\ producers' = new
      /\ UNCHANGED <<vars, query, state, iter, yielded>>
  BY DEF ParIter, WholeTable, Whole, RowCount, Fresh
<1>2. WorldInv /\ CacheOK /\ RowsOK
  BY DEF QueryInv
<1>3. WorldKept
  BY <1>1 DEF WorldKept, vars
<1>4. CachedRows' = CachedRows
  BY <1>1, <1>2, <1>3, CacheKeptOK
<1>5. iter = NoIter /\ DOMAIN yielded = {} /\ Once(yielded)
  BY <1>1, <1>2 DEF RowsOK, EmptyBag, SetToBag
<1>6. /\ IsInjective(c)
      /\ \A k \in DOMAIN c : Whole(ts, c[k]) \in Windows
  BY <1>2, CachedTables DEF TableList
<1> HIDE DEF c, ts
<1>7. new \subseteq Producers /\ \A i \in DOMAIN c : Fresh(Whole(ts, c[i])).window = Whole(ts, c[i])
  BY <1>6, FreshOK
<1>8. Held(new) = RowsOf(ts, c)
  <2>1. \A r : r \in Held(new) <=> \E i \in DOMAIN c : r \in WindowRows(Fresh(Whole(ts, c[i])).window)
    BY DEF Held
  <2>2. \A r : r \in RowsOf(ts, c) <=> \E i \in DOMAIN c : r \in WindowRows(Whole(ts, c[i]))
    BY DEF RowsOf
  <2> HIDE DEF new
  <2> QED
    BY <1>7, <2>1, <2>2
<1>9. HeldOnce(new)
  <2> SUFFICES ASSUME NEW p \in new, NEW q \in new, p # q
               PROVE  WindowRows(p.window) \intersect WindowRows(q.window) = {}
    BY DEF HeldOnce
  <2>1. PICK i \in DOMAIN c : p = Fresh(Whole(ts, c[i]))
    OBVIOUS
  <2>2. PICK j \in DOMAIN c : q = Fresh(Whole(ts, c[j]))
    OBVIOUS
  <2>3. c[i] # c[j]
    BY <2>1, <2>2
  <2>4. Whole(ts, c[i]).table = c[i] /\ Whole(ts, c[j]).table = c[j]
    BY DEF Whole, Window
  <2> QED
    BY <1>6, <1>7, <2>1, <2>2, <2>3, <2>4, TablesApart
<1> HIDE DEF new
<1>10. Producing(CachedRows, {}, new)
  BY <1>7, <1>8, <1>9 DEF Producing, CachedRows, c, ts
<1>11. RowsOK'
  BY <1>1, <1>4, <1>5, <1>10 DEF RowsOK
<1> QED
  BY <1>1, <1>3, <1>11, RunKeeps

\* A producer that still exists runs in the parallel phase.
LEMMA ProducerPhase ==
  ASSUME QueryInv, NEW p \in producers
  PROVE  /\ phase = "parallel" /\ iter = NoIter /\ Once(yielded) /\ p.window \in Windows
         /\ Producing(CachedRows, DOMAIN yielded, producers)
<1>1. phase = "parallel" /\ iter = NoIter /\ Once(yielded)
      /\ Producing(CachedRows, DOMAIN yielded, producers)
  BY DEF QueryInv, RowsOK
<1> QED
  BY <1>1 DEF Producing, Producers

\* UnindexedProducer::split divides a producer in two.
LEMMA SplitKeeps ==
  ASSUME QueryInv, NEW p \in producers, Split(p)
  PROVE  QueryInv'
<1> DEFINE qs == {Fresh(w) : w \in Halves(p.window)}
<1>1. /\ producers' = (producers \ {p}) \union qs
      /\ UNCHANGED <<vars, query, state, phase, iter, yielded>>
  BY DEF Split, Fresh
<1>2. /\ phase = "parallel" /\ iter = NoIter /\ Once(yielded) /\ p.window \in Windows
      /\ Producing(CachedRows, DOMAIN yielded, producers)
  BY ProducerPhase
<1>3. WorldKept /\ CacheOK
  BY <1>1 DEF WorldKept, vars, QueryInv
<1>4. CachedRows' = CachedRows
  BY <1>1, <1>3, CacheKeptOK
<1>5. /\ Halves(p.window) \subseteq Windows
      /\ UNION {WindowRows(v) : v \in Halves(p.window)} = WindowRows(p.window)
      /\ \A u, v \in Halves(p.window) : u # v => WindowRows(u) \intersect WindowRows(v) = {}
  BY <1>2, HalvesOK
<1>6. qs \in SUBSET Producers /\ \A v \in Halves(p.window) : Fresh(v).window = v
  BY <1>5, FreshOK
<1>7. Held(qs) = WindowRows(p.window)
  <2>1. \A r : r \in Held(qs) <=> \E v \in Halves(p.window) : r \in WindowRows(Fresh(v).window)
    BY DEF Held
  <2> HIDE DEF qs
  <2> QED
    BY <1>5, <1>6, <2>1
<1>8. HeldOnce(qs)
  BY <1>5, <1>6 DEF HeldOnce
<1> HIDE DEF qs
<1>9. WindowRows(p.window) = {} \union Held(qs) /\ {} \intersect Held(qs) = {}
  BY <1>7
<1>10. Producing(CachedRows, DOMAIN yielded, producers')
  <2> DEFINE all == CachedRows
             returned == DOMAIN yielded
             rest == (producers \ {p}) \union qs
  <2>1. Producing(all, returned \union {}, rest)
    <3>1. Producing(all, returned, producers)
      BY <1>2
    <3> HIDE DEF all, returned
    <3> QED
      BY <1>6, <1>8, <1>9, <3>1, ReplaceOK
  <2>2. returned \union {} = returned /\ producers' = rest
    BY <1>1
  <2> QED
    BY <2>1, <2>2
<1>11. RowsOK'
  BY <1>1, <1>2, <1>4, <1>10 DEF RowsOK
<1> QED
  BY <1>1, <1>2, <1>3, <1>11, RunKeeps

\* A producer returns its rows one after the other.
LEMMA FoldKeeps ==
  ASSUME QueryInv, NEW p \in producers, Fold(p)
  PROVE  QueryInv'
<1> DEFINE w == p.window
           row == First(w)
           new == [window |-> AfterFirst(w), folding |-> TRUE]
<1>1. /\ \/ /\ w.remaining > 0 /\ Yield(row)
            /\ producers' = (producers \ {p}) \union {new}
         \/ /\ w.remaining = 0 /\ producers' = producers \ {p} /\ yielded' = yielded
      /\ UNCHANGED <<vars, query, state, phase, iter>>
  BY DEF Fold
<1>2. /\ phase = "parallel" /\ iter = NoIter /\ Once(yielded) /\ w \in Windows
      /\ Producing(CachedRows, DOMAIN yielded, producers)
  BY ProducerPhase
<1>3. WorldKept /\ CacheOK
  BY <1>1 DEF WorldKept, vars, QueryInv
<1>4. CachedRows' = CachedRows
  BY <1>1, <1>3, CacheKeptOK
<1>5. CASE w.remaining > 0
  <2>1. Yield(row) /\ producers' = (producers \ {p}) \union {new}
    <3>1. ~(w.remaining = 0)
      BY <1>5
    <3> HIDE DEF new, row
    <3> QED
      BY <1>1, <3>1
  <2>2. /\ AfterFirst(w) \in Windows /\ row \in WindowRows(w)
        /\ WindowRows(AfterFirst(w)) = WindowRows(w) \ {row}
    BY <1>2, <1>5, TakeFirst
  <2> HIDE DEF row
  <2>3. {new} \in SUBSET Producers
    BY <2>2 DEF Producers
  <2>4. new.window = AfterFirst(w)
    OBVIOUS
  <2> HIDE DEF new
  <2>5. Held({new}) = WindowRows(w) \ {row} /\ HeldOnce({new})
    BY <2>2, <2>4 DEF Held, HeldOnce
  <2>6. WindowRows(w) = {row} \union Held({new}) /\ {row} \intersect Held({new}) = {}
    BY <2>2, <2>5
  <2>7. /\ Producing(CachedRows, DOMAIN yielded \union {row}, (producers \ {p}) \union {new})
        /\ {row} \intersect DOMAIN yielded = {}
    <3> DEFINE all == CachedRows
               returned == DOMAIN yielded
               rows == {row}
               qs == {new}
    <3>1. /\ Producing(all, returned, producers) /\ qs \in SUBSET Producers /\ HeldOnce(qs)
          /\ WindowRows(p.window) = rows \union Held(qs) /\ rows \intersect Held(qs) = {}
      BY <1>2, <2>3, <2>5, <2>6
    <3> HIDE DEF all, returned, rows, qs
    <3>2. /\ Producing(all, returned \union rows, (producers \ {p}) \union qs)
          /\ rows \intersect returned = {}
      BY <3>1, ReplaceOK
    <3> QED
      BY <3>2 DEF all, returned, rows, qs
  <2>8. Once(yielded') /\ DOMAIN yielded' = DOMAIN yielded \union {row}
    BY <1>2, <2>1, <2>7, YieldOK
  <2>9. RowsOK'
    BY <1>1, <1>2, <1>4, <2>1, <2>7, <2>8 DEF RowsOK
  <2> QED
    BY <1>1, <1>2, <1>3, <2>9, RunKeeps
<1>6. CASE w.remaining = 0
  <2>1. producers' = (producers \ {p}) \union {} /\ yielded' = yielded
    <3>1. ~(w.remaining > 0)
      BY <1>6
    <3> HIDE DEF new, row
    <3> QED
      BY <1>1, <3>1
  <2>2. WindowRows(w) = {} \union Held({}) /\ HeldOnce({})
    BY <1>2, <1>6, EmptyWindow DEF Held, HeldOnce
  <2>3. Producing(CachedRows, DOMAIN yielded \union {}, (producers \ {p}) \union {})
    BY <1>2, <2>2, ReplaceOK
  <2>4. Producing(CachedRows, DOMAIN yielded, producers')
    BY <2>1, <2>3
  <2>5. RowsOK'
    BY <1>1, <1>2, <1>4, <2>1, <2>4 DEF RowsOK
  <2> QED
    BY <1>1, <1>2, <1>3, <2>5, RunKeeps
<1> QED
  BY <1>1, <1>5, <1>6


\* Every step keeps the invariant, and it holds throughout.
LEMMA QueryStepOK ==
  ASSUME QueryInv, [QueryNext]_queryVars
  PROVE  QueryInv'
<1>1. CASE WorldStep
  BY <1>1, WorldStepKeeps
<1>2. CASE InitQuery
  <2>1. CASE MissesColumn(EmptyState)
    <3>1. Panic /\ UNCHANGED <<query, state, phase, iter, producers, yielded>>
      BY <1>2, <2>1 DEF InitQuery
    <3> QED
      BY <3>1, ScanFailsKeeps
  <2> QED
    BY <1>2, <2>1, InitQueryKeeps
<1>3. CASE BeforeUpdate
  <2>1. CASE state.generation # archetypes.generation /\ MissesColumn(state)
    <3>1. Panic /\ UNCHANGED <<query, state, phase, iter, producers, yielded>>
      BY <1>3, <2>1 DEF BeforeUpdate
    <3> QED
      BY <3>1, ScanFailsKeeps
  <2> QED
    BY <1>3, <2>1, BeforeUpdateKeeps
<1>4. CASE AfterUpdate
  BY <1>4, AfterUpdateKeeps
<1>5. CASE Iter
  BY <1>5, IterKeeps
<1>6. CASE NextItem
  BY <1>6, NextItemKeeps
<1>7. CASE NextBackItem
  BY <1>7, NextBackItemKeeps
<1>8. CASE ParIter
  BY <1>8, ParIterKeeps
<1>9. ASSUME NEW p \in producers, Split(p)
      PROVE  QueryInv'
  BY <1>9, SplitKeeps
<1>10. ASSUME NEW p \in producers, Fold(p)
       PROVE  QueryInv'
  BY <1>10, FoldKeeps
<1>11. CASE UNCHANGED queryVars
  <2>1. UNCHANGED <<vars, query, state, phase, iter, producers, yielded>>
    BY <1>11 DEF queryVars
  <2>2. WorldKept /\ UNCHANGED archetypes
    BY <2>1 DEF WorldKept, vars
  <2>3. WorldInv' /\ query' \in QueryTypes
    BY <2>2, WorldKeptOK DEF QueryInv
  <2>4. CacheOK' /\ CachedRows' = CachedRows
    BY <2>1, <2>2, CacheKeptOK DEF QueryInv
  <2>5. RowsOK'
    BY <2>1, <2>2, <2>4 DEF QueryInv, RowsOK
  <2> QED
    BY <2>1, <2>2, <2>3, <2>4, <2>5 DEF QueryInv
<1> QED
  BY <1>1, <1>2, <1>3, <1>4, <1>5, <1>6, <1>7, <1>8, <1>9, <1>10, <1>11 DEF QueryNext, SystemStep

\* The invariant holds throughout.
LEMMA QueryInvHolds == QuerySpec => []QueryInv
<1>1. QueryInit => QueryInv
  BY QueryInitOK
<1>2. QueryInv /\ [QueryNext]_queryVars => QueryInv'
  BY QueryStepOK
<1> QED
  BY <1>1, <1>2, PTL DEF QuerySpec

(* Every part of a query always has its type.                               *)
THEOREM QueriesTyped == QuerySpec => []QueryTypeOK
<1>1. ASSUME QueryInv
      PROVE  QueryTypeOK
  <2>1. TypeOK
    BY <1>1, WorldInvTypes DEF QueryInv
  <2>2. state \in [cache : Seq(Nat), next_scan : Nat \ {0}, generation : Nat]
    BY <1>1 DEF QueryInv, CacheOK, Positions
  <2>3. NoIter \in Iterators
    BY DEF NoIter, NoTable, Window, Windows, Iterators
  <2>4. iter \in Iterators /\ producers \subseteq Producers
    BY <1>1, <2>3 DEF QueryInv, RowsOK, Iterating, Producing
  <2>5. IsABag(yielded)
    BY <1>1 DEF QueryInv, RowsOK, Once, SetToBag, IsABag
  <2> QED
    BY <1>1, <2>1, <2>2, <2>4, <2>5 DEF QueryTypeOK, QueryInv, Iterators, Producers
<1> QED
  BY <1>1, QueryInvHolds, PTL

\* A cache of the current generation lists the tables that the query asks for.
LEMMA CurrentCache ==
  ASSUME SingleXors, QueryInv, state.generation = archetypes.generation
  PROVE  /\ IsInjective(state.cache) /\ ToSet(state.cache) = MatchingTables
         /\ MatchingRows = CachedRows
<1> DEFINE c == state.cache
           ts == archetypes.tables
<1>1. /\ Lists(c, state.generation) /\ Len(ts) = state.generation /\ ts \in Seq(TableValues)
  BY DEF QueryInv, CacheOK, WorldInv, ArchetypesOK
<1>2. DOMAIN ts = 1 .. state.generation
  BY <1>1
<1>3. IsInjective(c) /\ ToSet(c) = MatchingTables
  BY <1>1, <1>2, MatchingIsMatches DEF Lists
<1>4. \A r : r \in CachedRows <=> \E k \in DOMAIN c : r \in WindowRows(Whole(ts, c[k]))
  BY DEF CachedRows, RowsOf
<1>5. \A i : WholeTable(i) = Whole(ts, i)
  BY DEF WholeTable, Whole, RowCount
<1>6. \A r : r \in MatchingRows <=> \E i \in ToSet(c) : r \in WindowRows(Whole(ts, i))
  BY <1>3, <1>5 DEF MatchingRows
<1>7. \A i : i \in ToSet(c) <=> \E k \in DOMAIN c : c[k] = i
  BY DEF ToSet
<1> HIDE DEF c, ts
<1>8. MatchingRows = CachedRows
  BY <1>4, <1>6, <1>7
<1> QED
  BY <1>3, <1>8 DEF c

(* Where no Xor of filters holds more than one (filter.rs:310), a query whose  *)
(* generation is the archetypes' has cached exactly the tables that match it, *)
(* each once, whatever was added between its scans, and no system runs with   *)
(* an older cache (query.rs:224).                                             *)
THEOREM CacheIsCurrent ==
  ASSUME SingleXors
  PROVE  QuerySpec => []CacheCurrent
<1>1. ASSUME QueryInv
      PROVE  CacheCurrent
  BY <1>1, CurrentCache DEF CacheCurrent, QueryInv
<1> QED
  BY <1>1, QueryInvHolds, PTL

\* A row is in at most one of the tables that an iterator has yet to visit.
LEMMA CountAhead ==
  ASSUME NEW c, TableList(archetypes.tables, c), NEW row
  PROVE  Cardinality({k \in DOMAIN c : row \in WindowRows(WholeTable(c[k]))}) =
           IF row \in RowsOf(archetypes.tables, c) THEN 1 ELSE 0
<1> DEFINE ts == archetypes.tables
           K == {k \in DOMAIN c : row \in WindowRows(WholeTable(c[k]))}
<1>1. \A k \in DOMAIN c : WholeTable(c[k]) = Whole(ts, c[k])
  BY DEF WholeTable, Whole, RowCount
<1>2. CASE row \in RowsOf(ts, c)
  <2>1. PICK k \in DOMAIN c : row \in WindowRows(Whole(ts, c[k]))
    BY <1>2 DEF RowsOf
  <2>2. ASSUME NEW l \in K
        PROVE  l = k
    <3>1. Whole(ts, c[k]) \in Windows /\ Whole(ts, c[l]) \in Windows
      BY DEF TableList
    <3>2. Whole(ts, c[k]).table = c[k] /\ Whole(ts, c[l]).table = c[l]
      BY DEF Whole, Window
    <3>3. c[l] = c[k]
      BY <1>1, <2>1, <3>1, <3>2, TablesApart
    <3> QED
      BY <3>3 DEF TableList, IsInjective
  <2>3. K = {k}
    BY <1>1, <2>1, <2>2
  <2> HIDE DEF K
  <2> QED
    BY <1>2, <2>3, FS_Singleton DEF K
<1>3. CASE row \notin RowsOf(ts, c)
  <2>1. K = {}
    BY <1>1, <1>3 DEF RowsOf
  <2> HIDE DEF K
  <2> QED
    BY <1>3, <2>1, FS_EmptySet DEF K
<1> QED
  BY <1>2, <1>3

\* A row is held by at most one producer.
LEMMA CountHeld ==
  ASSUME NEW ps, HeldOnce(ps), NEW row
  PROVE  Cardinality({p \in ps : row \in WindowRows(p.window)}) = IF row \in Held(ps) THEN 1 ELSE 0
<1> DEFINE K == {p \in ps : row \in WindowRows(p.window)}
<1>1. CASE row \in Held(ps)
  <2>1. PICK p \in ps : row \in WindowRows(p.window)
    BY <1>1 DEF Held
  <2>2. K = {p}
    BY <2>1 DEF HeldOnce
  <2> HIDE DEF K
  <2> QED
    BY <1>1, <2>2, FS_Singleton DEF K
<1>2. CASE row \notin Held(ps)
  <2>1. K = {}
    BY <1>2 DEF Held
  <2> HIDE DEF K
  <2> QED
    BY <1>2, <2>1, FS_EmptySet DEF K
<1> QED
  BY <1>1, <1>2

(* Where no Xor holds more than one filter, however rows are taken from the    *)
(* two ends of the iterator (iter.rs:112, 155), and however rayon splits the *)
(* producers of a parallel iteration (par_iter.rs:42), every matching row has  *)
(* been returned once or is in one place from where it will be: no `&mut` is  *)
(* given out twice and no row is lost.                                        *)
THEOREM RowsAreAccounted ==
  ASSUME SingleXors
  PROVE  QuerySpec => []RowsAccounted
<1>1. ASSUME QueryInv
      PROVE  RowsAccounted
  <2> SUFFICES ASSUME phase \in {"iterating", "exhausted", "parallel"}
               PROVE  /\ \A row \in MatchingRows : Places(row) = 1
                      /\ BagToSet(yielded) \subseteq MatchingRows
                      /\ \A p \in producers : WindowRows(p.window) \subseteq MatchingRows
    BY DEF RowsAccounted
  <2> DEFINE ts == archetypes.tables
             D == DOMAIN yielded
  <2>1. MatchingRows = CachedRows
    BY <1>1, CurrentCache DEF QueryInv
  <2>2. RowsOK /\ Once(yielded)
    BY <1>1 DEF QueryInv, RowsOK
  <2>3. NoTable \in Windows /\ NoTable.remaining = 0
    BY DEF NoTable, Window, Windows
  <2>4. NoIter.window = NoTable /\ NoIter.rest = <<>>
    BY DEF NoIter
  <2>5. ASSUME NEW row
        PROVE  (IF BagIn(row, yielded) THEN yielded[row] ELSE 0) = IF row \in D THEN 1 ELSE 0
    BY <2>2 DEF Once, SetToBag, BagIn, BagToSet
  <2>6. CASE phase \in {"iterating", "exhausted"}
    <3>1. producers = {} /\ Iterating(ts, CachedRows, D, iter)
      BY <2>2, <2>6 DEF RowsOK
    <3>2. /\ CachedRows = D \union WindowRows(iter.window) \union RowsOf(ts, iter.rest)
          /\ D \intersect WindowRows(iter.window) = {}
          /\ D \intersect RowsOf(ts, iter.rest) = {}
          /\ WindowRows(iter.window) \intersect RowsOf(ts, iter.rest) = {}
          /\ TableList(ts, iter.rest)
      BY <3>1 DEF Iterating
    <3>3. ASSUME NEW row \in MatchingRows
          PROVE  Places(row) = 1
      <4>1. Cardinality({p \in producers : row \in WindowRows(p.window)}) = 0
        <5>1. {p \in producers : row \in WindowRows(p.window)} = {}
          BY <3>1
        <5> QED
          BY <5>1, FS_EmptySet
      <4>2. Cardinality({k \in DOMAIN iter.rest : row \in WindowRows(WholeTable(iter.rest[k]))}) =
              IF row \in RowsOf(ts, iter.rest) THEN 1 ELSE 0
        BY <3>2, CountAhead
      <4>3. Places(row) = (IF row \in D THEN 1 ELSE 0) + 0
                            + (IF row \in WindowRows(iter.window) THEN 1 ELSE 0)
                            + (IF row \in RowsOf(ts, iter.rest) THEN 1 ELSE 0)
        BY <2>5, <4>1, <4>2 DEF Places
      <4> QED
        BY <2>1, <3>2, <4>3
    <3> QED
      BY <2>1, <3>1, <3>2, <3>3 DEF BagToSet
  <2>7. CASE phase = "parallel"
    <3>1. iter = NoIter /\ Producing(CachedRows, D, producers)
      BY <2>2, <2>7 DEF RowsOK
    <3>2. /\ CachedRows = D \union Held(producers) /\ D \intersect Held(producers) = {}
          /\ HeldOnce(producers)
      BY <3>1 DEF Producing
    <3>3. ASSUME NEW row \in MatchingRows
          PROVE  Places(row) = 1
      <4>1. Cardinality({p \in producers : row \in WindowRows(p.window)}) =
              IF row \in Held(producers) THEN 1 ELSE 0
        BY <3>2, CountHeld
      <4>2. Cardinality({k \in DOMAIN iter.rest : row \in WindowRows(WholeTable(iter.rest[k]))}) = 0
        <5>1. {k \in DOMAIN iter.rest : row \in WindowRows(WholeTable(iter.rest[k]))} = {}
          BY <2>4, <3>1
        <5> QED
          BY <5>1, FS_EmptySet
      <4>3. row \notin WindowRows(iter.window)
        BY <2>3, <2>4, <3>1, EmptyWindow
      <4>4. Places(row) = (IF row \in D THEN 1 ELSE 0) + (IF row \in Held(producers) THEN 1 ELSE 0)
                            + 0 + 0
        BY <2>5, <4>1, <4>2, <4>3 DEF Places
      <4> QED
        BY <2>1, <3>2, <4>4
    <3>4. \A p \in producers : WindowRows(p.window) \subseteq CachedRows
      BY <3>2 DEF Held
    <3> QED
      BY <2>1, <3>2, <3>3, <3>4 DEF BagToSet
  <2> QED
    BY <2>6, <2>7
<1> QED
  BY <1>1, QueryInvHolds, PTL

(* Where no Xor holds more than one filter, the length of an iterator is the   *)
(* number of rows left, from whichever ends they are taken (iter.rs:147), and  *)
(* next() ends only when every matching row has been returned, unless rows    *)
(* were also taken from the back.                                             *)
THEOREM IterationIsComplete ==
  ASSUME SingleXors
  PROVE  QuerySpec => []IterationComplete
<1>1. ASSUME QueryInv
      PROVE  IterationComplete
  <2> DEFINE ts == archetypes.tables
             D == DOMAIN yielded
  <2>1. ASSUME phase \in {"iterating", "exhausted"}
        PROVE  MatchingRows = CachedRows /\ Iterating(ts, CachedRows, D, iter)
    <3>1. state.generation = archetypes.generation
      BY <1>1, <2>1 DEF QueryInv
    <3> QED
      BY <1>1, <2>1, <3>1, CurrentCache DEF QueryInv, RowsOK
  <2>2. ASSUME phase \in {"iterating", "exhausted"}
        PROVE  IterLen(iter) = Cardinality(MatchingRows \ BagToSet(yielded))
    BY <2>1, <2>2, LenOK DEF BagToSet
  <2>3. ASSUME phase = "exhausted", ~iter.reversed
        PROVE  BagToSet(yielded) = MatchingRows
    <3>1. iter.window.remaining = 0 /\ iter.rest = <<>>
      BY <1>1, <2>3 DEF QueryInv, RowsOK
    <3>2. MatchingRows = CachedRows /\ Iterating(ts, CachedRows, D, iter)
      BY <2>1, <2>3
    <3>3. iter.window \in Windows /\ CachedRows = D \union WindowRows(iter.window) \union RowsOf(ts, iter.rest)
      BY <3>2 DEF Iterating, Iterators
    <3>4. WindowRows(iter.window) = {}
      BY <3>1, <3>3, EmptyWindow
    <3>5. RowsOf(ts, iter.rest) = {}
      BY <3>1 DEF RowsOf
    <3> QED
      BY <3>2, <3>3, <3>4, <3>5 DEF BagToSet
  <2> QED
    BY <2>2, <2>3 DEF IterationComplete
<1> QED
  BY <1>1, QueryInvHolds, PTL
=============================================================================
