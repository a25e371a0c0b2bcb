------------------------------- MODULE World -------------------------------
(***************************************************************************)
(* World with its entity registry and its archetype tables: world.rs,      *)
(* entity/entity.rs and archetype/registry.rs, on top of the operators of  *)
(* EntityRegistry and Tables.  Every operation takes `&mut World`, so one  *)
(* operation is one step.  A table's pointer is its index in the           *)
(* append-only vector `tables`.                                            *)
(*                                                                         *)
(* The debug build is modelled.  An operation that panics leaves the state *)
(* it started from and ends the behaviour; what it wrote before it         *)
(* panicked is not modelled.                                               *)
(***************************************************************************)
EXTENDS Tables

CONSTANTS
  SpawnBundles, InsertBundles, RemoveBundles,  \* the bundles the callers use
  MaxHandles   \* bound on the handles that are ever issued

ASSUME WorldAssumption ==
  /\ SpawnBundles \union InsertBundles \union RemoveBundles \subseteq Bundles
  /\ MaxHandles \in Nat

VARIABLES
  entities,    \* World::entities
  archetypes,  \* World::archetypes
  released,    \* the component values that the last operation dropped and returned
  panicked

vars == <<entities, archetypes, released, panicked>>

EmptyArchetypes ==
  [generation |-> 0, tables |-> <<>>, lookup |-> [s \in {} |-> None]]

\* Mutant: a table is added and the generation is not updated.
InsertTableQuietly(a, t) ==
  [generation |-> a.generation,
   tables     |-> Append(a.tables, t),
   lookup     |-> Inserted(a.lookup, t.signature, Len(a.tables) + 1)]

InsertTable(a, t) ==
  [generation |-> a.generation + 1,
   tables     |-> Append(a.tables, t),
   lookup     |-> Inserted(a.lookup, t.signature, Len(a.tables) + 1)]

Known(sig) == sig \in DOMAIN archetypes.lookup

\* get_by_signature_mut, or insert_table when there is no such table.
FindOrInsert(sig, new) == IF Known(sig) THEN archetypes ELSE InsertTable(archetypes, new)

MetaOf(h) == GetMeta(entities, h)
TableOf(h) == archetypes.tables[MetaOf(h).table]

\* Mutant: some entity of the table has the components.
HasComponentsSomeRow(h, sig) ==
  \E i \in DOMAIN archetypes.tables :
    /\ sig \subseteq archetypes.tables[i].signature
    /\ archetypes.tables[i].entities # <<>>

HasComponents(h, sig) ==
  \E i \in DOMAIN archetypes.tables :
    /\ sig \subseteq archetypes.tables[i].signature
    /\ h \in ToSet(archetypes.tables[i].entities)

Panic == panicked' = TRUE /\ UNCHANGED <<entities, archetypes, released>>

Nothing == [dropped |-> {}, returned |-> {}]

-----------------------------------------------------------------------------
Init ==
  /\ entities = EmptyRegistry
  /\ archetypes = EmptyArchetypes
  /\ released = Nothing
  /\ panicked = FALSE

\* World::spawn.  insert_into expects a column for each component of the bundle.
Spawn(b) ==
  LET h     == AllocatedHandle(entities)
      found == FindOrInsert(Types(b), NewTable(b))
      i     == found.lookup[Types(b)]
      table == found.tables[i]
  IN  /\ MayAllocate(entities) /\ Cardinality(Issued(entities)) < MaxHandles
      /\ \/ /\ Types(b) \subseteq ColumnTypes(table)
            /\ archetypes' = [found EXCEPT !.tables = [@ EXCEPT ![i] = TableInsert(table, h, b)]]
            /\ entities' = SpawnMeta(Allocate(entities), Meta(h, i, Len(table.entities) + 1))
            /\ released' = Nothing
            /\ UNCHANGED panicked
         \/ /\ ~(Types(b) \subseteq ColumnTypes(table))
            /\ Panic

\* World::despawn: the row first, then the handle.
Despawn(h) ==
  LET i     == MetaOf(h).table
      table == TableOf(h)
  IN  /\ HasMeta(entities, h)
      /\ \/ /\ ~RemovePanics(table, h)
            /\ archetypes' = [archetypes EXCEPT !.tables = [@ EXCEPT ![i] = TableRemove(table, h)]]
            /\ entities' = DespawnMeta(RegistryAfterRemove(entities, table, h), h)
            /\ released' = [dropped |-> DroppedByRemove(table, h, TRUE), returned |-> {}]
            /\ UNCHANGED panicked
         \/ /\ RemovePanics(table, h)
            /\ Panic

\* EntityMut::insert.  The new row is copied, the old one removed, and only then
\* is the bundle written: the metadata takes its row from the first column, which
\* may be one that the bundle has yet to fill.
InsertBundle(h, b) ==
  LET meta   == MetaOf(h)
      src    == TableOf(h)
      joined == src.signature \union Types(b)
      found  == FindOrInsert(joined, NewJoinedTable(src, b))
      i      == found.lookup[joined]
      dst    == found.tables[i]
      copied == CopyRow(src, meta.row, AddEntity(dst, h))
      row    == Len(copied.columns[1].data)
      filled == InsertInto(copied, b, h)
      succeeds ==
        /\ Known(joined) \/ src.signature \intersect Types(b) = {}
        /\ Len(dst.columns) = Len(src.columns) + Len(b)
        /\ ColumnTypes(src) \union Types(b) \subseteq ColumnTypes(dst)
        /\ HasRow(src, ColumnTypes(src), meta.row)
        /\ ~RemovePanics(src, h)
        /\ row > 0
        /\ \A k, l \in DOMAIN filled.columns :
             Len(filled.columns[k].data) = Len(filled.columns[l].data)
  IN  \/ /\ succeeds
         /\ archetypes' = [found EXCEPT !.tables =
                             [@ EXCEPT ![i] = filled, ![meta.table] = TableRemove(src, h)]]
         /\ entities' = SetMeta(RegistryAfterRemove(entities, src, h), h.index, Meta(h, i, row))
         /\ released' = [dropped |-> DroppedByRemove(src, h, FALSE), returned |-> {}]
         /\ UNCHANGED panicked
      \/ /\ ~succeeds
         /\ Panic

\* EntityMut::remove.  The metadata is set before the old row is removed.
RemoveBundle(h, b) ==
  LET meta  == MetaOf(h)
      src   == TableOf(h)
      left  == src.signature \ Types(b)
      found == FindOrInsert(left, NewSubset(src, b))
      i     == found.lookup[left]
      dst   == found.tables[i]
      added == AddEntity(dst, h)
      moved == Meta(h, i, Len(added.entities))
      succeeds ==
        /\ HasRow(src, ColumnTypes(dst) \union Types(b), meta.row)
        /\ ~RemovePanics(src, h)
  IN  /\ Types(b) \subseteq src.signature
      /\ \/ /\ succeeds
            /\ archetypes' = [found EXCEPT !.tables =
                                [@ EXCEPT ![i] = CopyRow(src, meta.row, added),
                                          ![meta.table] = TableRemove(src, h)]]
            /\ entities' = RegistryAfterRemove(SetMeta(entities, h.index, moved), src, h)
            /\ released' = [dropped  |-> DroppedByRemove(src, h, FALSE),
                            returned |-> CopyFrom(src, b, meta.row)]
            /\ UNCHANGED panicked
         \/ /\ ~succeeds
            /\ Panic

Next ==
  /\ ~panicked
  /\ \/ \E b \in SpawnBundles : Spawn(b)
     \/ \E h \in Issued(entities) : Despawn(h)
     \/ \E h \in Live(entities), b \in InsertBundles : InsertBundle(h, b)
     \/ \E h \in Live(entities), b \in RemoveBundles : RemoveBundle(h, b)

Spec == Init /\ [][Next]_vars

-----------------------------------------------------------------------------
Residents(i) == ToSet(archetypes.tables[i].entities)

\* Type invariant.
TypeOK ==
  /\ entities \in Registries(Metas(Nat \ {0}, Nat))
  /\ archetypes.generation \in Nat
  /\ released \in [dropped : SUBSET (Components \X Handles), returned : SUBSET (Components \X Handles)]
  /\ \A i \in DOMAIN archetypes.tables :
       LET t == archetypes.tables[i]
       IN  /\ t.signature \subseteq Components
           /\ t.entities \in Seq(Handles)
           /\ DOMAIN t.entity_lookup \subseteq Handles
           /\ \A c \in DOMAIN t.columns :
                t.columns[c] \in [ty : Components, data : Seq(Handles)]
  /\ panicked \in BOOLEAN

\* Every entity lives in one row of one table, the one that its metadata names,
\* and no table keeps a dead entity: moving between tables neither loses nor
\* duplicates an entity, whatever sequence of operations moved it.  And entity_lookup
\* finds the row, after any number of swap_removes: Table::remove trusts it.
ResidesInOneTable ==
  /\ \A h \in Live(entities), i \in DOMAIN archetypes.tables :
       h \in Residents(i) <=> i = MetaOf(h).table
  /\ \A i \in DOMAIN archetypes.tables :
       LET t == archetypes.tables[i]
       IN  /\ IsInjective(t.entities)
           /\ Residents(i) \subseteq Live(entities)
           /\ \A r \in DOMAIN t.entities :
                t.entities[r] \in DOMAIN t.entity_lookup /\ t.entity_lookup[t.entities[r]] = r

\* archetype/registry.rs:24 "An archetype is a unique combination of components":
\* no two tables have one signature, `lookup` finds each table, and the generation
\* that query caches compare counts them.
OneTablePerArchetype ==
  /\ \A i \in DOMAIN archetypes.tables :
       /\ archetypes.tables[i].signature \in DOMAIN archetypes.lookup
       /\ archetypes.lookup[archetypes.tables[i].signature] = i
  /\ archetypes.generation = Len(archetypes.tables)

\* EntityRef::has scans the rows of every table: it answers for a live entity what
\* the signature of its table says, and FALSE for a dead one.
HasComponentsExact ==
  \A h \in Issued(entities), sig \in SUBSET Components \ {{}} :
    HasComponents(h, sig) <=> IsAlive(entities, h) /\ sig \subseteq TableOf(h).signature

-----------------------------------------------------------------------------
(* World as the map it promises to be.  By signature, an entity has the      *)
(* components that its table is for; by data, it has what the columns hold   *)
(* at its metadata's row.                                                    *)

ComponentsBySignature == [h \in Live(entities) |-> [c \in TableOf(h).signature |-> h]]

ComponentsByData ==
  [h \in Live(entities) |->
     [c \in ColumnTypes(TableOf(h)) |->
        IF MetaOf(h).row \in DOMAIN Column(TableOf(h), c)
        THEN Column(TableOf(h), c)[MetaOf(h).row] ELSE None]]

BySignature == INSTANCE EcsMap WITH
  issued <- Issued(entities), store <- ComponentsBySignature
ByData == INSTANCE EcsMap WITH
  issued <- Issued(entities), store <- ComponentsByData

\* Spawning, despawning, inserting and removing change which components the
\* entity has as a map would, and those of no other entity.
ImplementsMapBySignature == BySignature!Spec

\* entity.rs:101 "Row inside the `table` that stores this entity's components."
RowStoresComponents ==
  \A h \in Live(entities) :
    /\ MetaOf(h).row \in DOMAIN TableOf(h).entities
    /\ TableOf(h).entities[MetaOf(h).row] = h

\* table.rs:45 "Creates a new table with the columns of the components in `B` removed."
ColumnsMatchSignature ==
  \A i \in DOMAIN archetypes.tables :
    ColumnTypes(archetypes.tables[i]) = archetypes.tables[i].signature

\* table.rs:31 "The `entities` and `columnns` fields are perfectly aligned".
ColumnsAligned ==
  \A i \in DOMAIN archetypes.tables :
    LET t == archetypes.tables[i]
    IN  \A c \in DOMAIN t.columns : t.columns[c].data = t.entities

Sound == RowStoresComponents /\ ColumnsMatchSignature /\ ColumnsAligned

\* The two ways in which a move loses the row: the metadata that the removal of
\* the last row overwrites, the first column that the bundle has yet to fill; and
\* the table that a removal creates with the wrong columns.
RemoveMisplaces(h, b) ==
  LET src == TableOf(h)
  IN  \/ ~Known(src.signature \ Types(b))
      \/ Len(src.entities) > 1 /\ Last(src.entities) = h

InsertMisplaces(h, b) ==
  LET joined == TableOf(h).signature \union Types(b)
  IN  Known(joined)
        /\ archetypes.tables[archetypes.lookup[joined]].columns[1].ty \in Types(b)

SafeStep ==
  \/ \E b \in SpawnBundles : Spawn(b)
  \/ \E h \in Issued(entities) : Despawn(h)
  \/ \E h \in Live(entities), b \in InsertBundles :
       /\ TableOf(h).signature \intersect Types(b) = {}
       /\ ~InsertMisplaces(h, b)
       /\ InsertBundle(h, b)
  \/ \E h \in Live(entities), b \in RemoveBundles :
       ~RemoveMisplaces(h, b) /\ RemoveBundle(h, b)

ValuesOf(h) == {<<c, ComponentsByData[h][c]>> : c \in DOMAIN ComponentsByData[h]}
Values == UNION {ValuesOf(h) : h \in Live(entities)}

\* Apart from these, and from inserting a component that is already there (a
\* todo! in new_joined_table), every operation on a sound world succeeds, leaves
\* it sound and moves each component value where a map would have it: the
\* swap_removes and copies keep every row of every column with its entity.  Table::remove
\* forgets the values that were copied and drops the others: a value that leaves the map
\* is dropped or returned, not both, and one that stays is neither.
SafeStepsImplementMap ==
  [][Sound /\ ~panicked /\ SafeStep =>
       /\ Sound' /\ ~panicked'
       /\ ByData!Next
       /\ released'.dropped \union released'.returned = Values \ Values'
       /\ released'.dropped \intersect released'.returned = {}]_vars

=============================================================================
