------------------------------- MODULE Tables -------------------------------
(***************************************************************************)
(* An archetype table (crates/core/src/table/table.rs, column.rs) as       *)
(* operators on its value.  A table stores the entities that have exactly  *)
(* the components of its signature: one row per entity, one column per     *)
(* component type.  A component value is identified by the entity it was   *)
(* given to.  Signatures are sets of component types: with at most 64      *)
(* types a signature is one word, and equal sets are equal signatures.     *)
(***************************************************************************)
EXTENDS EntityRegistry, FiniteSets

CONSTANT Components  \* component types

\* The types of a program.
ASSUME TablesAssumption == IsFiniteSet(Components)

\* A bundle is a tuple of distinct component types.
Bundles == {b \in UNION {[1 .. n -> Components] : n \in 1 .. Cardinality(Components)} :
              IsInjective(b)}

Types(b) == ToSet(b)

\* HashMap::insert.
Inserted(map, k, x) == [j \in DOMAIN map \union {k} |-> IF j = k THEN x ELSE map[j]]

EmptyColumn(c) == [ty |-> c, data |-> <<>>]

WithData(col, data) == [col EXCEPT !.data = data]

\* ComponentBundle::new_table: the columns are in the order of the bundle.
NewTable(b) ==
  [signature |-> Types(b), entities |-> <<>>, entity_lookup |-> <<>>,
   columns |-> [i \in DOMAIN b |-> EmptyColumn(b[i])]]

\* ComponentBundle::new_joined_table: the columns of the base, then those of the
\* bundle.
NewJoinedTable(base, b) ==
  [NewTable(b) EXCEPT
     !.signature = @ \union base.signature,
     !.columns = [i \in DOMAIN base.columns |-> EmptyColumn(base.columns[i].ty)] \o @]

\* Table::new_subset: the columns that B::contains selects are the removed ones.
NewSubset(base, b) ==
  LET kept[n \in 0 .. Len(base.columns)] ==
        IF n = 0 THEN <<>>
        ELSE IF base.columns[n].ty \in Types(b)
             THEN Append(kept[n - 1], EmptyColumn(base.columns[n].ty))
             ELSE kept[n - 1]
  IN  [signature |-> base.signature \ Types(b), entities |-> <<>>, entity_lookup |-> <<>>,
       columns |-> kept[Len(base.columns)]]

ColumnTypes(t) == {t.columns[i].ty : i \in DOMAIN t.columns}

Column(t, c) == t.columns[CHOOSE i \in DOMAIN t.columns : t.columns[i].ty = c].data

-----------------------------------------------------------------------------
(* Rows coming in.                                                          *)

\* The entity is recorded in a new row; its components follow.
AddEntity(t, h) ==
  [t EXCEPT !.entities = Append(@, h),
            !.entity_lookup = Inserted(@, h, Len(t.entities) + 1)]

\* Column::push of values[c] on the column of every type c in DOMAIN values.
PushValues(t, values) ==
  [t EXCEPT !.columns =
     [i \in DOMAIN t.columns |->
        LET col == t.columns[i]
        IN  IF col.ty \in DOMAIN values
            THEN WithData(col, Append(col.data, values[col.ty])) ELSE col]]

InsertInto(t, b, h) == PushValues(t, [c \in Types(b) |-> h])

TableInsert(t, h, b) == InsertInto(AddEntity(t, h), b, h)

\* Mutant: the last row is copied, whichever row the entity is in.
CopyLastRow(src, row, dst) ==
  PushValues(dst, [c \in ColumnTypes(src) |-> Last(Column(src, c))])

\* Column::copy_component for every column that src shares with dst.
CopyRow(src, row, dst) ==
  PushValues(dst, [c \in ColumnTypes(src) |-> Column(src, c)[row]])

\* get_erased_ptr finds the row in every column of the given types.
HasRow(t, types, row) ==
  \A c \in types : c \in ColumnTypes(t) /\ row \in DOMAIN Column(t, c)

-----------------------------------------------------------------------------
(* Rows going out.  Table::remove, with its effect on the entity registry:  *)
(* the last row fills the hole, also when the last row is the hole.         *)

RemoveMovesRow(t, h) == h \in DOMAIN t.entity_lookup /\ Len(t.entities) > 1

LookupAfterRemove(t, h) ==
  LET rest == [k \in DOMAIN t.entity_lookup \ {h} |-> t.entity_lookup[k]]
  IN  IF RemoveMovesRow(t, h) THEN Inserted(rest, Last(t.entities), t.entity_lookup[h]) ELSE rest

ColumnSwapRemove(col, row) == WithData(col, SwapRemove(col.data, row))

TableRemove(t, h) ==
  IF h \notin DOMAIN t.entity_lookup THEN t
  ELSE LET row == t.entity_lookup[h]
       IN  [t EXCEPT !.entity_lookup = LookupAfterRemove(t, h),
                     !.entities = SwapRemove(@, row),
                     !.columns  = [i \in DOMAIN t.columns |-> ColumnSwapRemove(t.columns[i], row)]]

RegistryAfterRemove(e, t, h) ==
  IF RemoveMovesRow(t, h)
  THEN SetRowMeta(e, Last(t.entities).index, t.entity_lookup[h])
  ELSE e

\* The components that Column::swap_remove drops.  Mutant: those that were copied to
\* another table, or returned, are dropped as well.
DroppedAlways(t, h, should_drop) ==
  {<<c, Column(t, c)[t.entity_lookup[h]]>> :
     c \in IF h \in DOMAIN t.entity_lookup THEN ColumnTypes(t) ELSE {}}

DroppedByRemove(t, h, should_drop) ==
  {<<c, Column(t, c)[t.entity_lookup[h]]>> :
     c \in IF should_drop /\ h \in DOMAIN t.entity_lookup THEN ColumnTypes(t) ELSE {}}

\* ComponentBundle::copy_from: the components that a removal returns.
CopyFrom(t, b, row) == {<<c, Column(t, c)[row]>> : c \in Types(b)}

\* Column::swap_remove asserts that the row is in the column.
RemovePanics(t, h) ==
  /\ h \in DOMAIN t.entity_lookup
  /\ ~HasRow(t, ColumnTypes(t), t.entity_lookup[h])

=============================================================================
