--------------------------- MODULE EntityRegistry ---------------------------
(***************************************************************************)
(* The `Entities` registry of crates/core/src/entity/registry.rs, as       *)
(* operators on its value.  A registry is a record with the fields of the  *)
(* struct; each method that changes it is an operator that returns the     *)
(* registry after the call, so that a caller that makes several calls      *)
(* (World, Archetypes, Table) composes them in one step.                   *)
(*                                                                         *)
(* Vectors are sequences, so index i here is index i - 1 in the code, and  *)
(* None is 0, which is no index.                                           *)
(***************************************************************************)
EXTENDS Integers, SequencesExt

CONSTANTS
  GenerationCount,  \* number of values of an EntityGeneration: 2^32
  MaxEntities       \* bound on the number of indices ever created: 2^32 - 1

ASSUME RegistryAssumption ==
  /\ GenerationCount \in Nat \ {0}
  /\ MaxEntities \in Nat

None == 0
Generations == 0 .. GenerationCount - 1
Indices == 1 .. MaxEntities
Handles == [index : Indices, generation : Generations]
Metas(T, R) == [handle : Handles, table : T, row : R]

Registries(M) ==
  [next_id : 1 .. MaxEntities + 1, freelist : Seq(Indices),
   generations : Seq(Generations), dense : Seq(M), sparse : Seq(Nat)]

\* An Entity handle: an index that is recycled and a generation that tells
\* the uses of one index apart.
Handle(i, g) == [index |-> i, generation |-> g]

Meta(h, t, r) == [handle |-> h, table |-> t, row |-> r]

\* Vec::swap_remove: the last element takes the place of the removed one.
SwapRemove(s, i) == [j \in 1 .. Len(s) - 1 |-> s[IF j = i THEN Len(s) ELSE j]]

\* Vec::resize when it can only grow.
GrownTo(s, n, x) ==
  [i \in 1 .. (IF n > Len(s) THEN n ELSE Len(s)) |->
     IF i <= Len(s) THEN s[i] ELSE x]

EmptyRegistry ==
  [next_id |-> 1, freelist |-> <<>>, generations |-> <<>>,
   dense |-> <<>>, sparse |-> <<>>]

-----------------------------------------------------------------------------
(* allocate: the handle it returns, and the registry it leaves behind.      *)

Recycles(e) == e.freelist # <<>>

\* Mutant: a recycled index keeps its generation.
NextGenerationSame(g) == g

\* `+= 1` on a u32 wraps around in a release build.
NextGeneration(g) == IF g + 1 = GenerationCount THEN 0 ELSE g + 1

AllocatedHandle(e) ==
  IF Recycles(e)
  THEN Handle(Last(e.freelist), NextGeneration(e.generations[Last(e.freelist)]))
  ELSE Handle(e.next_id, 0)

\* Mutant: next_id also advances when an index is recycled.
AllocateAdvancing(e) ==
  IF Recycles(e)
  THEN [e EXCEPT !.freelist = Front(@),
                 !.next_id = @ + 1,
                 !.generations = [@ EXCEPT ![Last(e.freelist)] = AllocatedHandle(e).generation]]
  ELSE [e EXCEPT !.next_id = @ + 1, !.generations = Append(@, 0)]

\* Mutant: the recycled index stays in the freelist.
AllocatePeeking(e) ==
  IF Recycles(e)
  THEN [e EXCEPT !.generations = [@ EXCEPT ![Last(e.freelist)] = AllocatedHandle(e).generation]]
  ELSE [e EXCEPT !.next_id = @ + 1, !.generations = Append(@, 0)]

Allocate(e) ==
  IF Recycles(e)
  THEN [e EXCEPT !.freelist = Front(@),
                 !.generations = [@ EXCEPT ![Last(e.freelist)] = AllocatedHandle(e).generation]]
  ELSE [e EXCEPT !.next_id = @ + 1, !.generations = Append(@, 0)]

-----------------------------------------------------------------------------
(* The lookups.  is_alive indexes both vectors unchecked and panics for an  *)
(* index that was never created; no handle in Issued has one.               *)

CurrentGeneration(e, h) == e.generations[h.index] = h.generation

\* Mutant: the generation is not compared.
IsAliveByIndex(e, h) == e.sparse[h.index] # None

IsAlive(e, h) == e.sparse[h.index] # None /\ CurrentGeneration(e, h)

\* Mutant: the generation is not compared.
HasMetaByIndex(e, h) ==
  /\ h.index \in DOMAIN e.sparse
  /\ e.sparse[h.index] \in DOMAIN e.dense

\* get_meta returns Some: every index is bounds-checked, unlike in is_alive.
HasMeta(e, h) ==
  /\ h.index \in DOMAIN e.generations
  /\ CurrentGeneration(e, h)
  /\ h.index \in DOMAIN e.sparse
  /\ e.sparse[h.index] \in DOMAIN e.dense

GetMeta(e, h) == e.dense[e.sparse[h.index]]

AliveCount(e) == Len(e.sparse)

-----------------------------------------------------------------------------
(* What handles are out, and when the next one is new.                      *)

\* Every handle that allocate has returned, as long as no generation wrapped.
Issued(e) ==
  {h \in Handles : /\ h.index \in DOMAIN e.generations
                   /\ h.generation <= e.generations[h.index]}

Live(e) == {h \in Issued(e) : IsAlive(e, h)}

\* Bounds: indices stay below u32::MAX, and no index is reused so often that
\* its generation wraps.
MayAllocate(e) ==
  IF Recycles(e)
  THEN e.generations[Last(e.freelist)] + 1 < GenerationCount
  ELSE e.next_id <= MaxEntities

-----------------------------------------------------------------------------
(* The updates.                                                             *)

SpawnMeta(e, meta) ==
  LET grown == GrownTo(e.sparse, meta.handle.index, None)
  IN  [e EXCEPT !.dense  = Append(@, meta),
                !.sparse = [grown EXCEPT ![meta.handle.index] = Len(e.dense) + 1]]

\* Mutant: the sparse entry of the moved metadata does not follow it.
DespawnMetaUnlinked(e, h) ==
  IF ~IsAlive(e, h) THEN e
  ELSE [e EXCEPT !.freelist = Append(@, h.index),
                 !.dense  = SwapRemove(@, e.sparse[h.index]),
                 !.sparse = [@ EXCEPT ![h.index] = None]]

\* The last dense entry moves into the hole; its sparse entry must follow it.
DespawnMeta(e, h) ==
  IF ~IsAlive(e, h) THEN e
  ELSE LET hole  == e.sparse[h.index]
           dense == SwapRemove(e.dense, hole)
           freed == [e.sparse EXCEPT ![h.index] = None]
       IN  [e EXCEPT !.freelist = Append(@, h.index),
                     !.dense  = dense,
                     !.sparse = IF hole = Len(e.dense) THEN freed
                                ELSE [freed EXCEPT ![dense[hole].handle.index] = hole]]

\* Mutant: nothing is written.
SetMetaSkipped(e, index, meta) == e

\* set_row_meta and set_meta take an index and check no generation.
SetMeta(e, index, meta) ==
  IF index \in DOMAIN e.sparse /\ e.sparse[index] # None
  THEN [e EXCEPT !.dense = [@ EXCEPT ![e.sparse[index]] = meta]]
  ELSE e

SetRowMeta(e, index, row) ==
  LET old == e.dense[e.sparse[index]]
  IN  SetMeta(e, index, Meta(old.handle, old.table, row))

-----------------------------------------------------------------------------
(* What the four vectors say about each other between two calls of World.   *)

\* Every index ever created has a generation and a sparse slot.
VectorsAligned(e) ==
  /\ e.next_id = Len(e.generations) + 1
  /\ Len(e.sparse) = Len(e.generations)

DenseToSparse(e) ==
  \A d \in DOMAIN e.dense :
    LET h == e.dense[d].handle
    IN  /\ h.index \in DOMAIN e.sparse
        /\ e.sparse[h.index] = d
        /\ e.generations[h.index] = h.generation

SparseToDense(e) ==
  \A i \in DOMAIN e.sparse :
    e.sparse[i] # None =>
      /\ e.sparse[i] \in DOMAIN e.dense
      /\ e.dense[e.sparse[i]].handle.index = i

FreelistIsDead(e) ==
  \A f \in DOMAIN e.freelist :
    e.freelist[f] \in DOMAIN e.sparse /\ e.sparse[e.freelist[f]] = None

DeadIsFree(e) ==
  \A i \in DOMAIN e.sparse :
    e.sparse[i] = None => \E f \in DOMAIN e.freelist : e.freelist[f] = i

FreelistInjective(e) ==
  \A f, k \in DOMAIN e.freelist : e.freelist[f] = e.freelist[k] => f = k

WellFormed(e) ==
  /\ VectorsAligned(e)
  /\ DenseToSparse(e)
  /\ SparseToDense(e)
  /\ FreelistIsDead(e)
  /\ DeadIsFree(e)
  /\ FreelistInjective(e)

=============================================================================
