--------------------------- MODULE EntitiesProofs ---------------------------
(***************************************************************************)
(* What holds of the entity registry for every number of entities and of   *)
(* generations, every set of tables and rows.                              *)
(*                                                                         *)
(* First, lemmas about the methods of the registry: each keeps its type    *)
(* and the agreement of its four vectors (WellFormed), and says what it    *)
(* does to the set of live handles.  They are about any registry, so that  *)
(* WorldProofs uses them for World's.  Then the component: WellFormed is   *)
(* its inductive invariant, which each call preserves by one lemma.        *)
(***************************************************************************)
EXTENDS Entities, SequenceTheorems, TLAPS

\* The vector operations, as facts about lengths and elements.
LEMMA SwapRemoveVector ==
  ASSUME NEW S, NEW s \in Seq(S), NEW i \in 1 .. Len(s)
  PROVE  /\ SwapRemove(s, i) \in Seq(S)
         /\ Len(SwapRemove(s, i)) = Len(s) - 1
         /\ DOMAIN SwapRemove(s, i) = 1 .. Len(s) - 1
         /\ \A j \in 1 .. Len(s) - 1 :
              SwapRemove(s, i)[j] = IF j = i THEN s[Len(s)] ELSE s[j]
<1>1. SwapRemove(s, i) \in [1 .. Len(s) - 1 -> S]
  BY DEF SwapRemove
<1> QED
  BY <1>1 DEF SwapRemove

\* Vec::resize keeps what there is and fills up.
LEMMA GrownToVector ==
  ASSUME NEW S, NEW s \in Seq(S), NEW n \in Nat, NEW x \in S
  PROVE  /\ GrownTo(s, n, x) \in Seq(S)
         /\ Len(GrownTo(s, n, x)) = IF n > Len(s) THEN n ELSE Len(s)
         /\ \A j \in 1 .. Len(GrownTo(s, n, x)) :
              GrownTo(s, n, x)[j] = IF j <= Len(s) THEN s[j] ELSE x
<1> DEFINE m == IF n > Len(s) THEN n ELSE Len(s)
<1>1. m \in Nat /\ n <= m /\ Len(s) <= m
  OBVIOUS
<1>2. GrownTo(s, n, x) \in [1 .. m -> S]
  BY <1>1 DEF GrownTo
<1> QED
  BY <1>1, <1>2 DEF GrownTo

\* Vec::pop takes the last element off.
LEMMA FrontLastVector ==
  ASSUME NEW S, NEW s \in Seq(S), s # <<>>
  PROVE  /\ Len(s) >= 1
         /\ Last(s) = s[Len(s)]
         /\ Last(s) \in S
         /\ Front(s) \in Seq(S)
         /\ Len(Front(s)) = Len(s) - 1
         /\ \A j \in 1 .. Len(s) - 1 : Front(s)[j] = s[j]
<1>1. Len(s) \in Nat \ {0}
  BY EmptySeq
<1>2. Last(s) = s[Len(s)] /\ Last(s) \in S
  BY <1>1 DEF Last
<1>3. /\ 1 \in Int /\ Len(s) - 1 \in Int /\ 1 <= Len(s) - 1 + 1
      /\ \A i \in 1 .. Len(s) - 1 : s[i] \in S
  BY <1>1
<1>4. /\ SubSeq(s, 1, Len(s) - 1) \in Seq(S)
      /\ Len(SubSeq(s, 1, Len(s) - 1)) = Len(s) - 1
      /\ \A j \in 1 .. Len(s) - 1 : SubSeq(s, 1, Len(s) - 1)[j] = s[j]
  <2> DEFINE n == Len(s) - 1
  <2>1. n \in Int /\ \A i \in 1 .. n : s[i] \in S
    BY <1>3
  <2> HIDE DEF n
  <2>2. /\ SubSeq(s, 1, n) \in Seq(S)
        /\ Len(SubSeq(s, 1, n)) = IF 1 <= n THEN n - 1 + 1 ELSE 0
        /\ \A i \in 1 .. n - 1 + 1 : SubSeq(s, 1, n)[i] = s[1 + i - 1]
    BY <2>1, SubSeqProperties, Z3
  <2> DEFINE t == SubSeq(s, 1, n)
  <2> HIDE DEF t
  <2>3. n \in Nat
    BY <1>1 DEF n
  <2>4. t \in Seq(S) /\ Len(t) = n /\ \A j \in 1 .. n : t[j] = s[j]
    BY <2>2, <2>3 DEF t
  <2> QED
    BY <2>4, Zenon DEF t, n
<1> QED
  BY <1>1, <1>2, <1>4 DEF Front

(* Initially every vector is empty.                                         *)
LEMMA EmptyRegistryOK ==
  ASSUME NEW M
  PROVE  EmptyRegistry \in Registries(M) /\ WellFormed(EmptyRegistry)
BY RegistryAssumption
DEF EmptyRegistry, Registries, WellFormed, VectorsAligned, DenseToSparse, SparseToDense,
    FreelistIsDead, DeadIsFree, FreelistInjective

\* set_row_meta and set_meta write the metadata of the entity that has the
\* index already: a registry stays well formed if the handle is kept.
LEMMA SetMetaOK ==
  ASSUME NEW T, NEW R, NEW e \in Registries(Metas(T, R)), WellFormed(e),
         NEW h \in Handles, h.index \in DOMAIN e.sparse, IsAlive(e, h),
         NEW t \in T, NEW r \in R
  PROVE  /\ SetMeta(e, h.index, Meta(h, t, r)) \in Registries(Metas(T, R))
         /\ WellFormed(SetMeta(e, h.index, Meta(h, t, r)))
         /\ SetMeta(e, h.index, Meta(h, t, r)).generations = e.generations
         /\ SetMeta(e, h.index, Meta(h, t, r)).sparse = e.sparse
<1> DEFINE m == Meta(h, t, r)
           d == e.sparse[h.index]
           dense == [e.dense EXCEPT ![d] = m]
           f == SetMeta(e, h.index, m)
<1>1. d \in 1 .. Len(e.dense) /\ e.dense[d].handle.index = h.index
  BY DEF WellFormed, SparseToDense, IsAlive, Registries
<1>2. m \in Metas(T, R) /\ m.handle = h
  BY DEF Meta, Metas
<1>3. dense \in Seq(Metas(T, R)) /\ Len(dense) = Len(e.dense)
  BY <1>1, <1>2 DEF Registries
<1>4. f = [e EXCEPT !.dense = dense]
  BY DEF SetMeta, IsAlive
<1>5. f \in Registries(Metas(T, R))
  BY <1>3, <1>4 DEF Registries
<1>6. /\ f.dense = dense
      /\ f.generations = e.generations /\ f.sparse = e.sparse
      /\ f.next_id = e.next_id /\ f.freelist = e.freelist
  BY <1>4 DEF Registries
<1>7. \A k \in DOMAIN dense : /\ k \in DOMAIN e.dense
                              /\ dense[k].handle.index = e.dense[k].handle.index
                              /\ dense[k] = IF k = d THEN m ELSE e.dense[k]
  BY <1>1, <1>2, <1>3 DEF Registries
<1>8. DenseToSparse(f)
  <2> SUFFICES ASSUME NEW k \in DOMAIN dense
               PROVE  /\ dense[k].handle.index \in DOMAIN e.sparse
                      /\ e.sparse[dense[k].handle.index] = k
                      /\ e.generations[dense[k].handle.index] = dense[k].handle.generation
    BY <1>6 DEF DenseToSparse
  <2>1. CASE k = d
    BY <2>1, <1>7, <1>2, <1>1 DEF IsAlive, CurrentGeneration
  <2>2. CASE k # d
    BY <2>2, <1>7 DEF WellFormed, DenseToSparse
  <2> QED
    BY <2>1, <2>2
<1>9. SparseToDense(f)
  BY <1>3, <1>6, <1>7 DEF WellFormed, SparseToDense, Registries
<1> QED
  BY <1>5, <1>6, <1>8, <1>9
  DEF WellFormed, VectorsAligned, FreelistIsDead, DeadIsFree, FreelistInjective

\* allocate: the handle it returns has an index that no live entity uses and a
\* generation that the index never had.
LEMMA AllocateOK ==
  ASSUME NEW M, NEW e \in Registries(M), WellFormed(e), MayAllocate(e)
  PROVE  LET h == AllocatedHandle(e)
             a == Allocate(e)
         IN  /\ h \in Handles
             /\ a \in Registries(M)
             /\ a.dense = e.dense /\ a.sparse = e.sparse
             /\ a.next_id = Len(a.generations) + 1
             /\ Len(e.generations) <= Len(a.generations)
             /\ h.index \in 1 .. Len(a.generations)
             /\ a.generations[h.index] = h.generation
             /\ \A i \in 1 .. Len(a.generations) :
                  i # h.index => /\ i \in 1 .. Len(e.generations)
                                 /\ a.generations[i] = e.generations[i]
             /\ h.index \in 1 .. Len(e.generations) =>
                  /\ e.sparse[h.index] = None
                  /\ h.generation = e.generations[h.index] + 1
             /\ h.index \notin 1 .. Len(e.generations) => h.generation = 0
             /\ \A k \in 1 .. Len(a.freelist) :
                  /\ k \in 1 .. Len(e.freelist)
                  /\ a.freelist[k] = e.freelist[k]
                  /\ a.freelist[k] # h.index
             /\ \A k \in 1 .. Len(e.freelist) :
                  e.freelist[k] # h.index => k \in 1 .. Len(a.freelist)
<1> DEFINE h == AllocatedHandle(e)
           a == Allocate(e)
<1>0. /\ e.freelist \in Seq(Indices) /\ e.generations \in Seq(Generations)
      /\ e.sparse \in Seq(Nat) /\ Len(e.sparse) = Len(e.generations)
      /\ e.next_id = Len(e.generations) + 1
  BY DEF Registries, WellFormed, VectorsAligned
<1>1. CASE Recycles(e)
  <2> DEFINE id == Last(e.freelist)
             front == Front(e.freelist)
             gens == [e.generations EXCEPT ![id] = h.generation]
  <2>1. /\ Len(e.freelist) >= 1
        /\ id = e.freelist[Len(e.freelist)] /\ id \in Indices
        /\ front \in Seq(Indices) /\ Len(front) = Len(e.freelist) - 1
        /\ \A f \in 1 .. Len(e.freelist) - 1 : front[f] = e.freelist[f]
    BY <1>0, <1>1, FrontLastVector DEF Recycles
  <2>2. id \in DOMAIN e.sparse /\ e.sparse[id] = None
    BY <1>0, <2>1 DEF WellFormed, FreelistIsDead
  <2>3. id \in 1 .. Len(e.generations)
    BY <1>0, <2>2
  <2>4. /\ e.generations[id] \in Generations
        /\ NextGeneration(e.generations[id]) = e.generations[id] + 1
        /\ e.generations[id] + 1 \in Generations
    <3>1. e.generations[id] \in Generations
      BY <1>0, <2>3
    <3>2. NextGeneration(e.generations[id]) = e.generations[id] + 1
      BY <1>1, <3>1 DEF MayAllocate, NextGeneration, Generations
    <3>3. NextGeneration(e.generations[id]) \in Generations
      BY <1>1, <3>1, RegistryAssumption DEF MayAllocate, NextGeneration, Generations
    <3> QED
      BY <3>1, <3>2, <3>3
  <2>5. h = Handle(id, e.generations[id] + 1)
    BY <1>1, <2>4 DEF AllocatedHandle, Handle
  <2>6. h \in Handles /\ h.index = id /\ h.generation = e.generations[id] + 1
    BY <2>1, <2>4, <2>5 DEF Handle, Handles
  <2>7. gens \in Seq(Generations) /\ Len(gens) = Len(e.generations)
    BY <1>0, <2>3, <2>4, <2>6
  <2>8. a = [e EXCEPT !.freelist = front, !.generations = gens]
    BY <1>1 DEF Allocate
  <2>9. \A i \in 1 .. Len(e.generations) :
           gens[i] = IF i = id THEN h.generation ELSE e.generations[i]
    BY <1>0, <2>3
  <2>10. /\ a \in Registries(M)
         /\ a.generations = gens /\ a.freelist = front
         /\ a.dense = e.dense /\ a.sparse = e.sparse /\ a.next_id = e.next_id
    <3> HIDE DEF gens, front
    <3> QED
      BY <2>1, <2>7, <2>8 DEF Registries
  <2>11. \A k \in 1 .. Len(e.freelist) : e.freelist[k] = id => k = Len(e.freelist)
    BY <1>0, <2>1 DEF WellFormed, FreelistInjective
  <2>12. /\ Len(e.freelist) \in Nat /\ Len(e.generations) \in Nat
    BY <1>0
  <2> HIDE DEF id, front, gens, h, a
  <2>13. /\ \A k \in 1 .. Len(front) :
              k \in 1 .. Len(e.freelist) /\ front[k] = e.freelist[k] /\ front[k] # id
         /\ \A k \in 1 .. Len(e.freelist) : e.freelist[k] # id => k \in 1 .. Len(front)
    BY <2>1, <2>11, <2>12
  <2>14. /\ \A k \in 1 .. Len(a.freelist) :
              /\ k \in 1 .. Len(e.freelist)
              /\ a.freelist[k] = e.freelist[k]
              /\ a.freelist[k] # h.index
         /\ \A k \in 1 .. Len(e.freelist) :
              e.freelist[k] # h.index => k \in 1 .. Len(a.freelist)
    BY <2>6, <2>10, <2>13
  <2>15. /\ h.index \in 1 .. Len(e.generations)
         /\ e.sparse[h.index] = None
         /\ h.generation = e.generations[h.index] + 1
    BY <2>2, <2>3, <2>6
  <2>16. /\ a.next_id = Len(a.generations) + 1
         /\ Len(e.generations) <= Len(a.generations)
         /\ h.index \in 1 .. Len(a.generations)
         /\ a.generations[h.index] = h.generation
         /\ \A i \in 1 .. Len(a.generations) :
             i # h.index => /\ i \in 1 .. Len(e.generations)
                            /\ a.generations[i] = e.generations[i]
    BY <1>0, <2>3, <2>6, <2>7, <2>9, <2>10, <2>12
  <2> QED
    BY <2>6, <2>10, <2>14, <2>15, <2>16 DEF h, a
<1>2. CASE ~Recycles(e)
  <2> DEFINE gens == Append(e.generations, 0)
  <2>1. e.next_id \in Indices
    BY <1>0, <1>2 DEF MayAllocate, Registries, Indices
  <2>2. 0 \in Generations
    BY RegistryAssumption DEF Generations
  <2>3. /\ gens \in Seq(Generations) /\ Len(gens) = Len(e.generations) + 1
        /\ gens[Len(e.generations) + 1] = 0
        /\ \A i \in 1 .. Len(e.generations) : gens[i] = e.generations[i]
    BY <1>0, <2>2
  <2>4. a = [e EXCEPT !.next_id = e.next_id + 1, !.generations = gens]
    BY <1>2 DEF Allocate
  <2>5. /\ a \in Registries(M)
        /\ a.generations = gens /\ a.freelist = e.freelist
        /\ a.dense = e.dense /\ a.sparse = e.sparse /\ a.next_id = e.next_id + 1
    <3>1. e.next_id + 1 \in 1 .. MaxEntities + 1
      BY <2>1, RegistryAssumption DEF Indices
    <3> HIDE DEF gens
    <3> QED
      BY <2>3, <2>4, <3>1 DEF Registries
  <2>6. h \in Handles /\ h.index = e.next_id /\ h.generation = 0
    BY <1>2, <2>1, <2>2 DEF AllocatedHandle, Handle, Handles
  <2>7. Len(e.freelist) = 0 /\ Len(e.generations) \in Nat
    BY <1>0, <1>2 DEF Recycles
  <2> HIDE DEF gens, h, a
  <2>8. /\ Len(gens) = Len(e.generations) + 1 /\ gens[h.index] = 0
        /\ h.index = Len(e.generations) + 1
        /\ \A i \in 1 .. Len(gens) :
             i # h.index => /\ i \in 1 .. Len(e.generations)
                            /\ gens[i] = e.generations[i]
    BY <1>0, <2>3, <2>6, <2>7
  <2>9. /\ h.index \notin 1 .. Len(e.generations)
        /\ a.next_id = Len(gens) + 1 /\ Len(e.generations) <= Len(gens)
        /\ h.index \in 1 .. Len(gens)
    BY <1>0, <2>5, <2>7, <2>8
  <2>10. \A k \in 1 .. Len(e.freelist) : FALSE
    BY <2>7
  <2>11. /\ a.next_id = Len(a.generations) + 1
         /\ Len(e.generations) <= Len(a.generations)
         /\ h.index \in 1 .. Len(a.generations)
         /\ a.generations[h.index] = h.generation
         /\ \A i \in 1 .. Len(a.generations) :
             i # h.index => /\ i \in 1 .. Len(e.generations)
                            /\ a.generations[i] = e.generations[i]
    BY <2>5, <2>6, <2>8, <2>9
  <2>12. /\ \A k \in 1 .. Len(a.freelist) : FALSE
         /\ \A k \in 1 .. Len(e.freelist) : FALSE
    BY <2>5, <2>10
  <2> QED
    BY <2>5, <2>6, <2>9, <2>11, <2>12 DEF h, a
<1> QED
  BY <1>1, <1>2

(* A spawned entity gets a slot of its own, and the others keep theirs.     *)
LEMMA SpawnOK ==
  ASSUME NEW T, NEW R, NEW e \in Registries(Metas(T, R)), WellFormed(e), MayAllocate(e),
         NEW t \in T, NEW r \in R
  PROVE  LET h == AllocatedHandle(e)
             f == SpawnMeta(Allocate(e), Meta(h, t, r))
         IN  /\ f \in Registries(Metas(T, R))
             /\ WellFormed(f)
             /\ f.generations = Allocate(e).generations
             /\ f.sparse[h.index] # None
             /\ \A i \in 1 .. Len(e.generations) : i # h.index => f.sparse[i] = e.sparse[i]
<1> DEFINE h == AllocatedHandle(e)
           a == Allocate(e)
           m == Meta(h, t, r)
           f == SpawnMeta(a, m)
           n == Len(e.dense) + 1
           grown == GrownTo(e.sparse, h.index, None)
           sparse == [grown EXCEPT ![h.index] = n]
           dense == Append(e.dense, m)
           gens == a.generations
           free == a.freelist
<1>1. /\ h \in Handles
      /\ a \in Registries(Metas(T, R))
      /\ a.dense = e.dense /\ a.sparse = e.sparse
      /\ a.next_id = Len(gens) + 1
  BY AllocateOK
<1>2. /\ Len(e.generations) <= Len(gens)
      /\ h.index \in 1 .. Len(gens)
      /\ gens[h.index] = h.generation
      /\ \A i \in 1 .. Len(gens) :
           i # h.index => /\ i \in 1 .. Len(e.generations)
                          /\ gens[i] = e.generations[i]
      /\ h.index \in 1 .. Len(e.generations) => e.sparse[h.index] = None
  BY AllocateOK
<1>3. /\ \A k \in 1 .. Len(free) :
           /\ k \in 1 .. Len(e.freelist)
           /\ free[k] = e.freelist[k]
           /\ free[k] # h.index
      /\ \A k \in 1 .. Len(e.freelist) : e.freelist[k] # h.index => k \in 1 .. Len(free)
  BY AllocateOK
<1>4. /\ e.sparse \in Seq(Nat) /\ e.dense \in Seq(Metas(T, R))
      /\ e.freelist \in Seq(Indices) /\ free \in Seq(Indices)
      /\ gens \in Seq(Generations) /\ e.generations \in Seq(Generations)
      /\ a.next_id \in 1 .. MaxEntities + 1
      /\ Len(e.sparse) = Len(e.generations)
  BY <1>1 DEF Registries, WellFormed, VectorsAligned
<1> HIDE DEF h, a, gens, free
<1>5. /\ h.index \in Nat \ {0}
      /\ Len(gens) = IF h.index > Len(e.generations) THEN h.index ELSE Len(e.generations)
  <2>1. Len(gens) \in Nat /\ Len(e.generations) \in Nat
    BY <1>4
  <2>2. h.index < Len(gens) => Len(gens) \in 1 .. Len(e.generations)
    BY <1>2, <2>1
  <2> QED
    BY <1>2, <2>1, <2>2
<1>6. /\ grown \in Seq(Nat) /\ Len(grown) = Len(gens)
      /\ \A i \in 1 .. Len(gens) :
           grown[i] = IF i <= Len(e.generations) THEN e.sparse[i] ELSE None
  <2>1. None \in Nat /\ h.index \in Nat /\ e.sparse \in Seq(Nat)
    BY <1>4, <1>5 DEF None
  <2>2. /\ grown \in Seq(Nat)
        /\ Len(grown) = IF h.index > Len(e.sparse) THEN h.index ELSE Len(e.sparse)
        /\ \A i \in 1 .. Len(grown) :
             grown[i] = IF i <= Len(e.sparse) THEN e.sparse[i] ELSE None
    <3> DEFINE x == h.index
               v == e.sparse
    <3>1. x \in Nat /\ v \in Seq(Nat)
      BY <2>1
    <3> HIDE DEF x, v
    <3>2. /\ GrownTo(v, x, None) \in Seq(Nat)
          /\ Len(GrownTo(v, x, None)) = IF x > Len(v) THEN x ELSE Len(v)
          /\ \A i \in 1 .. Len(GrownTo(v, x, None)) :
               GrownTo(v, x, None)[i] = IF i <= Len(v) THEN v[i] ELSE None
      BY <2>1, <3>1, GrownToVector, Z3
    <3> QED
      BY <3>2, Zenon DEF x, v, grown
  <2> HIDE DEF grown
  <2> QED
    BY <1>4, <1>5, <2>2
<1> HIDE DEF grown
<1>7. /\ sparse \in Seq(Nat) /\ Len(sparse) = Len(gens)
      /\ \A i \in 1 .. Len(gens) :
           sparse[i] = IF i = h.index THEN n
                       ELSE IF i <= Len(e.generations) THEN e.sparse[i] ELSE None
  <2>1. n \in Nat /\ Len(gens) \in Nat /\ h.index \in 1 .. Len(gens)
    BY <1>2, <1>4
  <2> HIDE DEF n
  <2>2. /\ sparse \in Seq(Nat) /\ Len(sparse) = Len(grown)
        /\ \A i \in 1 .. Len(grown) : sparse[i] = IF i = h.index THEN n ELSE grown[i]
    BY <1>6, <2>1
  <2> HIDE DEF sparse
  <2> QED
    BY <1>6, <2>1, <2>2
<1> HIDE DEF sparse
<1>8. m \in Metas(T, R) /\ m.handle = h
  BY <1>1 DEF Meta, Metas
<1> HIDE DEF m
<1>9. /\ dense \in Seq(Metas(T, R)) /\ Len(dense) = n /\ dense[n] = m
      /\ \A d \in 1 .. n : d # n => dense[d] = e.dense[d]
  BY <1>4, <1>8
<1> HIDE DEF dense
<1>10. f = [a EXCEPT !.dense = dense, !.sparse = sparse]
  BY <1>1, <1>8 DEF SpawnMeta, dense, sparse, grown
<1>11. /\ f \in Registries(Metas(T, R))
       /\ f.dense = dense /\ f.sparse = sparse /\ f.generations = gens
       /\ f.freelist = free /\ f.next_id = a.next_id
  BY <1>1, <1>7, <1>9, <1>10 DEF Registries, gens, free
<1> HIDE DEF f
(* From here on a vector is a function on 1 .. its length.                  *)
<1>12. /\ Len(gens) \in Nat /\ Len(e.generations) \in Nat
       /\ DOMAIN e.sparse = 1 .. Len(e.generations)
       /\ Len(e.dense) \in Nat /\ DOMAIN e.dense = 1 .. Len(e.dense)
       /\ Len(free) \in Nat /\ DOMAIN free = 1 .. Len(free)
       /\ Len(e.freelist) \in Nat /\ DOMAIN e.freelist = 1 .. Len(e.freelist)
       /\ n = Len(e.dense) + 1 /\ n \in Nat \ {0}
  BY <1>4
<1>13. DOMAIN dense = 1 .. n /\ dense[n].handle = h
  BY <1>8, <1>9
<1>14. /\ DOMAIN sparse = 1 .. Len(gens)
       /\ sparse[h.index] = n
       /\ \A i \in 1 .. Len(gens) :
            i # h.index => i \in 1 .. Len(e.generations) /\ sparse[i] = e.sparse[i]
  BY <1>2, <1>7, <1>12
<1> HIDE DEF n
<1>15. VectorsAligned(f)
  BY <1>1, <1>7, <1>11 DEF VectorsAligned
<1>16. DenseToSparse(f)
  <2> SUFFICES ASSUME NEW d \in 1 .. n
               PROVE  /\ dense[d].handle.index \in 1 .. Len(gens)
                      /\ sparse[dense[d].handle.index] = d
                      /\ gens[dense[d].handle.index] = dense[d].handle.generation
    BY <1>11, <1>13, <1>14 DEF DenseToSparse
  <2>1. CASE d = n
    BY <1>2, <1>13, <1>14, <2>1
  <2>2. CASE d # n
    <3>1. d \in 1 .. Len(e.dense) /\ dense[d] = e.dense[d]
      BY <1>9, <1>12, <2>2
    <3> DEFINE i == e.dense[d].handle.index
    <3>2. /\ i \in 1 .. Len(e.generations) /\ e.sparse[i] = d
          /\ e.generations[i] = e.dense[d].handle.generation
      BY <1>12, <3>1 DEF WellFormed, DenseToSparse
    <3>3. d # None
      BY <3>1 DEF None
    <3> HIDE DEF i
    <3>4. i # h.index
      BY <1>2, <3>2, <3>3
    <3>5. i \in 1 .. Len(gens)
      BY <1>2, <1>12, <3>2
    <3> QED
      BY <1>2, <1>14, <3>1, <3>2, <3>4, <3>5 DEF i
  <2> QED
    BY <2>1, <2>2
<1>17. SparseToDense(f)
  <2> SUFFICES ASSUME NEW i \in 1 .. Len(gens), sparse[i] # None
               PROVE  sparse[i] \in 1 .. n /\ dense[sparse[i]].handle.index = i
    BY <1>11, <1>13, <1>14 DEF SparseToDense
  <2>1. CASE i = h.index
    BY <1>12, <1>13, <1>14, <2>1
  <2>2. CASE i # h.index
    <3>1. i \in 1 .. Len(e.generations) /\ sparse[i] = e.sparse[i]
      BY <1>14, <2>2
    <3>2. e.sparse[i] \in 1 .. Len(e.dense) /\ e.dense[e.sparse[i]].handle.index = i
      BY <1>12, <3>1 DEF WellFormed, SparseToDense
    <3>3. e.sparse[i] \in 1 .. n /\ e.sparse[i] # n
      BY <1>12, <3>2
    <3> QED
      BY <1>9, <3>1, <3>2, <3>3
  <2> QED
    BY <2>1, <2>2
<1>18. FreelistInjective(f)
  <2>1. \A k, l \in 1 .. Len(e.freelist) : e.freelist[k] = e.freelist[l] => k = l
    BY <1>12 DEF WellFormed, FreelistInjective
  <2> QED
    BY <1>3, <1>11, <1>12, <2>1 DEF FreelistInjective
<1>19. FreelistIsDead(f)
  <2> SUFFICES ASSUME NEW k \in 1 .. Len(free)
               PROVE  free[k] \in 1 .. Len(gens) /\ sparse[free[k]] = None
    BY <1>11, <1>12, <1>14 DEF FreelistIsDead
  <2>1. k \in 1 .. Len(e.freelist) /\ free[k] = e.freelist[k] /\ free[k] # h.index
    BY <1>3
  <2>2. e.freelist[k] \in 1 .. Len(e.generations) /\ e.sparse[e.freelist[k]] = None
    BY <1>12, <2>1 DEF WellFormed, FreelistIsDead
  <2>3. e.freelist[k] \in 1 .. Len(gens)
    BY <1>2, <1>12, <2>2
  <2> QED
    BY <1>14, <2>1, <2>2, <2>3
<1>20. DeadIsFree(f)
  <2> SUFFICES ASSUME NEW i \in 1 .. Len(gens), sparse[i] = None
               PROVE  \E k \in 1 .. Len(free) : free[k] = i
    BY <1>11, <1>12, <1>14 DEF DeadIsFree
  <2>1. i # h.index
    BY <1>12, <1>14 DEF None
  <2>2. i \in 1 .. Len(e.generations) /\ e.sparse[i] = None
    BY <1>14, <2>1
  <2>3. PICK k \in 1 .. Len(e.freelist) : e.freelist[k] = i
    BY <1>12, <2>2 DEF WellFormed, DeadIsFree
  <2>4. k \in 1 .. Len(free) /\ free[k] = i
    BY <1>3, <2>1, <2>3
  <2> QED
    BY <2>4
<1>21. /\ f.sparse[h.index] # None
       /\ \A i \in 1 .. Len(e.generations) : i # h.index => f.sparse[i] = e.sparse[i]
  <2>1. \A i \in 1 .. Len(e.generations) : i \in 1 .. Len(gens)
    BY <1>2, <1>12
  <2> QED
    BY <1>11, <1>12, <1>14, <2>1 DEF None
<1> QED
  BY <1>11, <1>15, <1>16, <1>17, <1>18, <1>19, <1>20, <1>21 DEF WellFormed, h, a, f, m, gens

(* despawn_meta frees the slot of the despawned entity; the entity that the *)
(* swap_remove moves is found under its new position.                      *)
LEMMA DespawnOK ==
  ASSUME NEW M, NEW e \in Registries(M), WellFormed(e),
         NEW h \in Handles, h.index \in 1 .. Len(e.generations), IsAlive(e, h)
  PROVE  LET f == DespawnMeta(e, h)
         IN  /\ f \in Registries(M)
             /\ WellFormed(f)
             /\ f.generations = e.generations
             /\ f.sparse[h.index] = None
             /\ \A i \in 1 .. Len(e.generations) :
                  i # h.index => (f.sparse[i] = None <=> e.sparse[i] = None)
<1> DEFINE x == h.index
           hole == e.sparse[x]
           n == Len(e.dense)
           g == Len(e.generations)
           dense == SwapRemove(e.dense, hole)
           freed == [e.sparse EXCEPT ![x] = None]
           moved == e.dense[n].handle.index
           sparse == IF hole = n THEN freed
                     ELSE [freed EXCEPT ![dense[hole].handle.index] = hole]
           free == Append(e.freelist, x)
           f == DespawnMeta(e, h)
<1>1. /\ e.sparse \in Seq(Nat) /\ e.dense \in Seq(M)
      /\ e.freelist \in Seq(Indices) /\ e.generations \in Seq(Generations)
      /\ Len(e.sparse) = g /\ e.next_id = g + 1
  BY DEF Registries, WellFormed, VectorsAligned
<1>2. /\ g \in Nat /\ n \in Nat
      /\ DOMAIN e.dense = 1 .. n /\ DOMAIN e.sparse = 1 .. g
      /\ Len(e.freelist) \in Nat /\ DOMAIN e.freelist = 1 .. Len(e.freelist)
  BY <1>1
<1>3. x \in 1 .. g /\ x \in Indices /\ hole # None
  BY DEF IsAlive, Handles
<1>4. hole \in 1 .. n /\ e.dense[hole].handle.index = x
  BY <1>2, <1>3 DEF WellFormed, SparseToDense
<1>5. n \in 1 .. n
  BY <1>2, <1>4
<1>6. moved \in 1 .. g /\ e.sparse[moved] = n
  BY <1>2, <1>5 DEF WellFormed, DenseToSparse
<1>7. moved = x <=> hole = n
  BY <1>4, <1>6
<1>8. /\ dense \in Seq(M) /\ Len(dense) = n - 1 /\ DOMAIN dense = 1 .. n - 1
      /\ \A j \in 1 .. n - 1 : dense[j] = IF j = hole THEN e.dense[n] ELSE e.dense[j]
  <2> DEFINE v == e.dense
  <2>1. v \in Seq(M) /\ hole \in 1 .. Len(v)
    BY <1>1, <1>4
  <2> HIDE DEF hole, v
  <2>2. /\ SwapRemove(v, hole) \in Seq(M)
        /\ Len(SwapRemove(v, hole)) = Len(v) - 1
        /\ DOMAIN SwapRemove(v, hole) = 1 .. Len(v) - 1
        /\ \A j \in 1 .. Len(v) - 1 :
             SwapRemove(v, hole)[j] = IF j = hole THEN v[Len(v)] ELSE v[j]
    BY <2>1, SwapRemoveVector, Z3
  <2> QED
    BY <2>2, Zenon DEF v
<1>9. hole # n => dense[hole].handle.index = moved
  <2> HIDE DEF hole, dense
  <2>1. hole # n => hole \in 1 .. n - 1
    BY <1>2, <1>4
  <2> QED
    BY <1>8, <2>1
<1>10. /\ f.freelist = free /\ f.dense = dense /\ f.sparse = sparse
       /\ f.generations = e.generations /\ f.next_id = e.next_id
       /\ f = [e EXCEPT !.freelist = free, !.dense = dense, !.sparse = sparse]
  BY DEF DespawnMeta, Registries
<1> HIDE DEF hole, dense, moved, n, g
<1>11. /\ sparse \in Seq(Nat) /\ Len(sparse) = g /\ DOMAIN sparse = 1 .. g
       /\ \A i \in 1 .. g :
            sparse[i] = IF i = x THEN None ELSE IF i = moved THEN hole ELSE e.sparse[i]
  <2>1. None \in Nat /\ hole \in Nat
    BY <1>2, <1>4 DEF None
  <2>2. /\ freed \in Seq(Nat) /\ Len(freed) = g
        /\ \A i \in 1 .. g : freed[i] = IF i = x THEN None ELSE e.sparse[i]
    BY <1>1, <1>3, <2>1
  <2>3. CASE hole = n
    BY <1>2, <1>7, <2>2, <2>3
  <2>4. CASE hole # n
    <3>1. sparse = [freed EXCEPT ![moved] = hole]
      BY <1>9, <2>4
    <3> HIDE DEF freed, sparse
    <3> QED
      BY <1>2, <1>6, <1>7, <2>1, <2>2, <2>4, <3>1
  <2> QED
    BY <2>3, <2>4
<1> HIDE DEF sparse
<1>12. /\ free \in Seq(Indices) /\ Len(free) = Len(e.freelist) + 1
       /\ DOMAIN free = 1 .. Len(e.freelist) + 1
       /\ free[Len(e.freelist) + 1] = x
       /\ \A k \in 1 .. Len(e.freelist) : free[k] = e.freelist[k]
  BY <1>1, <1>3
<1> HIDE DEF free, f
<1>13. f \in Registries(M)
  BY <1>8, <1>10, <1>11, <1>12 DEF Registries
<1>14. VectorsAligned(f)
  BY <1>1, <1>10, <1>11 DEF VectorsAligned, g
<1>15. DenseToSparse(f)
  <2> SUFFICES ASSUME NEW d \in 1 .. n - 1
               PROVE  /\ dense[d].handle.index \in 1 .. g
                      /\ sparse[dense[d].handle.index] = d
                      /\ e.generations[dense[d].handle.index] = dense[d].handle.generation
    BY <1>8, <1>10, <1>11 DEF DenseToSparse
  <2> DEFINE k == IF d = hole THEN n ELSE d
             i == e.dense[k].handle.index
  <2>1. k \in 1 .. n /\ dense[d] = e.dense[k] /\ k # hole
    BY <1>2, <1>4, <1>8
  <2> HIDE DEF k
  <2>2. /\ i \in 1 .. g /\ e.sparse[i] = k
        /\ e.generations[i] = e.dense[k].handle.generation
    BY <1>2, <2>1 DEF WellFormed, DenseToSparse
  <2>3. i # x
    BY <2>1, <2>2 DEF hole
  <2>4. sparse[i] = d
    <3>1. CASE d = hole
      <4>1. i = moved
        BY <3>1 DEF k, moved
      <4> QED
        BY <1>11, <2>2, <2>3, <3>1, <4>1
    <3>2. CASE d # hole
      <4>1. k = d /\ d # n
        BY <1>2, <3>2 DEF k
      <4>2. i # moved
        BY <1>6, <2>2, <4>1
      <4> QED
        BY <1>11, <2>2, <2>3, <4>1, <4>2
    <3> QED
      BY <3>1, <3>2
  <2> QED
    BY <2>1, <2>2, <2>4
<1>16. SparseToDense(f)
  <2> SUFFICES ASSUME NEW i \in 1 .. g, sparse[i] # None
               PROVE  sparse[i] \in 1 .. n - 1 /\ dense[sparse[i]].handle.index = i
    BY <1>8, <1>10, <1>11 DEF SparseToDense
  <2>1. i # x
    BY <1>11
  <2>2. CASE i = moved
    <3>1. hole # n /\ sparse[i] = hole
      BY <1>7, <1>11, <2>1, <2>2
    <3>2. hole \in 1 .. n - 1
      BY <1>2, <1>4, <3>1
    <3> QED
      BY <1>9, <2>2, <3>1, <3>2
  <2>3. CASE i # moved
    <3> DEFINE d == e.sparse[i]
    <3>1. sparse[i] = d /\ d # None
      BY <1>11, <2>1, <2>3
    <3>2. d \in 1 .. n /\ e.dense[d].handle.index = i
      BY <1>2, <3>1 DEF WellFormed, SparseToDense
    <3> HIDE DEF d
    <3>3. d # n
      BY <2>3, <3>2 DEF moved
    <3>4. d # hole
      BY <1>4, <2>1, <3>2
    <3>5. d \in 1 .. n - 1
      BY <1>2, <3>2, <3>3
    <3> QED
      BY <1>8, <3>1, <3>2, <3>4, <3>5
  <2> QED
    BY <2>2, <2>3
<1>17. FreelistIsDead(f)
  <2> SUFFICES ASSUME NEW k \in 1 .. Len(e.freelist) + 1
               PROVE  free[k] \in 1 .. g /\ sparse[free[k]] = None
    BY <1>10, <1>11, <1>12 DEF FreelistIsDead
  <2>1. CASE k = Len(e.freelist) + 1
    BY <1>3, <1>11, <1>12, <2>1
  <2>2. CASE k # Len(e.freelist) + 1
    <3>1. k \in 1 .. Len(e.freelist) /\ free[k] = e.freelist[k]
      BY <1>2, <1>12, <2>2
    <3>2. e.freelist[k] \in 1 .. g /\ e.sparse[e.freelist[k]] = None
      BY <1>2, <3>1 DEF WellFormed, FreelistIsDead
    <3>3. n # None
      BY <1>5 DEF None
    <3>4. e.freelist[k] # moved
      BY <1>6, <3>2, <3>3
    <3> QED
      BY <1>11, <3>1, <3>2, <3>4
  <2> QED
    BY <2>1, <2>2
<1>18. DeadIsFree(f)
  <2> SUFFICES ASSUME NEW i \in 1 .. g, sparse[i] = None
               PROVE  \E k \in 1 .. Len(e.freelist) + 1 : free[k] = i
    BY <1>10, <1>11, <1>12 DEF DeadIsFree
  <2>1. CASE i = x
    <3>1. Len(e.freelist) + 1 \in 1 .. Len(e.freelist) + 1
      BY <1>2
    <3> QED
      BY <1>12, <2>1, <3>1
  <2>2. CASE i # x
    <3>1. hole # None
      BY <1>3 DEF hole
    <3>2. e.sparse[i] = None
      BY <1>11, <2>2, <3>1
    <3>3. PICK k \in 1 .. Len(e.freelist) : e.freelist[k] = i
      BY <1>2, <3>2 DEF WellFormed, DeadIsFree
    <3>4. k \in 1 .. Len(e.freelist) + 1
      BY <1>2
    <3> QED
      BY <1>12, <3>3, <3>4
  <2> QED
    BY <2>1, <2>2
<1>19. FreelistInjective(f)
  <2>1. \A k, l \in 1 .. Len(e.freelist) : e.freelist[k] = e.freelist[l] => k = l
    BY <1>2 DEF WellFormed, FreelistInjective
  <2>2. \A k \in 1 .. Len(e.freelist) : e.freelist[k] # x
    BY <1>2, <1>3 DEF WellFormed, FreelistIsDead, hole
  <2>3. \A k \in 1 .. Len(e.freelist) + 1 :
          k \in 1 .. Len(e.freelist) \/ k = Len(e.freelist) + 1
    BY <1>2
  <2>4. \A k, l \in 1 .. Len(e.freelist) + 1 : free[k] = free[l] => k = l
    BY <1>12, <2>1, <2>2, <2>3
  <2> QED
    BY <1>10, <1>12, <2>4 DEF FreelistInjective
<1>20. /\ f.sparse[h.index] = None
       /\ \A i \in 1 .. g : i # h.index => (f.sparse[i] = None <=> e.sparse[i] = None)
  <2>1. n # None /\ hole # None
    BY <1>3, <1>5 DEF None, hole
  <2> QED
    BY <1>3, <1>6, <1>10, <1>11, <2>1
<1> QED
  BY <1>10, <1>13, <1>14, <1>15, <1>16, <1>17, <1>18, <1>19, <1>20 DEF WellFormed, f, g

(* On a handle that was given out, get_meta and is_alive agree, and the     *)
(* metadata found is that of the handle.                                    *)
LEMMA LookupOK ==
  ASSUME NEW T, NEW R, NEW e \in Registries(Metas(T, R)), WellFormed(e),
         NEW h \in Handles, h.index \in 1 .. Len(e.generations)
  PROVE  /\ HasMeta(e, h) <=> IsAlive(e, h)
         /\ IsAlive(e, h) => /\ GetMeta(e, h) \in Metas(T, R)
                             /\ GetMeta(e, h).handle = h
<1> DEFINE d == e.sparse[h.index]
<1>1. /\ DOMAIN e.generations = 1 .. Len(e.generations)
      /\ DOMAIN e.sparse = 1 .. Len(e.generations)
      /\ e.dense \in Seq(Metas(T, R)) /\ Len(e.dense) \in Nat
      /\ DOMAIN e.dense = 1 .. Len(e.dense)
  BY DEF Registries, WellFormed, VectorsAligned
<1>2. d # None => d \in 1 .. Len(e.dense) /\ e.dense[d].handle.index = h.index
  BY <1>1 DEF WellFormed, SparseToDense
<1>3. HasMeta(e, h) <=> IsAlive(e, h)
  <2>1. d \in 1 .. Len(e.dense) => d # None
    BY <1>1 DEF None
  <2> QED
    BY <1>1, <1>2, <2>1 DEF HasMeta, IsAlive
<1>4. ASSUME IsAlive(e, h)
      PROVE  GetMeta(e, h) \in Metas(T, R) /\ GetMeta(e, h).handle = h
  <2>1. d \in 1 .. Len(e.dense) /\ e.dense[d].handle.index = h.index
    BY <1>2, <1>4 DEF IsAlive
  <2>2. e.dense[d] \in Metas(T, R)
    BY <1>1, <2>1
  <2>3. e.dense[d].handle.generation = h.generation
    BY <1>1, <1>4, <2>1 DEF WellFormed, DenseToSparse, IsAlive, CurrentGeneration
  <2> QED
    BY <2>1, <2>2, <2>3 DEF GetMeta, Metas, Handles
<1> QED
  BY <1>3, <1>4

(* What spawn and despawn do to the sets of issued and of live handles.     *)
LEMMA SpawnIssues ==
  ASSUME NEW T, NEW R, NEW e \in Registries(Metas(T, R)), WellFormed(e), MayAllocate(e),
         NEW t \in T, NEW r \in R
  PROVE  LET h == AllocatedHandle(e)
             f == SpawnMeta(Allocate(e), Meta(h, t, r))
         IN  /\ h \in Handles /\ h \notin Issued(e)
             /\ \A k \in Live(e) : k.index # h.index
             /\ Issued(f) = Issued(e) \union {h}
             /\ Live(f) = Live(e) \union {h}
<1> DEFINE h == AllocatedHandle(e)
           a == Allocate(e)
           f == SpawnMeta(a, Meta(h, t, r))
           g == Len(e.generations)
           gens == f.generations
<1>1. /\ h \in Handles
      /\ g <= Len(a.generations)
      /\ h.index \in 1 .. Len(a.generations)
      /\ a.generations[h.index] = h.generation
      /\ \A i \in 1 .. Len(a.generations) :
           i # h.index => i \in 1 .. g /\ a.generations[i] = e.generations[i]
      /\ h.index \in 1 .. g =>
           e.sparse[h.index] = None /\ h.generation = e.generations[h.index] + 1
      /\ h.index \notin 1 .. g => h.generation = 0
  BY AllocateOK
<1>2. /\ f \in Registries(Metas(T, R)) /\ WellFormed(f)
      /\ gens = a.generations
      /\ f.sparse[h.index] # None
      /\ \A i \in 1 .. g : i # h.index => f.sparse[i] = e.sparse[i]
  BY SpawnOK
<1> HIDE DEF h, a, f, gens
<1>3. /\ e.generations \in Seq(Generations) /\ gens \in Seq(Generations)
      /\ g \in Nat /\ DOMAIN e.generations = 1 .. g
      /\ Len(gens) \in Nat /\ DOMAIN gens = 1 .. Len(gens)
  BY <1>2 DEF Registries, gens
<1>4. \A k \in Handles : k = h <=> k.index = h.index /\ k.generation = h.generation
  BY <1>1 DEF Handles
<1>5. \A k \in Handles : k.generation \in Nat
  BY RegistryAssumption DEF Handles, Generations
<1>6. /\ \A i \in 1 .. g : e.generations[i] \in Nat
      /\ \A i \in 1 .. Len(gens) : gens[i] \in Nat
  BY <1>3, RegistryAssumption DEF Generations
<1>7. \A k \in Handles : k \in Issued(e) <=> k.index \in 1 .. g /\ k.generation <= e.generations[k.index]
  BY <1>3 DEF Issued
<1>8. \A k \in Handles : k \in Issued(f) <=> k.index \in 1 .. Len(gens) /\ k.generation <= gens[k.index]
  BY <1>3 DEF Issued, gens
<1>9. h \notin Issued(e)
  BY <1>1, <1>5, <1>6, <1>7
<1>10. \A k \in Live(e) : k.index # h.index
  BY <1>1, <1>7 DEF Live, Issued, IsAlive
<1>11. \A k \in Handles : k \in Issued(f) <=> k \in Issued(e) \/ k = h
  <2> SUFFICES ASSUME NEW k \in Handles
               PROVE  k \in Issued(f) <=> k \in Issued(e) \/ k = h
    OBVIOUS
  <2>1. CASE k.index # h.index
    <3>1. k.index \in 1 .. g => k.index \in 1 .. Len(gens)
      BY <1>1, <1>2, <1>3
    <3> QED
      BY <1>1, <1>2, <1>4, <1>7, <1>8, <2>1, <3>1
  <2>2. CASE k.index = h.index /\ h.index \in 1 .. g
    <3>1. k \in Issued(f) <=> k.generation <= e.generations[h.index] + 1
      BY <1>1, <1>2, <1>8, <2>2
    <3>2. k \in Issued(e) <=> k.generation <= e.generations[h.index]
      BY <1>7, <2>2
    <3>3. k = h <=> k.generation = e.generations[h.index] + 1
      BY <1>1, <1>4, <2>2
    <3> QED
      BY <1>5, <1>6, <2>2, <3>1, <3>2, <3>3
  <2>3. CASE k.index = h.index /\ h.index \notin 1 .. g
    BY <1>1, <1>2, <1>4, <1>5, <1>7, <1>8, <2>3
  <2> QED
    BY <2>1, <2>2, <2>3
<1>12. Issued(f) = Issued(e) \union {h}
  BY <1>1, <1>11 DEF Issued
<1>13. IsAlive(f, h)
  BY <1>1, <1>2 DEF IsAlive, CurrentGeneration, gens
<1>14. \A k \in Issued(e) : IsAlive(f, k) <=> IsAlive(e, k)
  <2> SUFFICES ASSUME NEW k \in Issued(e)
               PROVE  IsAlive(f, k) <=> IsAlive(e, k)
    OBVIOUS
  <2>1. k \in Handles /\ k.index \in 1 .. g /\ k.generation <= e.generations[k.index]
    BY <1>7 DEF Issued
  <2>2. CASE k.index # h.index
    <3>1. k.index \in 1 .. Len(gens)
      BY <1>1, <1>2, <1>3, <2>1
    <3>2. gens[k.index] = e.generations[k.index] /\ f.sparse[k.index] = e.sparse[k.index]
      BY <1>1, <1>2, <2>1, <2>2, <3>1
    <3> QED
      BY <3>2 DEF IsAlive, CurrentGeneration, gens
  <2>3. CASE k.index = h.index
    <3>1. ~IsAlive(e, k)
      BY <1>1, <2>1, <2>3 DEF IsAlive
    <3>2. gens[k.index] = e.generations[k.index] + 1
      BY <1>1, <1>2, <2>1, <2>3
    <3>3. gens[k.index] # k.generation
      BY <1>5, <1>6, <2>1, <3>2
    <3> QED
      BY <3>1, <3>3 DEF IsAlive, CurrentGeneration, gens
  <2> QED
    BY <2>2, <2>3
<1>15. Live(f) = Live(e) \union {h}
  BY <1>12, <1>13, <1>14 DEF Live
<1> QED
  BY <1>1, <1>9, <1>10, <1>12, <1>15 DEF h, a, f

\* Despawning issues nothing and kills the one handle.
LEMMA DespawnKills ==
  ASSUME NEW M, NEW e \in Registries(M), WellFormed(e),
         NEW h \in Issued(e), IsAlive(e, h)
  PROVE  /\ Issued(DespawnMeta(e, h)) = Issued(e)
         /\ Live(DespawnMeta(e, h)) = Live(e) \ {h}
<1> DEFINE f == DespawnMeta(e, h)
           g == Len(e.generations)
<1>1. h \in Handles /\ DOMAIN e.generations = 1 .. g /\ h.index \in 1 .. g
  BY DEF Issued, Registries
<1>2. /\ f.generations = e.generations
      /\ f.sparse[h.index] = None
      /\ \A i \in 1 .. g : i # h.index => (f.sparse[i] = None <=> e.sparse[i] = None)
  BY <1>1, DespawnOK
<1> HIDE DEF f
<1>3. Issued(f) = Issued(e)
  BY <1>2 DEF Issued
<1>4. ~IsAlive(f, h)
  BY <1>2 DEF IsAlive
<1>5. \A k \in Issued(e) : k # h => (IsAlive(f, k) <=> IsAlive(e, k))
  <2> SUFFICES ASSUME NEW k \in Issued(e), k # h
               PROVE  IsAlive(f, k) <=> IsAlive(e, k)
    OBVIOUS
  <2>1. k \in Handles /\ k.index \in 1 .. g
    BY <1>1 DEF Issued
  <2>2. CASE k.index # h.index
    BY <1>2, <2>1, <2>2 DEF IsAlive, CurrentGeneration
  <2>3. CASE k.index = h.index
    <3>1. k.generation # h.generation
      BY <1>1, <2>1, <2>3 DEF Handles
    <3> QED
      BY <1>2, <2>3, <3>1 DEF IsAlive, CurrentGeneration
  <2> QED
    BY <2>2, <2>3
<1> QED
  BY <1>3, <1>4, <1>5 DEF Live, f

-----------------------------------------------------------------------------
(* The registry as a component.                                             *)

RegistryInv == RegistryTypeOK /\ WellFormed(registry)

\* Moving a live entity keeps the registry well formed, and every generation
\* and sparse slot.
LEMMA MoveTableOK ==
  ASSUME RegistryInv, NEW h \in Live(registry), NEW t \in Tables, NEW r \in Rows, MoveTable(h, t, r)
  PROVE  /\ RegistryInv'
         /\ registry'.generations = registry.generations
         /\ registry'.sparse = registry.sparse
<1>1. h \in Handles /\ h.index \in DOMAIN registry.generations /\ IsAlive(registry, h)
  BY DEF Live, Issued
<1>2. h.index \in DOMAIN registry.sparse
  BY <1>1 DEF RegistryInv, RegistryTypeOK, Registries, WellFormed, VectorsAligned
<1> QED
  BY <1>1, <1>2, SetMetaOK DEF RegistryInv, RegistryTypeOK, MoveTable

\* A new row in the metadata keeps the registry well formed.
LEMMA MoveRowOK ==
  ASSUME RegistryInv, NEW h \in Live(registry), NEW r \in Rows, MoveRow(h, r)
  PROVE  /\ RegistryInv'
         /\ registry'.generations = registry.generations
         /\ registry'.sparse = registry.sparse
<1> DEFINE old == GetMeta(registry, h)
<1>1. h \in Handles /\ h.index \in 1 .. Len(registry.generations) /\ IsAlive(registry, h)
  BY DEF Live, Issued, RegistryInv, RegistryTypeOK, Registries
<1>2. old \in Metas(Tables, Rows) /\ old.handle = h
  BY <1>1, LookupOK DEF RegistryInv, RegistryTypeOK
<1>3. old.table \in Tables /\ MoveTable(h, old.table, r)
  BY <1>2 DEF Metas, MoveRow, MoveTable, SetRowMeta, GetMeta
<1> QED
  BY <1>3, MoveTableOK

\* World::despawn removes a live entity and leaves on any other handle.
LEMMA DespawnGuard ==
  ASSUME RegistryInv, NEW h \in Issued(registry)
  PROVE  /\ h \in Handles /\ h.index \in 1 .. Len(registry.generations)
         /\ HasMeta(registry, h) <=> IsAlive(registry, h)
<1>1. h \in Handles /\ h.index \in 1 .. Len(registry.generations)
  BY DEF Issued, RegistryInv, RegistryTypeOK, Registries
<1> QED
  BY <1>1, LookupOK DEF RegistryInv, RegistryTypeOK

\* Every call keeps the registry well formed.
LEMMA RegistryInvInductive == RegistryInv /\ [RegistryNext]_registry => RegistryInv'
<1> SUFFICES ASSUME RegistryInv, [RegistryNext]_registry PROVE RegistryInv'
  OBVIOUS
<1>1. ASSUME NEW t \in Tables, NEW r \in Rows, SpawnEntity(t, r) PROVE RegistryInv'
  BY <1>1, SpawnOK DEF RegistryInv, RegistryTypeOK, SpawnEntity
<1>2. ASSUME NEW h \in Issued(registry), DespawnEntity(h) PROVE RegistryInv'
  BY <1>2, DespawnGuard, DespawnOK DEF RegistryInv, RegistryTypeOK, DespawnEntity
<1>3. ASSUME NEW h \in Issued(registry), DespawnStale(h) PROVE RegistryInv'
  BY <1>3 DEF RegistryInv, RegistryTypeOK, DespawnStale
<1>4. ASSUME NEW h \in Live(registry), NEW r \in Rows, MoveRow(h, r) PROVE RegistryInv'
  BY <1>4, MoveRowOK
<1>5. ASSUME NEW h \in Live(registry), NEW t \in Tables, NEW r \in Rows, MoveTable(h, t, r)
      PROVE  RegistryInv'
  BY <1>5, MoveTableOK
<1>6. CASE UNCHANGED registry
  BY <1>6 DEF RegistryInv, RegistryTypeOK
<1> QED
  BY <1>1, <1>2, <1>3, <1>4, <1>5, <1>6 DEF RegistryNext

\* The registry is always well formed.
LEMMA RegistryInvHolds == RegistrySpec => []RegistryInv
<1>1. RegistryInit => RegistryInv
  BY EmptyRegistryOK DEF RegistryInit, RegistryInv, RegistryTypeOK
<1> QED
  BY <1>1, RegistryInvInductive, PTL DEF RegistrySpec

(* The registry is always a record of vectors of its types.                 *)
THEOREM RegistryTypeCorrect == RegistrySpec => []RegistryTypeOK
<1>1. RegistryInv => RegistryTypeOK
  BY DEF RegistryInv
<1> QED
  BY <1>1, RegistryInvHolds, PTL

(* The slot of a live entity always leads to its own metadata and back.     *)
THEOREM SparseDenseAlwaysAgree == RegistrySpec => []SparseDenseAgree
<1>1. RegistryInv => SparseDenseAgree
  BY DEF RegistryInv, WellFormed, SparseDenseAgree
<1> QED
  BY <1>1, RegistryInvHolds, PTL

(* The freelist always holds the indices of no live entity, each once.      *)
THEOREM FreelistAlwaysExact == RegistrySpec => []FreelistExact
<1>1. RegistryInv => FreelistExact
  BY DEF RegistryInv, WellFormed, FreelistExact
<1> QED
  BY <1>1, RegistryInvHolds, PTL

(* get_meta and is_alive always agree, and the metadata is the handle's.    *)
THEOREM LookupsAlwaysAgree == RegistrySpec => []LookupsAgree
<1>1. ASSUME RegistryInv PROVE LookupsAgree
  <2> SUFFICES ASSUME NEW h \in Issued(registry)
               PROVE  /\ HasMeta(registry, h) <=> IsAlive(registry, h)
                      /\ HasMeta(registry, h) => GetMeta(registry, h).handle = h
    BY DEF LookupsAgree
  <2> QED
    BY <1>1, DespawnGuard, LookupOK DEF RegistryInv, RegistryTypeOK
<1> QED
  BY <1>1, RegistryInvHolds, PTL

-----------------------------------------------------------------------------
(* A step of the registry is a step of LiveHandles, or changes no handle.    *)

\* Every call is a step of the set of live handles, or none.
LEMMA RegistryStepRefines == RegistryInv /\ [RegistryNext]_registry => [Promise!Next]_(Promise!vars)
<1> SUFFICES ASSUME RegistryInv, [RegistryNext]_registry PROVE [Promise!Next]_(Promise!vars)
  OBVIOUS
<1> USE DEF Promise!vars
<1>1. ASSUME NEW t \in Tables, NEW r \in Rows, SpawnEntity(t, r) PROVE Promise!Next
  <2> DEFINE h == AllocatedHandle(registry)
  <2>1. /\ h \in Handles /\ h \notin Issued(registry)
        /\ \A k \in Live(registry) : k.index # h.index
        /\ Issued(registry') = Issued(registry) \union {h}
        /\ Live(registry') = Live(registry) \union {h}
    BY <1>1, SpawnIssues DEF SpawnEntity, RegistryInv, RegistryTypeOK
  <2> HIDE DEF h
  <2>2. Promise!Spawn(h)
    BY <2>1 DEF Promise!Spawn
  <2> QED
    BY <2>1, <2>2 DEF Promise!Next
<1>2. ASSUME NEW h \in Issued(registry), DespawnEntity(h) PROVE Promise!Next
  <2>1. IsAlive(registry, h) /\ h \in Handles
    BY <1>2, DespawnGuard DEF DespawnEntity
  <2>2. /\ Issued(registry') = Issued(registry)
        /\ Live(registry') = Live(registry) \ {h}
    BY <1>2, <2>1, DespawnKills DEF DespawnEntity, RegistryInv, RegistryTypeOK
  <2>3. Promise!Despawn(h)
    BY <2>1, <2>2 DEF Promise!Despawn, Live
  <2> QED
    BY <2>1, <2>3 DEF Promise!Next
<1>3. ASSUME /\ registry'.generations = registry.generations
             /\ registry'.sparse = registry.sparse
      PROVE  Issued(registry') = Issued(registry) /\ Live(registry') = Live(registry)
  BY <1>3 DEF Issued, Live, IsAlive, CurrentGeneration
<1>4. ASSUME NEW h \in Live(registry), NEW r \in Rows, MoveRow(h, r)
      PROVE  UNCHANGED Promise!vars
  BY <1>3, <1>4, MoveRowOK
<1>5. ASSUME NEW h \in Live(registry), NEW t \in Tables, NEW r \in Rows, MoveTable(h, t, r)
      PROVE  UNCHANGED Promise!vars
  BY <1>3, <1>5, MoveTableOK
<1>6. CASE UNCHANGED registry
  BY <1>6 DEF Issued, Live, IsAlive, CurrentGeneration
<1> QED
  BY <1>1, <1>2, <1>4, <1>5, <1>6 DEF RegistryNext, DespawnStale

(* The registry keeps its promise to the holders of handles: a new handle   *)
(* was never given out, live handles have distinct indices, and a despawn   *)
(* ends exactly one of them.                                                *)
THEOREM RegistryImplementsLiveHandles == RegistrySpec => ImplementsLiveHandles
<1>1. RegistryInit => Promise!Init
  BY DEF RegistryInit, EmptyRegistry, Issued, Live, Promise!Init
<1> QED
  BY <1>1, RegistryStepRefines, RegistryInvHolds, PTL DEF RegistrySpec, ImplementsLiveHandles, Promise!Spec

(* A handle whose entity died never is alive again.                         *)
THEOREM DeadHandlesStayDead == RegistrySpec => DeadStaysDead
<1>1. ASSUME RegistryInv, [RegistryNext]_registry
      PROVE  \A h \in Issued(registry) : ~IsAlive(registry, h) => ~IsAlive(registry', h)
  <2>1. [Promise!Next]_(Promise!vars)
    BY <1>1, RegistryStepRefines
  <2>2. /\ Issued(registry) \subseteq Issued(registry')
        /\ Live(registry') \intersect Issued(registry) \subseteq Live(registry)
    BY <2>1 DEF Promise!Next, Promise!vars, Promise!Spawn, Promise!Despawn
  <2> QED
    BY <2>2 DEF Live
<1> QED
  BY <1>1, RegistryInvHolds, PTL DEF RegistrySpec, DeadStaysDead

=============================================================================
