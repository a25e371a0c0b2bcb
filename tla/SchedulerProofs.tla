-------------------------- MODULE SchedulerProofs --------------------------
(***************************************************************************)
(* Proofs about Scheduler for every schedule, every pool and every number  *)
(* of runs.                                                                *)
(*                                                                         *)
(* First about the graph that the builder makes: of two systems with       *)
(* accesses that conflict, the later one has a path from the earlier one,  *)
(* and no edge leads backwards (EdgesOrder).  Then the inductive invariant *)
(* of a run, IInv: the count of a system that was not spawned is the       *)
(* number of those it still waits for.                                     *)
(***************************************************************************)
EXTENDS Scheduler, FiniteSetTheorems, TLAPS

-----------------------------------------------------------------------------
(* Numbers and recursion. *)

\* A set of numbers that is not empty has a least one.
LEMMA LeastNumber ==
  ASSUME NEW T \in SUBSET Nat, T # {}
  PROVE  \E m \in T : \A k \in T : m <= k
<1> DEFINE Less == {ss \in Nat \X Nat : ss[1] < ss[2]}
<1>1. IsWellFoundedOn(Less, Nat)
  BY NatLessThanWellFounded, Zenon DEF OpToRel
<1> HIDE DEF Less
<1>2. PICK m \in T : \A k \in T : <<k, m>> \notin Less
  BY <1>1, WFMin
<1>3. ASSUME NEW k \in T
      PROVE  m <= k
  <2>1. m \in Nat /\ k \in Nat
    OBVIOUS
  <2>2. ~(k < m)
    BY <1>2, <2>1 DEF Less
  <2> QED
    BY <2>1, <2>2
<1> QED
  BY <1>3

\* A property of the numbers up to n that holds of 0 and, if it holds of one of
\* them, of the next, holds of all.
LEMMA UpTo ==
  ASSUME NEW n \in Nat, NEW T, 0 \in T,
         \A k \in 1 .. n : k - 1 \in T => k \in T
  PROVE  0 .. n \subseteq T
<1> SUFFICES ASSUME (0 .. n) \ T # {}
             PROVE  FALSE
  OBVIOUS
<1> DEFINE others == (0 .. n) \ T
<1>0. others \in SUBSET Nat /\ others # {}
  OBVIOUS
<1> HIDE DEF others
<1>1. PICK m \in others : \A k \in others : m <= k
  BY <1>0, LeastNumber
<1> USE DEF others
<1>2. m \in 1 .. n /\ m - 1 \in 0 .. n
  OBVIOUS
<1>3. m - 1 \in T
  BY <1>1, <1>2
<1> QED
  BY <1>1, <1>2, <1>3

\* f starts with x and takes a step for each number up to n.
Iterates(f, n, x, step) == f[0] = x /\ \A k \in 1 .. n : f[k] = step[k][f[k - 1]]

\* There is a function that starts with x and takes these steps.
LEMMA RecursionExists ==
  ASSUME NEW n \in Nat, NEW S, NEW x \in S, NEW step \in [1 .. n -> [S -> S]]
  PROVE  \E f \in [0 .. n -> S] : Iterates(f, n, x, step)
<1> DEFINE T == {m \in 0 .. n : \E f \in [0 .. m -> S] : Iterates(f, m, x, step)}
<1>1. 0 \in T
  <2> DEFINE f == [k \in 0 .. 0 |-> x]
  <2>1. f \in [0 .. 0 -> S] /\ Iterates(f, 0, x, step)
    BY DEF Iterates
  <2> HIDE DEF f
  <2>2. \E h \in [0 .. 0 -> S] : Iterates(h, 0, x, step)
    BY <2>1
  <2> QED
    BY <2>2
<1>2. ASSUME NEW m \in 1 .. n, m - 1 \in T
      PROVE  m \in T
  <2>1. PICK f \in [0 .. m - 1 -> S] : Iterates(f, m - 1, x, step)
    BY <1>2
  <2> DEFINE g == [k \in 0 .. m |-> IF k = m THEN step[m][f[m - 1]] ELSE f[k]]
  <2>2. g \in [0 .. m -> S]
    <3>1. step[m] \in [S -> S] /\ f[m - 1] \in S
      OBVIOUS
    <3> QED
      BY <3>1
  <2>3. ASSUME NEW k \in 1 .. m
        PROVE  g[k] = step[k][g[k - 1]]
    <3>1. g[k - 1] = f[k - 1]
      OBVIOUS
    <3>2. CASE k = m
      BY <3>1, <3>2
    <3>3. CASE k # m
      <4>1. k \in 1 .. m - 1 /\ g[k] = f[k]
        BY <3>3
      <4> QED
        BY <2>1, <3>1, <4>1 DEF Iterates
    <3> QED
      BY <3>2, <3>3
  <2>4. g[0] = x
    BY <2>1 DEF Iterates
  <2> HIDE DEF g
  <2>5. Iterates(g, m, x, step)
    BY <2>3, <2>4 DEF Iterates
  <2>6. \E h \in [0 .. m -> S] : Iterates(h, m, x, step)
    BY <2>2, <2>5
  <2> QED
    BY <2>6
<1>3. n \in T
  <2> HIDE DEF T
  <2>1. 0 .. n \subseteq T
    BY <1>1, <1>2, UpTo
  <2> QED
    BY <2>1
<1> QED
  BY <1>3

-----------------------------------------------------------------------------
(* The schedule builder. *)

Clash(d, e) == Conflicts(d, e) \/ Conflicts(e, d)

\* Whatever holds of q, and of each system with an edge to one it holds of, holds
\* of p: there is a path from p to q.
Reaches(E, p, q) ==
  \A C \in SUBSET DOMAIN E :
    q \in C /\ (\A x \in DOMAIN E : E[x] \cap C # {} => x \in C) => p \in C

\* The systems that a later access must follow, for the sake of an earlier access d.
Holders(g, d) ==
  g.writers[WorldAccess] \union
    (IF d.ty = WorldAccess THEN {}
     ELSE g.writers[d.ty] \union (IF d.mutable THEN {} ELSE g.readers[d.ty]))

\* The graph g after the accesses done of systems up to s: from each of them a path leads
\* to one that a later access would follow, and to each later system it conflicts with.
GraphOK(a, g, s, done) ==
  /\ g \in [edges : [DOMAIN a -> SUBSET DOMAIN a], writers : [AccessTypes -> SUBSET DOMAIN a],
            readers : [AccessTypes -> SUBSET DOMAIN a]]
  /\ \A p \in DOMAIN a : \A q \in g.edges[p] : p <= q
  /\ \A t \in AccessTypes : \A p \in g.writers[t] \union g.readers[t] : p <= s
  /\ \A e \in done : e[1] \in DOMAIN a /\ e[2] \in AccessDescs /\ e[1] <= s
  /\ \A e \in done : \E q \in Holders(g, e[2]) : Reaches(g.edges, e[1], q)
  /\ \A e, f \in done : e[1] < f[1] /\ Clash(e[2], f[2]) => Reaches(g.edges, e[1], f[1])

\* What an access conflicts with it follows.
LEMMA HoldersAreEarlier ==
  ASSUME NEW g, NEW d \in AccessDescs, NEW e \in AccessDescs, Clash(d, e)
  PROVE  Holders(g, d) \subseteq Earlier(g, e)
<1> USE AccessesAssumption DEF Holders, Earlier, AccessDescs, Clash, Conflicts
<1>1. CASE e.ty = WorldAccess
  BY <1>1
<1>2. CASE e.ty # WorldAccess
  BY <1>2
<1> QED
  BY <1>1, <1>2

\* More edges keep the paths, and an edge extends a path.
LEMMA ReachesMore ==
  ASSUME NEW E, NEW F, DOMAIN F = DOMAIN E, \A x \in DOMAIN E : E[x] \subseteq F[x],
         NEW p, NEW q, Reaches(E, p, q)
  PROVE  Reaches(F, p, q)
<1> SUFFICES ASSUME NEW C \in SUBSET DOMAIN F, q \in C,
                    \A x \in DOMAIN F : F[x] \cap C # {} => x \in C
             PROVE  p \in C
  BY DEF Reaches
<1>1. \A x \in DOMAIN E : E[x] \cap C # {} => x \in C
  OBVIOUS
<1> QED
  BY <1>1 DEF Reaches

\* A path and an edge are a path.
LEMMA ReachesNext ==
  ASSUME NEW E, NEW p, NEW q \in DOMAIN E, NEW s \in E[q], Reaches(E, p, q)
  PROVE  Reaches(E, p, s)
BY DEF Reaches

\* AddAccess keeps what is true of the graph, and extends it to the access it adds.
LEMMA AddAccessOK ==
  ASSUME NEW a, NEW g, NEW s \in DOMAIN a, DOMAIN a \subseteq Nat, NEW d \in AccessDescs, NEW done,
         GraphOK(a, g, s, done)
  PROVE  GraphOK(a, AddAccess(g, s, d), s, done \union {<<s, d>>})
<1> DEFINE h == AddAccess(g, s, d)
           after == done \union {<<s, d>>}
<1>0. /\ d.ty \in AccessTypes /\ d.mutable \in BOOLEAN
      /\ WorldAccess \in AccessTypes
  BY AccessesAssumption DEF AccessDescs
<1>1. Earlier(g, d) \in SUBSET DOMAIN a /\ \A p \in Earlier(g, d) : p <= s
  BY <1>0 DEF GraphOK, Earlier
<1>2. /\ h.edges = [p \in DOMAIN g.edges |->
                      IF p \in Earlier(g, d) THEN g.edges[p] \union {s} ELSE g.edges[p]]
      /\ h.writers = IF d.ty = WorldAccess THEN [NoAccess EXCEPT ![WorldAccess] = {s}]
                     ELSE IF d.mutable THEN [g.writers EXCEPT ![d.ty] = {s}] ELSE g.writers
      /\ h.readers = IF d.ty = WorldAccess THEN NoAccess
                     ELSE [g.readers EXCEPT ![d.ty] = IF d.mutable THEN {} ELSE g.readers[d.ty] \union {s}]
      /\ h = [edges |-> h.edges, writers |-> h.writers, readers |-> h.readers]
  BY DEF AddAccess
<1> HIDE DEF h
<1>3. /\ DOMAIN g.edges = DOMAIN a /\ DOMAIN h.edges = DOMAIN a
      /\ \A p \in DOMAIN a : g.edges[p] \subseteq h.edges[p]
      /\ \A p \in Earlier(g, d) : s \in h.edges[p]
  BY <1>1, <1>2 DEF GraphOK
<1>4. h \in [edges : [DOMAIN a -> SUBSET DOMAIN a], writers : [AccessTypes -> SUBSET DOMAIN a],
             readers : [AccessTypes -> SUBSET DOMAIN a]]
  <2>1. h.edges \in [DOMAIN a -> SUBSET DOMAIN a]
    BY <1>1, <1>2 DEF GraphOK
  <2>2. h.writers \in [AccessTypes -> SUBSET DOMAIN a]
    BY <1>0, <1>2 DEF GraphOK, NoAccess
  <2>3. h.readers \in [AccessTypes -> SUBSET DOMAIN a]
    BY <1>0, <1>2 DEF GraphOK, NoAccess
  <2> QED
    BY <1>2, <2>1, <2>2, <2>3
<1>5. \A e \in after : e[1] \in DOMAIN a /\ e[2] \in AccessDescs /\ e[1] <= s
  <2>1. \A e \in done : e[1] \in DOMAIN a /\ e[2] \in AccessDescs /\ e[1] <= s
    BY DEF GraphOK
  <2>2. s \in Nat /\ s <= s
    OBVIOUS
  <2> QED
    BY <2>1, <2>2
<1>6. \A p \in DOMAIN a : \A q \in h.edges[p] : p <= q
  BY <1>1, <1>2 DEF GraphOK
<1>7. \A t \in AccessTypes : \A p \in h.writers[t] \union h.readers[t] : p <= s
  BY <1>0, <1>2 DEF GraphOK, NoAccess
<1>8. \A p, q : Reaches(g.edges, p, q) => Reaches(h.edges, p, q)
  BY <1>3, ReachesMore
<1>9. \A p : \A q \in Earlier(g, d) : Reaches(g.edges, p, q) => Reaches(h.edges, p, s)
  BY <1>1, <1>3, <1>8, ReachesNext
<1>10. s \in Holders(h, d) /\ Reaches(h.edges, s, s)
  BY <1>0, <1>2 DEF Holders, Reaches, NoAccess, GraphOK
<1>11. ASSUME NEW e \in AccessDescs, NEW q \in Holders(g, e)
       PROVE  \/ q \in Holders(h, e)
              \/ q \in Earlier(g, d) /\ s \in Holders(h, e)
  <2>0. e.ty \in AccessTypes
    BY DEF AccessDescs
  <2>1. CASE d.ty = WorldAccess
    <3>1. Holders(g, e) \subseteq Earlier(g, d)
      BY <1>0, <2>0, <2>1 DEF Holders, Earlier
    <3>2. s \in Holders(h, e)
      BY <1>0, <1>2, <2>1 DEF Holders, NoAccess
    <3> QED
      BY <3>1, <3>2
  <2>2. CASE d.ty # WorldAccess /\ e.ty = d.ty /\ d.mutable
    <3>1. Holders(g, e) \subseteq Earlier(g, d)
      BY <2>2 DEF Holders, Earlier
    <3>2. s \in Holders(h, e)
      BY <1>0, <1>2, <2>2 DEF Holders, GraphOK
    <3> QED
      BY <3>1, <3>2
  <2>3. CASE d.ty # WorldAccess /\ (e.ty # d.ty \/ ~d.mutable)
    <3>1. h.writers[WorldAccess] = g.writers[WorldAccess]
      BY <1>0, <1>2, <2>3 DEF GraphOK
    <3>2. h.writers[e.ty] = g.writers[e.ty] /\ g.readers[e.ty] \subseteq h.readers[e.ty]
      BY <1>0, <1>2, <2>0, <2>3 DEF GraphOK
    <3>3. Holders(g, e) \subseteq Holders(h, e)
      <4>1. CASE e.ty = WorldAccess
        BY <3>1, <4>1 DEF Holders
      <4>2. CASE e.ty # WorldAccess
        BY <3>1, <3>2, <4>2 DEF Holders
      <4> QED
        BY <4>1, <4>2
    <3> QED
      BY <3>3
  <2> QED
    BY <2>1, <2>2, <2>3
<1>12. ASSUME NEW e \in after
       PROVE  \E q \in Holders(h, e[2]) : Reaches(h.edges, e[1], q)
  <2>1. CASE e = <<s, d>>
    BY <1>10, <2>1
  <2>2. CASE e \in done
    <3>1. PICK q \in Holders(g, e[2]) : Reaches(g.edges, e[1], q)
      BY <2>2 DEF GraphOK
    <3>2. CASE q \in Holders(h, e[2])
      BY <1>8, <3>1, <3>2
    <3>3. CASE q \in Earlier(g, d) /\ s \in Holders(h, e[2])
      BY <1>9, <3>1, <3>3
    <3> QED
      BY <1>5, <1>11, <3>2, <3>3
  <2> QED
    BY <2>1, <2>2
<1>13. ASSUME NEW e \in after, NEW f \in after, e[1] < f[1], Clash(e[2], f[2])
       PROVE  Reaches(h.edges, e[1], f[1])
  <2>1. e[1] \in Nat /\ f[1] \in Nat /\ s \in Nat /\ f[1] <= s
    BY <1>5, Zenon
  <2>2. e \in done
    <3>1. e # <<s, d>>
      BY <1>13, <2>1
    <3> QED
      BY <3>1
  <2>3. CASE f \in done
    BY <1>8, <1>13, <2>2, <2>3 DEF GraphOK
  <2>4. CASE f = <<s, d>>
    <3>1. PICK q \in Holders(g, e[2]) : Reaches(g.edges, e[1], q)
      BY <2>2 DEF GraphOK
    <3>2. Holders(g, e[2]) \subseteq Earlier(g, d)
      BY <1>5, <1>13, <2>4, HoldersAreEarlier
    <3> QED
      BY <1>9, <2>4, <3>1, <3>2
  <2> QED
    BY <2>3, <2>4
<1> QED
  BY <1>4, <1>5, <1>6, <1>7, <1>12, <1>13 DEF GraphOK, h

\* The accesses of the systems up to s.
AccessesUpTo(a, s) == UNION {{<<p, a[p][i]>> : i \in DOMAIN a[p]} : p \in 1 .. s}

Graphs(a) ==
  [edges : [DOMAIN a -> SUBSET DOMAIN a], writers : [AccessTypes -> SUBSET DOMAIN a],
   readers : [AccessTypes -> SUBSET DOMAIN a]]

\* AddAccess makes a graph of a graph.
LEMMA AddAccessType ==
  ASSUME NEW a, NEW g \in Graphs(a), NEW s \in DOMAIN a, NEW d \in AccessDescs
  PROVE  AddAccess(g, s, d) \in Graphs(a)
<1> DEFINE h == AddAccess(g, s, d)
<1>0. /\ d.ty \in AccessTypes /\ d.mutable \in BOOLEAN
      /\ WorldAccess \in AccessTypes
  BY AccessesAssumption DEF AccessDescs
<1>1. /\ h.edges = [p \in DOMAIN g.edges |->
                      IF p \in Earlier(g, d) THEN g.edges[p] \union {s} ELSE g.edges[p]]
      /\ h.writers = IF d.ty = WorldAccess THEN [NoAccess EXCEPT ![WorldAccess] = {s}]
                     ELSE IF d.mutable THEN [g.writers EXCEPT ![d.ty] = {s}] ELSE g.writers
      /\ h.readers = IF d.ty = WorldAccess THEN NoAccess
                     ELSE [g.readers EXCEPT ![d.ty] = IF d.mutable THEN {} ELSE g.readers[d.ty] \union {s}]
      /\ h = [edges |-> h.edges, writers |-> h.writers, readers |-> h.readers]
  BY DEF AddAccess
<1> HIDE DEF h
<1>2. h.edges \in [DOMAIN a -> SUBSET DOMAIN a]
  BY <1>1 DEF Graphs
<1>3. h.writers \in [AccessTypes -> SUBSET DOMAIN a]
  BY <1>0, <1>1 DEF Graphs, NoAccess
<1>4. h.readers \in [AccessTypes -> SUBSET DOMAIN a]
  BY <1>0, <1>1 DEF Graphs, NoAccess
<1> QED
  BY <1>1, <1>2, <1>3, <1>4 DEF Graphs, h

\* The accesses of a system are added one after the other.
LEMMA AddSystemSteps ==
  ASSUME NEW a \in Seq(Seq(AccessDescs)), NEW s \in DOMAIN a, NEW g \in Graphs(a)
  PROVE  \E added \in [0 .. Len(a[s]) -> Graphs(a)] :
           /\ added[0] = g
           /\ \A k \in 1 .. Len(a[s]) : added[k] = AddAccess(added[k - 1], s, a[s][k])
           /\ AddSystem(g, s, a[s]) = added[Len(a[s])]
<1> DEFINE n == Len(a[s])
           step == [k \in 1 .. n |-> [h \in Graphs(a) |-> AddAccess(h, s, a[s][k])]]
           IsAdded(f) == f = [k \in 0 .. n |-> IF k = 0 THEN g ELSE AddAccess(f[k - 1], s, a[s][k])]
           added == CHOOSE f : IsAdded(f)
<1>0. n \in Nat /\ \A k \in 1 .. n : a[s][k] \in AccessDescs
  OBVIOUS
<1>n. n = Len(a[s])
  OBVIOUS
<1> HIDE DEF n
<1>1. step \in [1 .. n -> [Graphs(a) -> Graphs(a)]]
  BY <1>0, AddAccessType
<1>2. \E f : IsAdded(f)
  <2> HIDE DEF step
  <2>1. PICK f \in [0 .. n -> Graphs(a)] : Iterates(f, n, g, step)
    <3>1. n \in Nat /\ g \in Graphs(a) /\ step \in [1 .. n -> [Graphs(a) -> Graphs(a)]]
      BY <1>0, <1>1
    <3> QED
      BY <3>1, RecursionExists
  <2>2. ASSUME NEW k \in 1 .. n
        PROVE  step[k][f[k - 1]] = AddAccess(f[k - 1], s, a[s][k])
    <3>1. f[k - 1] \in Graphs(a)
      BY <1>0
    <3> QED
      BY <3>1 DEF step
  <2>3. \A k \in 0 .. n : f[k] = IF k = 0 THEN g ELSE AddAccess(f[k - 1], s, a[s][k])
    BY <1>0, <2>1, <2>2 DEF Iterates
  <2>4. f = [k \in 0 .. n |-> f[k]]
    OBVIOUS
  <2>5. IsAdded(f)
    BY <2>3, <2>4
  <2> HIDE DEF IsAdded
  <2> QED
    BY <2>5
<1>3. IsAdded(added)
  <2> HIDE DEF IsAdded
  <2> QED
    BY <1>2
<1>4. AddSystem(g, s, a[s]) = added[n]
  BY <1>n DEF AddSystem
<1> HIDE DEF added
<1>5. /\ added[0] = g
      /\ \A k \in 1 .. n : added[k] = AddAccess(added[k - 1], s, a[s][k])
      /\ added = [k \in 0 .. n |-> added[k]]
  <2>1. \A k \in 0 .. n : added[k] = IF k = 0 THEN g ELSE AddAccess(added[k - 1], s, a[s][k])
    BY <1>3, Zenon
  <2>2. added = [k \in 0 .. n |-> added[k]]
    BY <1>3, <2>1, Zenon
  <2>3. added[0] = g
    BY <1>0, <2>1
  <2>4. ASSUME NEW k \in 1 .. n
        PROVE  added[k] = AddAccess(added[k - 1], s, a[s][k])
    <3>1. k \in 0 .. n /\ k # 0
      BY <1>0
    <3> QED
      BY <2>1, <3>1
  <2> QED
    BY <2>2, <2>3, <2>4
<1> DEFINE T == {k \in 0 .. n : added[k] \in Graphs(a)}
<1>6. 0 .. n \subseteq T
  <2>1. 0 \in T
    BY <1>0, <1>5
  <2>2. ASSUME NEW k \in 1 .. n, k - 1 \in T
        PROVE  k \in T
    <3>1. added[k - 1] \in Graphs(a) /\ a[s][k] \in AccessDescs
      BY <1>0, <2>2
    <3>2. added[k] \in Graphs(a)
      BY <1>5, <3>1, AddAccessType
    <3> QED
      BY <3>2
  <2> HIDE DEF T
  <2> QED
    BY <1>0, <2>1, <2>2, UpTo
<1>7. added \in [0 .. n -> Graphs(a)]
  BY <1>5, <1>6
<1> QED
  BY <1>n, <1>4, <1>5, <1>7

\* So do all accesses of a system, one after the other.
LEMMA AddSystemOK ==
  ASSUME NEW a \in Seq(Seq(AccessDescs)), NEW s \in DOMAIN a, NEW g,
         GraphOK(a, g, s - 1, AccessesUpTo(a, s - 1))
  PROVE  GraphOK(a, AddSystem(g, s, a[s]), s, AccessesUpTo(a, s))
<1> DEFINE n == Len(a[s])
           Upto(k) == {<<s, a[s][i]>> : i \in 1 .. k}
           done(k) == AccessesUpTo(a, s - 1) \union Upto(k)
<1>0. /\ DOMAIN a = 1 .. Len(a) /\ Len(a) \in Nat /\ DOMAIN a \subseteq Nat
      /\ a[s] \in Seq(AccessDescs) /\ n \in Nat /\ DOMAIN a[s] = 1 .. n
      /\ \A k \in 1 .. n : a[s][k] \in AccessDescs
      /\ n = Len(a[s])
  OBVIOUS
<1> HIDE DEF n
<1>1. g \in Graphs(a)
  BY DEF GraphOK, Graphs
<1>a. PICK added \in [0 .. Len(a[s]) -> Graphs(a)] :
        /\ added[0] = g
        /\ \A k \in 1 .. Len(a[s]) : added[k] = AddAccess(added[k - 1], s, a[s][k])
        /\ AddSystem(g, s, a[s]) = added[Len(a[s])]
  BY <1>1, AddSystemSteps
<1>2. /\ added[0] = g
      /\ \A k \in 1 .. n : added[k] = AddAccess(added[k - 1], s, a[s][k])
      /\ AddSystem(g, s, a[s]) = added[n]
  BY <1>0, <1>a
<1> DEFINE T == {k \in 0 .. n : GraphOK(a, added[k], s, done(k))}
<1>3. GraphOK(a, g, s, AccessesUpTo(a, s - 1))
  <2> DEFINE before == AccessesUpTo(a, s - 1)
  <2>1. GraphOK(a, g, s - 1, before)
    OBVIOUS
  <2> HIDE DEF before
  <2>2. \A p \in Nat : p <= s - 1 => p <= s
    BY <1>0
  <2>3. \A t \in AccessTypes : \A p \in g.writers[t] \union g.readers[t] : p \in Nat /\ p <= s - 1
    BY <1>0, <2>1 DEF GraphOK
  <2>4. \A e \in before : e[1] \in Nat /\ e[1] <= s - 1
    BY <1>0, <2>1 DEF GraphOK
  <2>5. \A t \in AccessTypes : \A p \in g.writers[t] \union g.readers[t] : p <= s
    BY <2>2, <2>3
  <2>6. \A e \in before : e[1] \in DOMAIN a /\ e[2] \in AccessDescs /\ e[1] <= s
    <3>1. \A e \in before : e[1] \in DOMAIN a /\ e[2] \in AccessDescs
      BY <2>1 DEF GraphOK
    <3> QED
      BY <2>2, <2>4, <3>1
  <2> QED
    BY <2>1, <2>5, <2>6 DEF GraphOK
<1>4. 0 \in T
  <2>1. done(0) = AccessesUpTo(a, s - 1)
    BY <1>0
  <2>2. GraphOK(a, added[0], s, done(0))
    BY <1>2, <1>3, <2>1
  <2> QED
    BY <1>0, <2>2
<1>5. ASSUME NEW k \in 1 .. n, k - 1 \in T
      PROVE  k \in T
  <2>1. done(k) = done(k - 1) \union {<<s, a[s][k]>>}
    <3>1. 1 .. k = (1 .. k - 1) \union {k}
      BY <1>0
    <3> QED
      BY <3>1
  <2>2. GraphOK(a, added[k - 1], s, done(k - 1))
    BY <1>5
  <2> HIDE DEF done
  <2>3. GraphOK(a, AddAccess(added[k - 1], s, a[s][k]), s, done(k - 1) \union {<<s, a[s][k]>>})
    BY <1>0, <2>2, AddAccessOK
  <2>4. GraphOK(a, added[k], s, done(k))
    BY <1>2, <2>1, <2>3
  <2> QED
    BY <2>4
<1>6. GraphOK(a, added[n], s, done(n))
  <2> HIDE DEF T
  <2>1. 0 .. n \subseteq T
    BY <1>0, <1>4, <1>5, UpTo
  <2>2. n \in 0 .. n
    BY <1>0
  <2>3. n \in T
    BY <2>1, <2>2, Zenon
  <2> USE DEF T
  <2> QED
    BY <2>3
<1>7. done(n) = AccessesUpTo(a, s)
  <2>1. 1 .. s = (1 .. s - 1) \union {s}
    BY <1>0
  <2>2. Upto(n) = {<<s, a[s][i]>> : i \in DOMAIN a[s]}
    BY <1>0
  <2> DEFINE Of(p) == {<<p, a[p][i]>> : i \in DOMAIN a[p]}
  <2>3. \A m, e : e \in AccessesUpTo(a, m) <=> \E p \in 1 .. m : e \in Of(p)
    BY Zenon DEF AccessesUpTo
  <2>4. \A e : e \in done(n) <=> e \in AccessesUpTo(a, s - 1) \/ e \in Of(s)
    BY <2>2
  <2> HIDE DEF Of, done
  <2>5. \A e : e \in done(n) <=> e \in AccessesUpTo(a, s)
    BY <2>1, <2>3, <2>4
  <2> QED
    BY <2>5
<1> QED
  BY <1>2, <1>6, <1>7

\* The graph of a schedule has edges to later systems and, from a system whose own
\* accesses conflict, to itself; and a path between any two systems that conflict.
LEMMA EdgesOrder ==
  ASSUME NEW a \in Seq(Seq(AccessDescs))
  PROVE  /\ EdgesOf(a) \in [DOMAIN a -> SUBSET DOMAIN a]
         /\ \A p \in DOMAIN a : \A s \in EdgesOf(a)[p] : p <= s
         /\ \A p, s \in DOMAIN a : \A i \in DOMAIN a[p], k \in DOMAIN a[s] :
              p < s /\ Clash(a[p][i], a[s][k]) => Reaches(EdgesOf(a), p, s)
<1> DEFINE n == Len(a)
           step == [s \in 1 .. n |-> [h \in Graphs(a) |-> AddSystem(h, s, a[s])]]
           IsGraph(f) == f = [s \in 0 .. n |-> IF s = 0 THEN NoEdges(a)
                                               ELSE AddSystem(f[s - 1], s, a[s])]
           graph == CHOOSE f : IsGraph(f)
<1>0. /\ DOMAIN a = 1 .. n /\ n \in Nat
      /\ \A s \in 1 .. n : a[s] \in Seq(AccessDescs)
      /\ \A s \in 1 .. n : Len(a[s]) \in Nat /\ DOMAIN a[s] = 1 .. Len(a[s])
      /\ \A s \in 1 .. n : \A k \in DOMAIN a[s] : a[s][k] \in AccessDescs
      /\ n = Len(a)
  OBVIOUS
<1> HIDE DEF n
<1>1. NoEdges(a) \in Graphs(a)
  BY DEF NoEdges, NoAccess, Graphs
<1>2. step \in [1 .. n -> [Graphs(a) -> Graphs(a)]]
  <2>1. ASSUME NEW s \in 1 .. n, NEW h \in Graphs(a)
        PROVE  AddSystem(h, s, a[s]) \in Graphs(a)
    <3>1. PICK added \in [0 .. Len(a[s]) -> Graphs(a)] :
                 /\ added[0] = h
                 /\ \A k \in 1 .. Len(a[s]) : added[k] = AddAccess(added[k - 1], s, a[s][k])
                 /\ AddSystem(h, s, a[s]) = added[Len(a[s])]
      BY <1>0, AddSystemSteps
    <3>2. Len(a[s]) \in 0 .. Len(a[s])
      BY <1>0
    <3> QED
      BY <3>1, <3>2
  <2> QED
    BY <2>1
<1>3. \E f : IsGraph(f)
  <2> HIDE DEF step
  <2>1. PICK f \in [0 .. n -> Graphs(a)] : Iterates(f, n, NoEdges(a), step)
    <3>1. n \in Nat /\ NoEdges(a) \in Graphs(a) /\ step \in [1 .. n -> [Graphs(a) -> Graphs(a)]]
      BY <1>0, <1>1, <1>2
    <3> QED
      BY <3>1, RecursionExists
  <2>2. ASSUME NEW s \in 1 .. n
        PROVE  step[s][f[s - 1]] = AddSystem(f[s - 1], s, a[s])
    <3>1. s - 1 \in 0 .. n
      BY <1>0
    <3>2. f[s - 1] \in Graphs(a)
      BY <2>1, <3>1
    <3> QED
      BY <3>2 DEF step
  <2>3. \A s \in 0 .. n : f[s] = IF s = 0 THEN NoEdges(a) ELSE AddSystem(f[s - 1], s, a[s])
    BY <1>0, <2>1, <2>2 DEF Iterates
  <2>4. f = [s \in 0 .. n |-> f[s]]
    OBVIOUS
  <2>5. IsGraph(f)
    BY <2>3, <2>4
  <2> HIDE DEF IsGraph
  <2> QED
    BY <2>5
<1>4. IsGraph(graph)
  <2> HIDE DEF IsGraph
  <2> QED
    BY <1>3
<1>5. EdgesOf(a) = graph[n].edges
  BY <1>0 DEF EdgesOf
<1> HIDE DEF graph
<1>6. /\ graph[0] = NoEdges(a)
      /\ \A s \in 1 .. n : graph[s] = AddSystem(graph[s - 1], s, a[s])
  <2>1. \A s \in 0 .. n : graph[s] = IF s = 0 THEN NoEdges(a) ELSE AddSystem(graph[s - 1], s, a[s])
    BY <1>4, Zenon
  <2> QED
    BY <1>0, <2>1
<1> DEFINE T == {s \in 0 .. n : GraphOK(a, graph[s], s, AccessesUpTo(a, s))}
<1>7. 0 \in T
  <2>1. AccessesUpTo(a, 0) = {}
    BY DEF AccessesUpTo
  <2>2. GraphOK(a, NoEdges(a), 0, {})
    BY <1>1 DEF GraphOK, NoEdges, NoAccess, Graphs
  <2>3. GraphOK(a, graph[0], 0, AccessesUpTo(a, 0))
    BY <1>6, <2>1, <2>2
  <2> QED
    BY <1>0, <2>3
<1>8. ASSUME NEW s \in 1 .. n, s - 1 \in T
      PROVE  s \in T
  <2>1. GraphOK(a, graph[s - 1], s - 1, AccessesUpTo(a, s - 1))
    BY <1>8
  <2>2. GraphOK(a, AddSystem(graph[s - 1], s, a[s]), s, AccessesUpTo(a, s))
    BY <1>0, <2>1, AddSystemOK
  <2>3. GraphOK(a, graph[s], s, AccessesUpTo(a, s))
    BY <1>6, <2>2
  <2> QED
    BY <2>3
<1>9. GraphOK(a, graph[n], n, AccessesUpTo(a, n))
  <2> HIDE DEF T
  <2>1. 0 .. n \subseteq T
    BY <1>0, <1>7, <1>8, UpTo
  <2> USE DEF T
  <2> QED
    BY <1>0, <2>1
<1>10. ASSUME NEW p \in DOMAIN a, NEW s \in DOMAIN a, NEW i \in DOMAIN a[p], NEW k \in DOMAIN a[s],
              p < s, Clash(a[p][i], a[s][k])
       PROVE  Reaches(graph[n].edges, p, s)
  <2> DEFINE e == <<p, a[p][i]>>
             f == <<s, a[s][k]>>
  <2>1. e \in AccessesUpTo(a, n) /\ f \in AccessesUpTo(a, n)
    BY <1>0 DEF AccessesUpTo
  <2>2. e[1] < f[1] /\ Clash(e[2], f[2])
    BY <1>10
  <2>3. Reaches(graph[n].edges, e[1], f[1])
    <3> HIDE DEF e, f
    <3> QED
      BY <1>9, <2>1, <2>2 DEF GraphOK
  <2> QED
    BY <2>3
<1> QED
  BY <1>5, <1>9, <1>10 DEF GraphOK

-----------------------------------------------------------------------------
(* One worker. *)

\* Until the loop of Scheduler::run has looked at every system, no worker is
\* busy, if the only one is the one that the loop is on; so none can overtake it.
QuietUntilSeeded ==
  /\ access \in Schedules /\ pool \in Pools
  /\ worker = [w \in Workers |-> worker[w]]
  /\ pool = {Seeder} =>
       /\ seeding = 0 \/ Seeding => \A w \in Workers : worker[w].pc = "idle"
       /\ seeding = 0 => \A s \in Systems : queued[s] = 0
       /\ ~overtaken

\* On a pool of one worker, the steps of Scheduler::run and of its tasks preserve
\* the invariant: a task is only taken once the loop is done.
LEMMA QuietInductive ==
  ASSUME QuietUntilSeeded, [Next]_vars
  PROVE  QuietUntilSeeded'
<1> USE DEF QuietUntilSeeded, Seeding, Systems
<1>1. CASE Run
  BY <1>1 DEF Run
<1>2. CASE Seed
  <2>1. seeding \in Nat \ {0}
    BY <1>2, SchedulerAssumption DEF Seed
  <2> QED
    BY <1>2, <2>1 DEF Seed
<1>3. CASE Finish
  BY <1>3 DEF Finish
<1>4. ASSUME NEW w \in pool, NEW s \in Systems, Begin(w, s)
      PROVE  QuietUntilSeeded'
  <2>1. pool = {Seeder} => ~(seeding = 0 \/ Seeding)
    BY <1>4 DEF Begin
  <2>2. worker' = [v \in Workers |-> worker'[v]]
    BY <1>4 DEF Begin
  <2> QED
    BY <1>4, <2>1, <2>2 DEF Begin
<1>5. ASSUME NEW w \in pool, Return(w)
      PROVE  QuietUntilSeeded'
  <2>1. w \in Workers
    BY SchedulerAssumption
  <2> QED
    BY <1>5, <2>1 DEF Return
<1>6. ASSUME NEW w \in pool, Release(w)
      PROVE  QuietUntilSeeded'
  <2>1. w \in Workers
    BY SchedulerAssumption
  <2>2. pool = {Seeder} => ~(seeding = 0 \/ Seeding)
    BY <1>6, <2>1 DEF Release
  <2> DEFINE busy == [worker[w] EXCEPT !.left = @ \ {Min(worker[w].left)}]
  <2>3. worker' = [worker EXCEPT ![w] = busy]
    BY <1>6 DEF Release
  <2> HIDE DEF busy
  <2>4. worker' = [v \in Workers |-> worker'[v]]
    BY <2>3
  <2>5. /\ access' = access /\ pool' = pool /\ seeding' = seeding
        /\ pool = {Seeder} => ~overtaken'
    BY <1>6, <2>2 DEF Release
  <2> QED
    BY <2>2, <2>4, <2>5
<1>7. ASSUME NEW w \in pool, Retire(w)
      PROVE  QuietUntilSeeded'
  <2>1. w \in Workers
    BY SchedulerAssumption
  <2> QED
    BY <1>7, <2>1 DEF Retire
<1>8. ASSUME NEW w \in pool, Panic(w)
      PROVE  QuietUntilSeeded'
  <2>1. w \in Workers
    BY SchedulerAssumption
  <2> QED
    BY <1>8, <2>1 DEF Panic, Idle
<1>9. CASE UNCHANGED vars
  BY <1>9 DEF vars
<1> QED
  BY <1>1, <1>2, <1>3, <1>4, <1>5, <1>6, <1>7, <1>8, <1>9 DEF Next, WorkerStep

\* The race of the loop in Scheduler::run with the tasks it spawned needs a
\* second worker: on a pool of one, for every schedule and any number of runs, no
\* task overtakes the loop.
THEOREM AloneOvertakesNever == Spec => []AloneNeverOvertaken
<1>1. Init => QuietUntilSeeded
  BY DEF Init, QuietUntilSeeded, Idle, Systems
<1>2. QuietUntilSeeded /\ [Next]_vars => QuietUntilSeeded'
  BY QuietInductive
<1>3. QuietUntilSeeded => AloneNeverOvertaken
  BY DEF QuietUntilSeeded, AloneNeverOvertaken
<1> QED
  BY <1>1, <1>2, <1>3, PTL DEF Spec

-----------------------------------------------------------------------------
(* The counts of a run. *)

\* A task of p has yet to lower the count of d.
ReleasingTo(p, d) ==
  \E w \in Workers : worker[w].pc = "releasing" /\ worker[w].system = p /\ d \in worker[w].left

\* The systems that d still waits for.
Waits(d) == {p \in Systems : d \in edges[p] /\ (p \notin returned \/ ReleasingTo(p, d))}

Spawned(d) == d \in called \/ queued[d] > 0

\* Tasks run only between the beginning and the end of a run, and each is of a system
\* that was called; a system that was called has a task until it returns or panics.
TasksOK ==
  /\ edges = EdgesOf(access)
  /\ seeding > 0 => tick <= MaxTicks
  /\ seeding = 0 => /\ \A s \in Systems : queued[s] = 0
                    /\ \A w \in Workers : worker[w].pc = "idle"
  /\ \A w \in Workers : worker[w].pc # "idle" => worker[w].system \in called
  /\ \A w \in Workers : worker[w].pc = "releasing" =>
       worker[w].system \in returned /\ worker[w].left \subseteq edges[worker[w].system]
  /\ \A s \in called : \/ s \in returned \union panicked
                       \/ \E w \in Workers : worker[w].pc = "calling" /\ worker[w].system = s

\* Until a system is spawned its count is at most the number of those it waits for; and
\* above 0, unless it waits for none and the loop of Scheduler::run has yet to look at it.
\* This holds even if a task overtook the loop and a system is called twice.
CountsOK ==
  seeding > 0 => \A d \in Systems : ~Spawned(d) =>
    /\ degree[d] <= Cardinality(Waits(d))
    /\ degree[d] = 0 => seeding <= d /\ \A p \in Systems : d \notin edges[p]

\* As long as none did, the count is exact, and each system is spawned once, when it
\* waits for no other.
CountsExact ==
  ~overtaken /\ seeding > 0 =>
    /\ returned \intersect panicked = {}
    /\ \A d \in Systems : queued[d] <= 1 /\ (queued[d] = 1 => d \notin called)
    /\ \A d \in Systems : Spawned(d) => d < seeding /\ Waits(d) = {} /\ d \notin edges[d]
    /\ \A d \in Systems : ~Spawned(d) => degree[d] = Cardinality(Waits(d))
    /\ \A w \in Workers : worker[w].pc = "calling" => worker[w].system \notin returned \union panicked
    /\ \A v, w \in Workers : v # w /\ worker[v].pc # "idle" /\ worker[w].pc # "idle" =>
         worker[v].system # worker[w].system

IInv == TypeOK /\ TasksOK /\ CountsOK /\ CountsExact

\* fetch_sub on a count above 0.
LEMMA LoweredBelow ==
  ASSUME NEW n \in 1 .. CounterMax
  PROVE  Lowered(n) = n - 1
BY SchedulerAssumption DEF Lowered

\* fetch_sub on any count of 32 bits.
LEMMA LoweredType ==
  ASSUME NEW n \in 0 .. CounterMax
  PROVE  Lowered(n) \in 0 .. CounterMax
BY SchedulerAssumption DEF Lowered

\* The dependent whose count is lowered next is one of those left.
LEMMA MinOf ==
  ASSUME NEW S \in SUBSET Nat, S # {}
  PROVE  Min(S) \in S /\ \A k \in S : Min(S) <= k
BY LeastNumber DEF Min

\* What is true of a schedule and its systems.
LEMMA SystemsOK ==
  ASSUME access \in Schedules
  PROVE  /\ access \in Seq(Seq(AccessDescs))
         /\ Systems = 1 .. Len(access) /\ Len(access) \in Nat /\ Len(access) < CounterMax
         /\ IsFiniteSet(Systems) /\ Cardinality(Systems) = Len(access)
<1>1. access \in Seq(Seq(AccessDescs)) /\ Len(access) < CounterMax
  BY SchedulerAssumption
<1>2. Systems = 1 .. Len(access) /\ Len(access) \in Nat
  BY <1>1 DEF Systems
<1>3. ASSUME NEW n \in Nat
      PROVE  IsFiniteSet(1 .. n) /\ Cardinality(1 .. n) = n
  <2>1. IsFiniteSet(1 .. n) /\ Cardinality(1 .. n) = IF 1 > n THEN 0 ELSE n - 1 + 1
    BY FS_Interval
  <2> QED
    BY <2>1
<1> QED
  BY <1>1, <1>2, <1>3

\* A system waits for fewer systems than a counter counts.
LEMMA WaitsFinite ==
  ASSUME access \in Schedules, NEW d
  PROVE  IsFiniteSet(Waits(d)) /\ Cardinality(Waits(d)) \in 0 .. CounterMax
<1>1. Waits(d) \in SUBSET Systems
  BY DEF Waits
<1>2. IsFiniteSet(Waits(d)) /\ Cardinality(Waits(d)) <= Len(access)
  BY <1>1, SystemsOK, FS_Subset
<1>3. Cardinality(Waits(d)) \in Nat
  BY <1>2, FS_CardinalityType
<1> QED
  BY <1>2, <1>3, SystemsOK, SchedulerAssumption

\* reset_in_degrees stores a count of 32 bits.
LEMMA InDegreeType ==
  ASSUME access \in Schedules, NEW s
  PROVE  InDegree(s) \in 0 .. CounterMax
<1> DEFINE before == {p \in Systems : s \in edges[p]}
<1>1. before \in SUBSET Systems
  OBVIOUS
<1>2. InDegree(s) = Cardinality(before)
  BY DEF InDegree
<1> HIDE DEF before
<1>3. IsFiniteSet(before) /\ Cardinality(before) <= Len(access)
  BY <1>1, SystemsOK, FS_Subset
<1>4. Cardinality(before) \in Nat
  BY <1>3, FS_CardinalityType
<1> QED
  BY <1>2, <1>3, <1>4, SystemsOK, SchedulerAssumption

\* A scheduler that was built and has not run satisfies the invariant.
LEMMA InitOK == Init => IInv
<1> SUFFICES ASSUME Init
             PROVE  IInv
  OBVIOUS
<1>1. access \in Schedules /\ edges = EdgesOf(access)
  BY DEF Init
<1>2. edges \in [Systems -> SUBSET Systems]
  BY <1>1, SystemsOK, EdgesOrder DEF Systems
<1>3. degree \in [Systems -> 0 .. CounterMax]
  BY <1>1, InDegreeType DEF Init
<1>4. TypeOK
  <2>1. worker \in [Workers -> [pc : {"idle", "calling", "releasing"},
                               system : Systems \union {0}, left : SUBSET Systems]]
    BY DEF Init, Idle
  <2>2. seeding \in 0 .. Len(access) + 1 /\ tick \in 1 .. MaxTicks + 1
    BY <1>1, SystemsOK, SchedulerAssumption DEF Init
  <2>3. pool \in Pools /\ queued \in [Systems -> Nat] /\ overtaken \in BOOLEAN
    BY DEF Init
  <2>4. called \subseteq Systems /\ returned \union panicked \subseteq called
    BY DEF Init
  <2> QED
    BY <1>1, <1>2, <1>3, <2>1, <2>2, <2>3, <2>4 DEF TypeOK
<1>5. TasksOK
  BY <1>1 DEF Init, TasksOK, Idle
<1> QED
  BY <1>4, <1>5 DEF IInv, CountsOK, CountsExact, Init

\* What no step changes.
LEMMA ScheduleKept ==
  ASSUME IInv, [Next]_vars
  PROVE  /\ access' = access /\ pool' = pool /\ edges' = edges
         /\ Systems' = Systems
         /\ pool' \in Pools /\ access' \in Schedules /\ edges' \in [Systems' -> SUBSET Systems']
         /\ edges' = EdgesOf(access')
<1>1. access' = access /\ pool' = pool /\ edges' = edges
  BY DEF Next, vars, Run, Seed, Finish, WorkerStep, Begin, Return, Panic, Release, Retire
<1> QED
  BY <1>1 DEF Systems, IInv, TypeOK, TasksOK

\* reset_in_degrees makes the counts exact.
LEMMA RunOK ==
  ASSUME IInv, Run
  PROVE  IInv'
<1> USE DEF IInv
<1>0. /\ access' = access /\ pool' = pool /\ edges' = edges /\ Systems' = Systems
      /\ access' \in Schedules /\ access \in Schedules /\ Systems = 1 .. Len(access) /\ Len(access) \in Nat
  BY SystemsOK DEF TypeOK, Run, Systems
<1>1. TypeOK'
  <2>1. degree' \in [Systems' -> 0 .. CounterMax]
    BY <1>0, InDegreeType DEF Run
  <2>2. seeding' \in 0 .. Len(access') + 1
    BY <1>0 DEF Run
  <2> QED
    BY <1>0, <2>1, <2>2 DEF TypeOK, Run
<1>2. TasksOK'
  BY <1>0 DEF TasksOK, Run
<1>3. ASSUME NEW d \in Systems
      PROVE  degree'[d] = Cardinality(Waits(d))' /\ Waits(d)' = {p \in Systems : d \in edges[p]}
  <2>1. Waits(d)' = {p \in Systems : d \in edges[p]}
    BY <1>0 DEF Waits, Run
  <2>2. degree'[d] = InDegree(d)
    BY <1>3 DEF Run
  <2> QED
    BY <2>1, <2>2 DEF InDegree
<1>4. ASSUME NEW d \in Systems, degree'[d] = 0
      PROVE  seeding' <= d /\ \A p \in Systems : d \notin edges[p]
  <2> DEFINE before == {p \in Systems : d \in edges[p]}
  <2>1. before \in SUBSET Systems /\ Cardinality(before) = 0
    BY <1>3, <1>4
  <2> HIDE DEF before
  <2>2. before = {}
    BY <1>0, <2>1, SystemsOK, FS_Subset, FS_EmptySet
  <2> USE DEF before
  <2> QED
    BY <1>0, <2>2 DEF Run
<1>5. \A d \in Systems : ~Spawned(d)'
  BY <1>0 DEF TasksOK, Spawned, Run
<1>6. CountsOK'
  <2>1. \A d \in Systems : degree'[d] \in Int
    BY <1>0, <1>1 DEF TypeOK
  <2>2. \A d \in Systems : degree'[d] <= Cardinality(Waits(d))'
    BY <1>3, <2>1
  <2> QED
    BY <1>0, <1>4, <2>2 DEF CountsOK
<1>7. CountsExact'
  BY <1>0, <1>3, <1>5 DEF CountsExact, TasksOK, Run
<1> QED
  BY <1>1, <1>2, <1>6, <1>7

\* The loop spawns a system that was not spawned, and only if it waits for no other.
LEMMA SeedOK ==
  ASSUME IInv, Seed
  PROVE  IInv'
<1> USE DEF IInv
<1>0. /\ access' = access /\ pool' = pool /\ edges' = edges /\ Systems' = Systems
      /\ access' \in Schedules /\ access \in Schedules /\ Systems = 1 .. Len(access) /\ Len(access) \in Nat
      /\ seeding \in Systems /\ seeding' = seeding + 1 /\ seeding > 0
  <2>1. access' = access /\ pool' = pool /\ edges' = edges /\ seeding \in Systems /\ seeding' = seeding + 1
    BY DEF Seed, Seeding
  <2>2. access \in Schedules
    BY DEF TypeOK
  <2>3. Systems = 1 .. Len(access) /\ Len(access) \in Nat
    BY <2>2, SystemsOK
  <2> QED
    BY <2>1, <2>2, <2>3 DEF Systems
<1>1. /\ queued' \in [Systems' -> Nat]
      /\ queued'[seeding] = IF degree[seeding] = 0 THEN queued[seeding] + 1 ELSE queued[seeding]
      /\ \A d \in Systems \ {seeding} : queued'[d] = queued[d]
  <2> DEFINE new == IF degree[seeding] = 0 THEN queued[seeding] + 1 ELSE queued[seeding]
  <2>1. queued \in [Systems -> Nat] /\ new \in Nat
    BY <1>0 DEF TypeOK
  <2>2. queued' = [queued EXCEPT ![seeding] = new]
    BY DEF Seed
  <2> HIDE DEF new
  <2>3. queued' \in [Systems' -> Nat] /\ queued'[seeding] = new /\ \A d \in Systems \ {seeding} : queued'[d] = queued[d]
    BY <1>0, <2>1, <2>2
  <2> QED
    BY <2>3 DEF new
<1>2. TypeOK'
  BY <1>0, <1>1 DEF TypeOK, Seed
<1>3. TasksOK'
  BY <1>0 DEF TasksOK, Seed
<1>4. \A d : Waits(d)' = Waits(d)
  BY <1>0 DEF Waits, ReleasingTo, Seed
<1>5. \A d \in Systems : /\ Spawned(d) => Spawned(d)'
                         /\ Spawned(d)' => Spawned(d) \/ (d = seeding /\ degree[d] = 0)
  BY <1>0, <1>1 DEF Spawned, TypeOK, Seed
<1>6. CountsOK'
  <2> SUFFICES ASSUME NEW d \in Systems, ~Spawned(d)'
               PROVE  /\ degree[d] <= Cardinality(Waits(d))
                      /\ degree[d] = 0 => seeding + 1 <= d /\ \A p \in Systems : d \notin edges[p]
    BY <1>0, <1>4 DEF CountsOK, Seed
  <2>1. ~Spawned(d)
    BY <1>5
  <2>2. degree[d] = 0 => d # seeding
    BY <1>0, <1>1 DEF Spawned, TypeOK
  <2> QED
    BY <1>0, <2>1, <2>2 DEF CountsOK
<1>7. CountsExact'
  <2> SUFFICES ASSUME ~overtaken
               PROVE  CountsExact'
    BY DEF CountsExact, Seed
  <2>1. /\ called' = called /\ returned' = returned /\ panicked' = panicked /\ worker' = worker
        /\ degree' = degree
    BY DEF Seed
  <2>2. ASSUME degree[seeding] = 0, Spawned(seeding)
        PROVE  FALSE
    BY <1>0, <2>2 DEF CountsExact
  <2>3. ASSUME degree[seeding] = 0
        PROVE  Waits(seeding) = {} /\ seeding \notin edges[seeding] /\ seeding \notin called
               /\ queued[seeding] = 0
    <3>1. ~Spawned(seeding)
      BY <2>2, <2>3
    <3>2. Cardinality(Waits(seeding)) = 0
      BY <1>0, <2>3, <3>1 DEF CountsExact
    <3>3. Waits(seeding) = {}
      BY <1>0, <3>2, WaitsFinite, FS_EmptySet
    <3>4. seeding \notin called /\ queued[seeding] = 0
      BY <1>0, <3>1 DEF Spawned, TypeOK
    <3>5. seeding \notin edges[seeding]
      BY <1>0, <3>3, <3>4 DEF Waits, TypeOK
    <3> QED
      BY <3>3, <3>4, <3>5
  <2>4. \A d \in Systems : queued'[d] <= 1 /\ (queued'[d] = 1 => d \notin called)
    BY <1>0, <1>1, <2>3 DEF CountsExact
  <2>5. ASSUME NEW d \in Systems, Spawned(d)'
        PROVE  d < seeding + 1 /\ Waits(d) = {} /\ d \notin edges[d]
    <3>1. CASE Spawned(d)
      <4>1. d < seeding /\ Waits(d) = {} /\ d \notin edges[d]
        BY <1>0, <3>1 DEF CountsExact
      <4> QED
        BY <1>0, <4>1
    <3>2. CASE d = seeding /\ degree[d] = 0
      BY <1>0, <2>3, <3>2
    <3> QED
      BY <1>5, <2>5, <3>1, <3>2
  <2>6. \A d \in Systems : ~Spawned(d)' => degree[d] = Cardinality(Waits(d))
    BY <1>0, <1>5 DEF CountsExact
  <2> QED
    BY <1>0, <1>4, <2>1, <2>4, <2>5, <2>6 DEF CountsExact
<1> QED
  BY <1>2, <1>3, <1>6, <1>7

\* The end of the scope leaves no task.
LEMMA FinishOK ==
  ASSUME IInv, Finish
  PROVE  IInv'
<1> USE DEF IInv
<1>0. /\ access' = access /\ pool' = pool /\ edges' = edges /\ Systems' = Systems
      /\ access \in Schedules /\ Len(access) \in Nat
      /\ seeding = Len(access) + 1 /\ seeding' = 0 /\ seeding > 0
  BY SystemsOK DEF TypeOK, Finish, Systems
<1>1. TypeOK'
  <2>1. tick' \in 1 .. MaxTicks + 1
    BY <1>0, SchedulerAssumption DEF TypeOK, TasksOK, Finish
  <2> QED
    BY <1>0, <2>1 DEF TypeOK, Finish
<1>2. TasksOK'
  BY <1>0 DEF TasksOK, Finish
<1> QED
  BY <1>0, <1>1, <1>2 DEF CountsOK, CountsExact

\* What a set of systems counts.
LEMMA CountOf ==
  ASSUME access \in Schedules, NEW T \in SUBSET Systems
  PROVE  IsFiniteSet(T) /\ Cardinality(T) \in Nat
<1>1. IsFiniteSet(T)
  BY SystemsOK, FS_Subset
<1> QED
  BY <1>1, FS_CardinalityType

\* A worker's step happens in a run, and changes only what the worker does.
LEMMA WorkerOK ==
  ASSUME IInv, NEW w \in pool
  PROVE  /\ w \in Workers
         /\ worker[w].pc # "idle" => seeding > 0 /\ worker[w].system \in Systems
         /\ worker[w].left \in SUBSET Systems
         /\ \A s \in Systems : queued[s] > 0 => seeding > 0
<1>1. w \in Workers
  BY SchedulerAssumption DEF IInv, TypeOK
<1>2. seeding \in Nat
  BY SystemsOK DEF IInv, TypeOK
<1> QED
  BY <1>1, <1>2 DEF IInv, TypeOK, TasksOK

\* A task that begins was spawned once, so no other worker has one of its system.
LEMMA BeginOK ==
  ASSUME IInv, NEW w \in pool, NEW s \in Systems, Begin(w, s)
  PROVE  IInv'
<1> USE DEF IInv
<1> DEFINE new == [pc |-> "calling", system |-> s, left |-> {}]
<1>0. /\ access' = access /\ pool' = pool /\ edges' = edges /\ Systems' = Systems
      /\ seeding' = seeding /\ seeding > 0 /\ overtaken' = overtaken /\ tick' = tick
      /\ returned' = returned /\ panicked' = panicked /\ called' = called \union {s}
      /\ access \in Schedules /\ w \in Workers /\ worker[w].pc = "idle" /\ queued[s] > 0
  BY WorkerOK DEF TypeOK, Begin, Systems
<1>1. /\ worker' = [worker EXCEPT ![w] = new] /\ new.pc = "calling" /\ new.system = s
      /\ new \in [pc : {"idle", "calling", "releasing"}, system : Systems \union {0}, left : SUBSET Systems]
  BY DEF Begin
<1> HIDE DEF new
<1>2. worker'[w] = new /\ \A v \in Workers \ {w} : worker'[v] = worker[v]
  BY <1>0, <1>1 DEF TypeOK
<1>3. /\ queued' \in [Systems -> Nat] /\ queued'[s] = queued[s] - 1
      /\ \A d \in Systems \ {s} : queued'[d] = queued[d]
  BY <1>0 DEF TypeOK, Begin
<1>4. TypeOK'
  <2>1. degree' \in [Systems -> 0 .. CounterMax]
    BY SchedulerAssumption DEF TypeOK, Begin
  <2>2. worker' \in [Workers -> [pc : {"idle", "calling", "releasing"},
                                 system : Systems \union {0}, left : SUBSET Systems]]
    BY <1>1 DEF TypeOK
  <2> QED
    BY <1>0, <1>3, <2>1, <2>2 DEF TypeOK
<1>5. TasksOK'
  <2>1. ASSUME NEW v \in Workers
        PROVE  /\ worker'[v].pc # "idle" => worker'[v].system \in called'
               /\ worker'[v].pc = "releasing" =>
                    worker'[v].system \in returned /\ worker'[v].left \subseteq edges[worker'[v].system]
    BY <1>0, <1>1, <1>2 DEF TasksOK
  <2>2. ASSUME NEW t \in called'
        PROVE  \/ t \in returned \union panicked
               \/ \E v \in Workers : worker'[v].pc = "calling" /\ worker'[v].system = t
    <3>1. CASE t = s
      BY <1>0, <1>1, <1>2, <3>1
    <3>2. CASE t \in called
      BY <1>0, <1>2, <3>2 DEF TasksOK
    <3> QED
      BY <1>0, <3>1, <3>2
  <2> QED
    BY <1>0, <2>1, <2>2 DEF TasksOK
<1>6. \A d : Waits(d)' = Waits(d)
  <2>1. \A p, d : ReleasingTo(p, d)' <=> ReleasingTo(p, d)
    BY <1>0, <1>1, <1>2 DEF ReleasingTo
  <2> QED
    BY <1>0, <2>1 DEF Waits
<1>7. /\ \A d \in Systems : Spawned(d)' <=> Spawned(d)
      /\ Spawned(s)
      /\ \A d \in Systems \ {s} : degree'[d] = degree[d]
  BY <1>0, <1>3 DEF Spawned, TypeOK, Begin
<1>8. CountsOK'
  BY <1>0, <1>6, <1>7 DEF CountsOK
<1>9. CountsExact'
  <2> SUFFICES ASSUME ~overtaken
               PROVE  CountsExact'
    BY <1>0 DEF CountsExact
  <2>1. s \notin called /\ queued[s] = 1
    BY <1>0 DEF CountsExact, TypeOK
  <2>2. \A d \in Systems : queued'[d] <= 1 /\ (queued'[d] = 1 => d \notin called')
    BY <1>0, <1>3, <2>1 DEF CountsExact
  <2>3. \A v \in Workers : worker'[v].pc = "calling" => worker'[v].system \notin returned \union panicked
    BY <1>0, <1>1, <1>2, <2>1 DEF CountsExact, TypeOK
  <2>4. ASSUME NEW u \in Workers, NEW v \in Workers, u # v, worker'[u].pc # "idle", worker'[v].pc # "idle"
        PROVE  worker'[u].system # worker'[v].system
    <3>1. \A x \in Workers \ {w} : worker'[x].pc # "idle" => worker'[x].system # s
      BY <1>2, <2>1 DEF TasksOK
    <3> QED
      BY <1>0, <1>1, <1>2, <2>4, <3>1 DEF CountsExact
  <2> QED
    BY <1>0, <1>6, <1>7, <2>2, <2>3, <2>4 DEF CountsExact
<1> QED
  BY <1>4, <1>5, <1>8, <1>9

\* A system that returns is waited for until its task has lowered each count.
LEMMA ReturnOK ==
  ASSUME IInv, NEW w \in pool, Return(w)
  PROVE  IInv'
<1> USE DEF IInv
<1> DEFINE s == worker[w].system
           new == [pc |-> "releasing", system |-> s, left |-> edges[s]]
<1>0. /\ access' = access /\ pool' = pool /\ edges' = edges /\ Systems' = Systems
      /\ seeding' = seeding /\ seeding > 0 /\ overtaken' = overtaken /\ tick' = tick
      /\ degree' = degree /\ queued' = queued
      /\ returned' = returned \union {s} /\ panicked' = panicked /\ called' = called
      /\ access \in Schedules /\ w \in Workers /\ worker[w].pc = "calling"
      /\ s \in Systems /\ s \in called /\ edges[s] \in SUBSET Systems
  <2>1. w \in Workers /\ worker[w].pc = "calling"
    BY WorkerOK DEF Return
  <2>2. s \in Systems /\ s \in called /\ seeding > 0
    BY <2>1, WorkerOK DEF TasksOK
  <2> QED
    BY <2>1, <2>2 DEF TypeOK, Return, Systems
<1>1. /\ worker' = [worker EXCEPT ![w] = new] /\ new.pc = "releasing" /\ new.system = s /\ new.left = edges[s]
      /\ new \in [pc : {"idle", "calling", "releasing"}, system : Systems \union {0}, left : SUBSET Systems]
  BY <1>0 DEF Return
<1> HIDE DEF new, s
<1>2. worker'[w] = new /\ \A v \in Workers \ {w} : worker'[v] = worker[v]
  BY <1>0, <1>1 DEF TypeOK
<1>3. TypeOK'
  <2>1. worker' \in [Workers -> [pc : {"idle", "calling", "releasing"},
                                 system : Systems \union {0}, left : SUBSET Systems]]
    BY <1>1 DEF TypeOK
  <2> QED
    BY <1>0, <2>1 DEF TypeOK
<1>4. TasksOK'
  <2>1. ASSUME NEW v \in Workers
        PROVE  /\ worker'[v].pc # "idle" => worker'[v].system \in called
               /\ worker'[v].pc = "releasing" =>
                    worker'[v].system \in returned' /\ worker'[v].left \subseteq edges[worker'[v].system]
    BY <1>0, <1>1, <1>2 DEF TasksOK
  <2>2. ASSUME NEW t \in called
        PROVE  \/ t \in returned' \union panicked
               \/ \E v \in Workers : worker'[v].pc = "calling" /\ worker'[v].system = t
    <3>1. CASE t = s
      BY <1>0, <3>1
    <3>2. CASE t # s
      <4>1. \/ t \in returned \union panicked
            \/ \E v \in Workers \ {w} : worker[v].pc = "calling" /\ worker[v].system = t
        BY <1>0, <3>2 DEF TasksOK, s
      <4> QED
        BY <1>0, <1>2, <4>1
    <3> QED
      BY <3>1, <3>2
  <2> QED
    BY <1>0, <2>1, <2>2 DEF TasksOK
<1>5. \A d : Waits(d) \subseteq Waits(d)' /\ (s \notin returned => Waits(d)' = Waits(d))
  <2>1. \A p, d : ReleasingTo(p, d)' <=> ReleasingTo(p, d) \/ (p = s /\ d \in edges[s])
    BY <1>0, <1>1, <1>2 DEF ReleasingTo
  <2> QED
    BY <1>0, <2>1 DEF Waits
<1>6. \A d \in Systems : Spawned(d)' <=> Spawned(d)
  BY <1>0 DEF Spawned
<1>7. CountsOK'
  <2> SUFFICES ASSUME NEW d \in Systems, ~Spawned(d)
               PROVE  degree[d] <= Cardinality(Waits(d)')
    BY <1>0, <1>6 DEF CountsOK
  <2>1. degree[d] <= Cardinality(Waits(d)) /\ degree[d] \in Int
    BY <1>0 DEF CountsOK, TypeOK
  <2>2. Waits(d)' \in SUBSET Systems
    BY <1>0 DEF Waits
  <2>3. IsFiniteSet(Waits(d)') /\ Cardinality(Waits(d)') \in Nat
    BY <1>0, <2>2, CountOf
  <2>4. Cardinality(Waits(d)) <= Cardinality(Waits(d)') /\ Cardinality(Waits(d)) \in Nat
    BY <1>0, <1>5, <2>2, <2>3, FS_Subset, CountOf
  <2> QED
    BY <2>1, <2>3, <2>4
<1>8. CountsExact'
  <2> SUFFICES ASSUME ~overtaken
               PROVE  CountsExact'
    BY <1>0 DEF CountsExact
  <2>1. s \notin returned \union panicked
    BY <1>0 DEF CountsExact, s
  <2>2. \A v \in Workers : worker'[v].pc = "calling" => worker'[v].system \notin returned' \union panicked
    BY <1>0, <1>1, <1>2, <2>1 DEF CountsExact, s
  <2>3. ASSUME NEW u \in Workers, NEW v \in Workers, u # v, worker'[u].pc # "idle", worker'[v].pc # "idle"
        PROVE  worker'[u].system # worker'[v].system
    <3>1. \A x \in Workers : worker'[x].system = worker[x].system /\ (worker'[x].pc # "idle" => worker[x].pc # "idle")
      BY <1>0, <1>1, <1>2 DEF s
    <3> QED
      BY <1>0, <2>3, <3>1 DEF CountsExact
  <2>4. returned' \intersect panicked = {}
    BY <1>0, <2>1 DEF CountsExact
  <2> QED
    BY <1>0, <1>5, <1>6, <2>1, <2>2, <2>3, <2>4 DEF CountsExact
<1> QED
  BY <1>3, <1>4, <1>7, <1>8

\* A system that panics is waited for until the run ends.
LEMMA PanicOK ==
  ASSUME IInv, NEW w \in pool, Panic(w)
  PROVE  IInv'
<1> USE DEF IInv
<1> DEFINE s == worker[w].system
           new == Idle
<1>0. /\ access' = access /\ pool' = pool /\ edges' = edges /\ Systems' = Systems
      /\ seeding' = seeding /\ seeding > 0 /\ overtaken' = overtaken /\ tick' = tick
      /\ degree' = degree /\ queued' = queued
      /\ returned' = returned /\ panicked' = panicked \union {s} /\ called' = called
      /\ access \in Schedules /\ w \in Workers /\ worker[w].pc = "calling"
      /\ s \in Systems /\ s \in called
  <2>1. w \in Workers /\ worker[w].pc = "calling"
    BY WorkerOK DEF Panic
  <2>2. s \in Systems /\ s \in called /\ seeding > 0
    BY <2>1, WorkerOK DEF TasksOK
  <2> QED
    BY <2>1, <2>2 DEF TypeOK, Panic, Systems
<1>1. /\ worker' = [worker EXCEPT ![w] = new] /\ new.pc = "idle"
      /\ new \in [pc : {"idle", "calling", "releasing"}, system : Systems \union {0}, left : SUBSET Systems]
  BY <1>0 DEF Panic, Idle
<1> HIDE DEF new, s
<1>2. worker'[w] = new /\ \A v \in Workers \ {w} : worker'[v] = worker[v]
  BY <1>0, <1>1 DEF TypeOK
<1>3. TypeOK'
  <2>1. worker' \in [Workers -> [pc : {"idle", "calling", "releasing"},
                                 system : Systems \union {0}, left : SUBSET Systems]]
    BY <1>1 DEF TypeOK
  <2> QED
    BY <1>0, <2>1 DEF TypeOK
<1>4. TasksOK'
  <2>1. ASSUME NEW v \in Workers
        PROVE  /\ worker'[v].pc # "idle" => worker'[v].system \in called
               /\ worker'[v].pc = "releasing" =>
                    worker'[v].system \in returned /\ worker'[v].left \subseteq edges[worker'[v].system]
    BY <1>0, <1>1, <1>2 DEF TasksOK
  <2>2. ASSUME NEW t \in called
        PROVE  \/ t \in returned \union panicked'
               \/ \E v \in Workers : worker'[v].pc = "calling" /\ worker'[v].system = t
    <3>1. CASE t = s
      BY <1>0, <3>1
    <3>2. CASE t # s
      <4>1. \/ t \in returned \union panicked
            \/ \E v \in Workers \ {w} : worker[v].pc = "calling" /\ worker[v].system = t
        BY <1>0, <3>2 DEF TasksOK, s
      <4> QED
        BY <1>0, <1>2, <4>1
    <3> QED
      BY <3>1, <3>2
  <2> QED
    BY <1>0, <2>1, <2>2 DEF TasksOK
<1>5. \A d : Waits(d)' = Waits(d)
  <2>1. \A p, d : ReleasingTo(p, d)' <=> ReleasingTo(p, d)
    BY <1>0, <1>1, <1>2 DEF ReleasingTo
  <2> QED
    BY <1>0, <2>1 DEF Waits
<1>6. \A d \in Systems : Spawned(d)' <=> Spawned(d)
  BY <1>0 DEF Spawned
<1>7. CountsOK'
  BY <1>0, <1>5, <1>6 DEF CountsOK
<1>8. CountsExact'
  <2> SUFFICES ASSUME ~overtaken
               PROVE  CountsExact'
    BY <1>0 DEF CountsExact
  <2>1. s \notin returned \union panicked
    BY <1>0 DEF CountsExact, s
  <2>2. \A v \in Workers : worker'[v].pc # "idle" => v # w /\ worker'[v] = worker[v]
    BY <1>1, <1>2
  <2>3. \A v \in Workers : worker'[v].pc = "calling" => worker'[v].system \notin returned \union panicked'
    BY <1>0, <2>2 DEF CountsExact, s
  <2>4. ASSUME NEW u \in Workers, NEW v \in Workers, u # v, worker'[u].pc # "idle", worker'[v].pc # "idle"
        PROVE  worker'[u].system # worker'[v].system
    BY <1>0, <2>2, <2>4 DEF CountsExact
  <2>5. returned \intersect panicked' = {}
    BY <1>0, <2>1 DEF CountsExact
  <2> QED
    BY <1>0, <1>5, <1>6, <2>3, <2>4, <2>5 DEF CountsExact
<1> QED
  BY <1>3, <1>4, <1>7, <1>8

\* A task that ends has lowered all counts it had to.
LEMMA RetireOK ==
  ASSUME IInv, NEW w \in pool, Retire(w)
  PROVE  IInv'
<1> USE DEF IInv
<1> DEFINE new == Idle
<1>0. /\ access' = access /\ pool' = pool /\ edges' = edges /\ Systems' = Systems
      /\ seeding' = seeding /\ overtaken' = overtaken /\ tick' = tick
      /\ degree' = degree /\ queued' = queued
      /\ returned' = returned /\ panicked' = panicked /\ called' = called
      /\ w \in Workers /\ worker[w].pc = "releasing" /\ worker[w].left = {}
  BY WorkerOK DEF Retire, Systems
<1>1. /\ worker' = [worker EXCEPT ![w] = new] /\ new.pc = "idle"
      /\ new \in [pc : {"idle", "calling", "releasing"}, system : Systems \union {0}, left : SUBSET Systems]
  BY DEF Retire, Idle
<1> HIDE DEF new
<1>2. worker'[w] = new /\ \A v \in Workers \ {w} : worker'[v] = worker[v]
  BY <1>0, <1>1 DEF TypeOK
<1>3. TypeOK'
  <2>1. worker' \in [Workers -> [pc : {"idle", "calling", "releasing"},
                                 system : Systems \union {0}, left : SUBSET Systems]]
    BY <1>1 DEF TypeOK
  <2> QED
    BY <1>0, <2>1 DEF TypeOK
<1>4. TasksOK'
  <2>1. ASSUME NEW v \in Workers
        PROVE  /\ worker'[v].pc # "idle" => worker'[v].system \in called
               /\ worker'[v].pc = "releasing" =>
                    worker'[v].system \in returned /\ worker'[v].left \subseteq edges[worker'[v].system]
    BY <1>0, <1>1, <1>2 DEF TasksOK
  <2>2. ASSUME NEW t \in called
        PROVE  \/ t \in returned \union panicked
               \/ \E v \in Workers : worker'[v].pc = "calling" /\ worker'[v].system = t
    <3>1. \/ t \in returned \union panicked
          \/ \E v \in Workers \ {w} : worker[v].pc = "calling" /\ worker[v].system = t
      BY <1>0 DEF TasksOK
    <3> QED
      BY <1>2, <3>1
  <2> QED
    BY <1>0, <2>1, <2>2 DEF TasksOK, TypeOK
<1>5. \A d : Waits(d)' = Waits(d)
  <2>1. \A p, d : ReleasingTo(p, d)' <=> ReleasingTo(p, d)
    BY <1>0, <1>1, <1>2 DEF ReleasingTo
  <2> QED
    BY <1>0, <2>1 DEF Waits
<1>6. \A d \in Systems : Spawned(d)' <=> Spawned(d)
  BY <1>0 DEF Spawned
<1>7. CountsOK'
  BY <1>0, <1>5, <1>6 DEF CountsOK
<1>8. CountsExact'
  <2>1. \A v \in Workers : worker'[v].pc # "idle" => v # w /\ worker'[v] = worker[v]
    BY <1>1, <1>2
  <2> QED
    BY <1>0, <1>5, <1>6, <2>1 DEF CountsExact
<1> QED
  BY <1>3, <1>4, <1>7, <1>8

\* fetch_sub on a count: one system less is waited for, and where none is left the
\* loop of Scheduler::run has looked at the dependent before, unless it is overtaken.
LEMMA ReleaseOK ==
  ASSUME IInv, NEW w \in pool, Release(w)
  PROVE  IInv'
<1> USE DEF IInv
<1>a. PICK p : p = worker[w].system
  OBVIOUS
<1>b. PICK d : d = Min(worker[w].left)
  OBVIOUS
<1>c. PICK now : now = Lowered(degree[d])
  OBVIOUS
<1>d. PICK new : new = [worker[w] EXCEPT !.left = worker[w].left \ {d}]
  OBVIOUS
<1>0. /\ access' = access /\ pool' = pool /\ edges' = edges /\ Systems' = Systems
      /\ seeding' = seeding /\ seeding > 0 /\ seeding \in Nat /\ tick' = tick
      /\ returned' = returned /\ panicked' = panicked /\ called' = called
      /\ access \in Schedules /\ Systems \subseteq Nat /\ w \in Workers /\ worker[w].pc = "releasing"
      /\ p \in Systems /\ p \in returned /\ worker[w].left \in SUBSET edges[p]
      /\ worker[w].left \in SUBSET Systems /\ worker[w].left # {}
  <2>1. w \in Workers /\ worker[w].pc = "releasing" /\ worker[w].left # {}
    BY WorkerOK DEF Release
  <2>2. p \in Systems /\ p \in returned /\ seeding > 0 /\ worker[w].left \in SUBSET edges[p]
        /\ worker[w].left \in SUBSET Systems
    BY <1>a, <2>1, WorkerOK DEF TasksOK
  <2>3. access \in Schedules
    BY DEF TypeOK
  <2>4. Systems \subseteq Nat /\ seeding \in Nat
    BY <2>3, SystemsOK DEF TypeOK
  <2> QED
    BY <2>1, <2>2, <2>3, <2>4 DEF Release, Systems
<1>1. d \in worker[w].left /\ d \in Systems /\ d \in edges[p]
  <2>1. worker[w].left \in SUBSET Nat
    BY <1>0
  <2> QED
    BY <1>0, <1>b, <2>1, MinOf
<1>2. degree[d] \in 0 .. CounterMax /\ now \in 0 .. CounterMax /\ (degree[d] > 0 => now = degree[d] - 1)
  <2>1. degree[d] \in 0 .. CounterMax
    BY <1>1 DEF TypeOK
  <2>2. now \in 0 .. CounterMax
    BY <1>c, <2>1, LoweredType
  <2>3. ASSUME degree[d] > 0
        PROVE  now = degree[d] - 1
    <3>1. degree[d] \in 1 .. CounterMax
      BY <2>1, <2>3, SchedulerAssumption
    <3> QED
      BY <1>c, <3>1, LoweredBelow
  <2> QED
    BY <2>1, <2>2, <2>3
<1>3. /\ worker' = [worker EXCEPT ![w] = new]
      /\ new.pc = "releasing" /\ new.system = p /\ new.left = worker[w].left \ {d}
      /\ new \in [pc : {"idle", "calling", "releasing"}, system : Systems \union {0}, left : SUBSET Systems]
  BY <1>0, <1>a, <1>b, <1>d DEF Release, TypeOK
<1>4. /\ degree' = [degree EXCEPT ![d] = now]
      /\ queued' = [queued EXCEPT ![d] = IF now = 0 THEN queued[d] + 1 ELSE queued[d]]
      /\ overtaken' = (overtaken \/ (now = 0 /\ Seeding /\ seeding <= d))
  BY <1>b, <1>c DEF Release, IsFree
<1>5. worker'[w] = new /\ \A v \in Workers \ {w} : worker'[v] = worker[v]
  BY <1>0, <1>3 DEF TypeOK
<1>6. /\ degree' \in [Systems -> 0 .. CounterMax] /\ queued' \in [Systems -> Nat]
      /\ degree'[d] = now /\ queued'[d] = IF now = 0 THEN queued[d] + 1 ELSE queued[d]
      /\ \A e \in Systems \ {d} : degree'[e] = degree[e] /\ queued'[e] = queued[e]
  BY <1>1, <1>2, <1>4 DEF TypeOK
<1>7. TypeOK'
  <2>1. worker' \in [Workers -> [pc : {"idle", "calling", "releasing"},
                                 system : Systems \union {0}, left : SUBSET Systems]]
    BY <1>3 DEF TypeOK
  <2>2. overtaken' \in BOOLEAN
    BY <1>4 DEF TypeOK
  <2> QED
    BY <1>0, <1>6, <2>1, <2>2 DEF TypeOK
<1>8. TasksOK'
  <2>1. ASSUME NEW v \in Workers
        PROVE  /\ worker'[v].pc # "idle" => worker'[v].system \in called
               /\ worker'[v].pc = "releasing" =>
                    worker'[v].system \in returned /\ worker'[v].left \subseteq edges[worker'[v].system]
    <3>1. CASE v = w
      <4>1. p \in called /\ new.left \subseteq edges[p]
        BY <1>0, <1>3 DEF TypeOK
      <4> QED
        BY <1>0, <1>3, <1>5, <3>1, <4>1
    <3>2. CASE v # w
      BY <1>0, <1>5, <3>2 DEF TasksOK
    <3> QED
      BY <3>1, <3>2
  <2>2. ASSUME NEW t \in called
        PROVE  \/ t \in returned \union panicked
               \/ \E v \in Workers : worker'[v].pc = "calling" /\ worker'[v].system = t
    <3>1. \/ t \in returned \union panicked
          \/ \E v \in Workers \ {w} : worker[v].pc = "calling" /\ worker[v].system = t
      BY <1>0 DEF TasksOK
    <3> QED
      BY <1>5, <3>1
  <2> QED
    BY <1>0, <2>1, <2>2 DEF TasksOK
<1>9. \A e : e # d => Waits(e)' = Waits(e)
  <2>1. \A q, e : e # d => (ReleasingTo(q, e)' <=> ReleasingTo(q, e))
    BY <1>0, <1>3, <1>5, <1>a DEF ReleasingTo
  <2> QED
    BY <1>0, <2>1 DEF Waits
<1>10. p \in Waits(d) /\ Waits(d) \ {p} \subseteq Waits(d)' /\ Waits(d)' \subseteq Waits(d)
  <2>1. ReleasingTo(p, d)
    BY <1>0, <1>1, <1>a DEF ReleasingTo
  <2>2. \A q : q # p => (ReleasingTo(q, d)' <=> ReleasingTo(q, d))
    BY <1>0, <1>3, <1>5, <1>a DEF ReleasingTo
  <2> QED
    BY <1>0, <1>1, <2>1, <2>2 DEF Waits
<1>11. /\ Waits(d) \in SUBSET Systems /\ IsFiniteSet(Waits(d)) /\ IsFiniteSet(Waits(d))'
       /\ Cardinality(Waits(d)) \in Nat /\ Cardinality(Waits(d))' \in Nat
       /\ Cardinality(Waits(d) \ {p}) = Cardinality(Waits(d)) - 1
       /\ Cardinality(Waits(d))' >= Cardinality(Waits(d)) - 1
  <2>1. Waits(d) \in SUBSET Systems /\ Waits(d)' \in SUBSET Systems
    BY <1>10 DEF Waits
  <2>2. IsFiniteSet(Waits(d)) /\ IsFiniteSet(Waits(d))' /\ Cardinality(Waits(d)) \in Nat
        /\ Cardinality(Waits(d))' \in Nat
    BY <1>0, <2>1, CountOf
  <2>3. Cardinality(Waits(d) \ {p}) = Cardinality(Waits(d)) - 1
    BY <1>10, <2>2, FS_RemoveElement
  <2>4. Cardinality(Waits(d) \ {p}) <= Cardinality(Waits(d))'
    BY <1>10, <2>2, FS_Subset
  <2> QED
    BY <2>1, <2>2, <2>3, <2>4
<1>12. ASSUME ~Spawned(d)
       PROVE  degree[d] > 0 /\ now = degree[d] - 1 /\ degree[d] <= Cardinality(Waits(d))
  <2>1. degree[d] # 0 /\ degree[d] <= Cardinality(Waits(d))
    BY <1>0, <1>1, <1>12 DEF CountsOK
  <2> QED
    BY <1>2, <2>1
<1>13. /\ \A e \in Systems : e # d => (Spawned(e)' <=> Spawned(e))
       /\ Spawned(d)' <=> (Spawned(d) \/ now = 0)
  <2>1. queued[d] \in Nat
    BY <1>1 DEF TypeOK
  <2>2. Spawned(d)' <=> (Spawned(d) \/ now = 0)
    BY <1>0, <1>6, <2>1 DEF Spawned
  <2>3. ASSUME NEW e \in Systems, e # d
        PROVE  Spawned(e)' <=> Spawned(e)
    BY <1>0, <1>6, <2>3 DEF Spawned
  <2> QED
    BY <2>2, <2>3
<1>14. CountsOK'
  <2> SUFFICES ASSUME NEW e \in Systems, ~Spawned(e)'
               PROVE  /\ degree'[e] <= Cardinality(Waits(e))'
                      /\ degree'[e] = 0 => seeding <= e /\ \A q \in Systems : e \notin edges[q]
    BY <1>0 DEF CountsOK
  <2>1. CASE e = d
    BY <1>2, <1>6, <1>11, <1>12, <1>13, <2>1
  <2>2. CASE e # d
    BY <1>0, <1>6, <1>9, <1>13, <2>2 DEF CountsOK
  <2> QED
    BY <2>1, <2>2
<1>15. CountsExact'
  <2> SUFFICES ASSUME ~overtaken'
               PROVE  CountsExact'
    BY DEF CountsExact
  <2>1. ~overtaken /\ (now = 0 => ~(Seeding /\ seeding <= d))
    BY <1>4
  <2>2. ~Spawned(d)
    BY <1>0, <1>1, <1>10, <2>1 DEF CountsExact
  <2>3. d \notin called /\ queued[d] = 0
    BY <1>1, <2>2 DEF Spawned, TypeOK
  <2>4. degree[d] = Cardinality(Waits(d)) /\ now = degree[d] - 1
    BY <1>0, <1>1, <1>12, <2>1, <2>2 DEF CountsExact
  <2>5. Waits(d)' = Waits(d) \ {p}
    <3>1. ~ReleasingTo(p, d)'
      <4>1. \A v \in Workers \ {w} : worker[v].pc = "releasing" => worker[v].system # p
        BY <1>0, <2>1, <1>a DEF CountsExact
      <4> QED
        BY <1>3, <1>5, <4>1 DEF ReleasingTo
    <3>2. p \notin Waits(d)'
      BY <1>0, <3>1 DEF Waits
    <3> QED
      BY <1>10, <3>2
  <2>6. Cardinality(Waits(d))' = now
    BY <1>11, <2>4, <2>5
  <2>7. now = 0 => Waits(d)' = {} /\ d < seeding /\ d \notin edges[d]
    <3> SUFFICES ASSUME now = 0
                 PROVE  Waits(d)' = {} /\ d < seeding /\ d \notin edges[d]
      OBVIOUS
    <3>1. Waits(d)' = {}
      BY <1>11, <2>6, FS_EmptySet
    <3>2. d < seeding
      <4>1. seeding \in 1 .. Len(access) + 1 /\ d \in 1 .. Len(access) /\ Len(access) \in Nat
            /\ (seeding \in 1 .. Len(access) => Seeding)
        BY <1>0, <1>1, SystemsOK DEF TypeOK, Seeding
      <4> QED
        BY <2>1, <4>1
    <3>3. d \notin edges[d]
      BY <1>0, <1>1, <2>3, <3>1 DEF Waits, TypeOK
    <3> QED
      BY <3>1, <3>2, <3>3
  <2>8. \A e \in Systems : queued'[e] <= 1 /\ (queued'[e] = 1 => e \notin called)
    BY <1>0, <1>6, <2>1, <2>3 DEF CountsExact
  <2>9. \A e \in Systems : Spawned(e)' => e < seeding /\ Waits(e)' = {} /\ e \notin edges[e]
    BY <1>0, <1>9, <1>13, <2>1, <2>2, <2>7 DEF CountsExact
  <2>10. \A e \in Systems : ~Spawned(e)' => degree'[e] = Cardinality(Waits(e))'
    BY <1>0, <1>6, <1>9, <1>13, <2>1, <2>6 DEF CountsExact
  <2>11. \A v \in Workers : worker'[v].pc = worker[v].pc /\ worker'[v].system = worker[v].system
    BY <1>0, <1>3, <1>5, <1>a
  <2> QED
    BY <1>0, <2>1, <2>8, <2>9, <2>10, <2>11 DEF CountsExact
<1> QED
  BY <1>7, <1>8, <1>14, <1>15

\* Every step keeps the invariant.
LEMMA InvariantKept ==
  ASSUME IInv, [Next]_vars
  PROVE  IInv'
<1>1. CASE UNCHANGED vars
  <2> USE <1>1 DEF vars, IInv
  <2>1. TypeOK'
    BY DEF TypeOK, Systems
  <2>2. TasksOK'
    BY DEF TasksOK, Systems
  <2>3. Systems' = Systems /\ \A d : Waits(d)' = Waits(d) /\ (Spawned(d)' <=> Spawned(d))
    BY DEF Systems, Waits, ReleasingTo, Spawned
  <2>4. CountsOK'
    BY <2>3 DEF CountsOK
  <2>5. CountsExact'
    BY <2>3 DEF CountsExact
  <2> QED
    BY <2>1, <2>2, <2>4, <2>5
<1> QED
  BY <1>1, RunOK, SeedOK, FinishOK, BeginOK, ReturnOK, PanicOK, ReleaseOK, RetireOK DEF Next, WorkerStep

-----------------------------------------------------------------------------
(* What the invariant gives. *)

\* A task that has yet to lower a count is one that its system waits for.
LEMMA NoCounterWrapsOK ==
  ASSUME IInv
  PROVE  NoCounterWraps
<1> USE DEF IInv
<1> SUFFICES ASSUME ~overtaken, NEW w \in Workers, worker[w].pc = "releasing", worker[w].left # {}
             PROVE  degree[Min(worker[w].left)] > 0
  BY DEF NoCounterWraps
<1>1. PICK d : d = Min(worker[w].left)
  OBVIOUS
<1>2. PICK p : p = worker[w].system
  OBVIOUS
<1>3. access \in Schedules /\ Systems \subseteq Nat /\ seeding \in Nat /\ seeding # 0
  <2>1. access \in Schedules
    BY DEF TypeOK
  <2>2. seeding # 0
    BY DEF TasksOK
  <2> QED
    BY <2>1, <2>2, SystemsOK DEF TypeOK
<1>4. p \in Systems /\ p \in returned /\ worker[w].left \in SUBSET edges[p]
      /\ worker[w].left \in SUBSET Systems
  BY <1>2 DEF TypeOK, TasksOK
<1>5. d \in worker[w].left
  <2>1. worker[w].left \in SUBSET Nat
    BY <1>3, <1>4
  <2> QED
    BY <1>1, <2>1, MinOf
<1>6. d \in Systems /\ p \in Waits(d)
  BY <1>2, <1>4, <1>5 DEF Waits, ReleasingTo
<1>7. ~Spawned(d)
  BY <1>3, <1>6 DEF CountsExact
<1>8. degree[d] = Cardinality(Waits(d)) /\ degree[d] \in Nat
  BY <1>3, <1>6, <1>7 DEF CountsExact, TypeOK
<1>9. Cardinality(Waits(d)) # 0
  BY <1>3, <1>6, WaitsFinite, FS_EmptySet
<1> QED
  BY <1>1, <1>8, <1>9

\* In a run that ends as it should, a system is called when all those it has an edge from
\* have returned: so after those that it conflicts with, and before the ones after it.
LEMMA CalledInOrder ==
  ASSUME IInv, ~overtaken, seeding > 0, NEW s \in Systems, Waits(s) = {},
         NEW p \in Systems, p < s, Conflicting(p, s)
  PROVE  p \in returned
<1> USE DEF IInv
<1>1. access \in Schedules /\ access \in Seq(Seq(AccessDescs))
  BY SystemsOK DEF TypeOK
<1>2. Reaches(edges, p, s)
  <2>1. PICK i \in DOMAIN access[p], k \in DOMAIN access[s] : Clash(access[p][i], access[s][k])
    BY DEF Conflicting, Clash
  <2> QED
    BY <1>1, <2>1, EdgesOrder DEF TasksOK, Systems
<1> DEFINE C == returned \union {s}
<1>3. DOMAIN edges = Systems
  BY DEF TypeOK
<1>4. C \in SUBSET DOMAIN edges
  BY <1>3 DEF TypeOK
<1>5. ASSUME NEW q \in Systems, NEW t \in edges[q], t \in C
      PROVE  q \in C
  <2>1. t \in Systems /\ Waits(t) = {}
    BY <1>5 DEF CountsExact, TypeOK, Spawned
  <2> QED
    BY <1>5, <2>1 DEF Waits
<1>6. \A q \in DOMAIN edges : edges[q] \intersect C # {} => q \in C
  BY <1>3, <1>5
<1>7. p \in C
  BY <1>2, <1>4, <1>6 DEF Reaches
<1>8. p # s
  BY <1>1, SystemsOK
<1> QED
  BY <1>7, <1>8

\* Those that wait for themselves, for one of b, or for one that panicked.
WaitingFor(b) == {s \in Systems : s \in edges[s] \/ \E p \in b \union panicked : s \in edges[p]}

\* Blocked is the smallest set that contains those that wait for it.
LEMMA BlockedSmallest ==
  /\ WaitingFor(Blocked) \subseteq Blocked
  /\ \A b \in SUBSET Systems : WaitingFor(b) \subseteq b => Blocked \subseteq b
<1>1. Blocked = {s \in Systems : \A b \in SUBSET Systems : WaitingFor(b) \subseteq b => s \in b}
  BY DEF Blocked, WaitingFor
<1>2. \A b \in SUBSET Systems : WaitingFor(b) \subseteq b => Blocked \subseteq b
  BY <1>1
<1>3. ASSUME NEW s \in WaitingFor(Blocked), NEW b \in SUBSET Systems, WaitingFor(b) \subseteq b
      PROVE  s \in b
  <2>1. Blocked \subseteq b
    BY <1>2, <1>3
  <2>2. s \in WaitingFor(b)
    BY <1>3, <2>1 DEF WaitingFor
  <2> QED
    BY <1>3, <2>2
<1>4. WaitingFor(Blocked) \subseteq Systems
  BY DEF WaitingFor
<1> QED
  BY <1>1, <1>2, <1>3, <1>4

\* Of the systems that were not called and are not blocked, the first one waits for none:
\* so it was spawned, and there is no such system.  And the systems that were not called
\* contain all that wait for them, so all that are blocked.
LEMMA FinishComplete ==
  ASSUME IInv, Finish
  PROVE  RunIsComplete'
<1> USE DEF IInv
<1>1. /\ access \in Schedules /\ seeding > 0 /\ edges = EdgesOf(access)
      /\ Systems \in SUBSET Nat /\ \A s \in Systems : ~(seeding <= s)
      /\ \A s \in Systems : queued[s] = 0
      /\ \A w \in Workers : worker[w].pc = "idle"
  <2>1. access \in Schedules
    BY DEF TypeOK
  <2> QED
    BY <2>1, SystemsOK DEF Finish, TasksOK
<1>2. called = returned \union panicked
  BY <1>1 DEF TypeOK, TasksOK
<1>3. \A p \in Systems : \A s \in edges[p] : p <= s
  BY <1>1, SystemsOK, EdgesOrder DEF Systems
<1>4. Systems \ Blocked \subseteq called
  <2> DEFINE left == Systems \ (Blocked \union called)
  <2> SUFFICES ASSUME left # {}
               PROVE  FALSE
    OBVIOUS
  <2>1. left \in SUBSET Nat
    BY <1>1
  <2> HIDE DEF left
  <2>2. PICK s \in left : \A t \in left : s <= t
    BY <2>1, LeastNumber
  <2> USE DEF left
  <2>3. s \in Systems /\ s \notin WaitingFor(Blocked) /\ ~Spawned(s)
    BY <1>1, BlockedSmallest DEF Spawned
  <2>4. degree[s] \in Nat /\ degree[s] # 0 /\ degree[s] <= Cardinality(Waits(s))
    BY <1>1, <2>3 DEF CountsOK, TypeOK
  <2>5. Waits(s) # {}
    BY <1>1, <2>4, WaitsFinite, FS_EmptySet
  <2>6. PICK p \in Systems : s \in edges[p] /\ p \notin returned
    BY <1>1, <2>5 DEF Waits, ReleasingTo
  <2>7. p <= s /\ p # s /\ p \notin Blocked \union panicked
    BY <1>3, <2>3, <2>6 DEF WaitingFor
  <2>8. p \in left
    BY <1>2, <2>6, <2>7
  <2> QED
    BY <1>1, <2>1, <2>2, <2>7, <2>8
<1>5. ASSUME ~overtaken
      PROVE  called \intersect Blocked = {}
  <2>1. WaitingFor(Systems \ called) \subseteq Systems \ called
    <3> SUFFICES ASSUME NEW s \in WaitingFor(Systems \ called), s \in called
                 PROVE  FALSE
      BY DEF WaitingFor
    <3>1. s \in Systems /\ Waits(s) = {} /\ s \notin edges[s]
      BY <1>1, <1>5 DEF WaitingFor, CountsExact, Spawned
    <3>2. PICK p \in (Systems \ called) \union panicked : s \in edges[p]
      BY <3>1 DEF WaitingFor
    <3>3. p \in Systems
      BY <3>2 DEF TypeOK
    <3>4. p \in returned
      BY <3>1, <3>2, <3>3 DEF Waits
    <3> QED
      BY <1>1, <1>5, <3>2, <3>4 DEF CountsExact, TypeOK
  <2> QED
    BY <2>1, BlockedSmallest
<1>6. /\ Systems' = Systems /\ Blocked' = Blocked /\ called' = called
      /\ returned' = returned /\ panicked' = panicked /\ overtaken' = overtaken
  <2>1. /\ access' = access /\ edges' = edges /\ called' = called
        /\ returned' = returned /\ panicked' = panicked /\ overtaken' = overtaken
    BY DEF Finish
  <2>2. Systems' = Systems
    BY <2>1 DEF Systems
  <2> QED
    BY <2>1, <2>2 DEF Blocked
<1>7. called \subseteq Systems
  BY DEF TypeOK
<1> QED
  BY <1>2, <1>4, <1>5, <1>6, <1>7 DEF RunIsComplete

\* Between two runs nothing changes.
LEMMA CompleteKept ==
  ASSUME IInv, RunIsComplete, [Next]_vars
  PROVE  RunIsComplete'
<1>1. CASE UNCHANGED vars
  BY <1>1 DEF vars, RunIsComplete, Blocked, Systems
<1>2. CASE Run
  BY <1>2 DEF Run, RunIsComplete
<1>3. CASE Seed
  BY <1>3, SeedOK, SystemsOK DEF Seed, Seeding, RunIsComplete, IInv, TypeOK
<1>4. CASE Finish
  BY <1>4, FinishComplete
<1>5. ASSUME NEW w \in pool, WorkerStep(w)
      PROVE  RunIsComplete'
  <2>1. seeding > 0
    BY <1>5, WorkerOK DEF WorkerStep, Begin, Return, Panic, Release, Retire
  <2>2. seeding' = seeding
    BY <1>5 DEF WorkerStep, Begin, Return, Panic, Release, Retire
  <2> QED
    BY <2>1, <2>2 DEF RunIsComplete
<1> QED
  BY <1>1, <1>2, <1>3, <1>4, <1>5 DEF Next

-----------------------------------------------------------------------------
(* The theorems. *)

\* The schedule of a run, as SystemOrder sees it, does not change.
LEMMA OrderSystemsKept ==
  ASSUME IInv, [Next]_vars
  PROVE  /\ Systems' = Systems
         /\ {e \in Systems \X Systems : Conflicting(e[1], e[2])}'
              = {e \in Systems \X Systems : Conflicting(e[1], e[2])}
<1>1. access' = access /\ Systems' = Systems
  BY ScheduleKept
<1> QED
  BY <1>1 DEF Conflicting, Systems

\* When a run begins, every call of the one before has returned or panicked.
LEMMA OrderRun ==
  ASSUME IInv, Run
  PROVE  Order!NewRun
<1>1. called = returned \union panicked
  BY DEF IInv, TypeOK, TasksOK, Run
<1>2. /\ Systems' = Systems
      /\ {e \in Systems \X Systems : Conflicting(e[1], e[2])}'
           = {e \in Systems \X Systems : Conflicting(e[1], e[2])}
  BY OrderSystemsKept DEF Next
<1> QED
  BY <1>1, <1>2 DEF Run, Order!NewRun

\* A system that is taken from the queue waits for no other; those after it that
\* conflict with it still wait for it.
LEMMA OrderBegin ==
  ASSUME IInv, ~overtaken, NEW w \in pool, NEW s \in Systems, Begin(w, s)
  PROVE  Order!Begin(s)
<1> USE DEF IInv
<1>1. /\ seeding > 0 /\ s \notin called /\ Waits(s) = {}
      /\ Systems \in SUBSET Nat /\ called \in SUBSET Systems
  <2>1. seeding > 0 /\ queued[s] > 0
    BY WorkerOK DEF Begin
  <2>2. s \notin called /\ Waits(s) = {}
    BY <2>1 DEF CountsExact, Spawned, TypeOK
  <2>3. Systems \in SUBSET Nat
    BY SystemsOK DEF TypeOK
  <2> QED
    BY <2>1, <2>2, <2>3 DEF TypeOK
<1>2. \A p \in Systems : p < s /\ Conflicting(p, s) => p \in returned
  BY <1>1, CalledInOrder
<1>3. ASSUME NEW p \in called, p > s, Conflicting(s, p)
      PROVE  FALSE
  <2>1. p \in Systems /\ s < p /\ Waits(p) = {}
    BY <1>1, <1>3 DEF CountsExact, Spawned
  <2>2. s \in returned
    BY <1>1, <1>3, <2>1, CalledInOrder
  <2> QED
    BY <1>1, <2>2 DEF TypeOK
<1>4. /\ Systems' = Systems
      /\ {e \in Systems \X Systems : Conflicting(e[1], e[2])}'
           = {e \in Systems \X Systems : Conflicting(e[1], e[2])}
  BY OrderSystemsKept DEF Next, WorkerStep
<1>5. /\ \A p \in Systems : p < s /\ <<p, s>> \in {e \in Systems \X Systems : Conflicting(e[1], e[2])}
                            => p \in returned
      /\ \A p \in called : p > s => <<s, p>> \notin {e \in Systems \X Systems : Conflicting(e[1], e[2])}
  BY <1>2, <1>3
<1>6. called' = called \union {s} /\ returned' = returned /\ panicked' = panicked
  BY DEF Begin
<1> QED
  BY <1>1, <1>4, <1>5, <1>6 DEF Order!Begin

\* A call that returns or panics is the only one of its system.
LEMMA OrderEnd ==
  ASSUME IInv, ~overtaken, NEW w \in pool, Return(w) \/ Panic(w)
  PROVE  \E s \in Systems : Order!Return(s) \/ Order!Fail(s)
<1> USE DEF IInv
<1>1. PICK s : s = worker[w].system
  OBVIOUS
<1>2. /\ s \in Systems /\ s \in called /\ s \notin returned \union panicked
  <2>1. w \in Workers /\ worker[w].pc = "calling" /\ seeding > 0 /\ s \in Systems
    BY <1>1, WorkerOK DEF Return, Panic
  <2> QED
    BY <1>1, <2>1 DEF TasksOK, CountsExact
<1>3. /\ Systems' = Systems
      /\ {e \in Systems \X Systems : Conflicting(e[1], e[2])}'
           = {e \in Systems \X Systems : Conflicting(e[1], e[2])}
  BY OrderSystemsKept DEF Next, WorkerStep
<1>4. CASE Return(w)
  <2>1. returned' = returned \union {s} /\ called' = called /\ panicked' = panicked
    BY <1>1, <1>4 DEF Return
  <2> QED
    BY <1>2, <1>3, <2>1 DEF Order!Return
<1>5. CASE Panic(w)
  <2>1. panicked' = panicked \union {s} /\ called' = called /\ returned' = returned
    BY <1>1, <1>5 DEF Panic
  <2> QED
    BY <1>2, <1>3, <2>1 DEF Order!Fail
<1> QED
  BY <1>4, <1>5

\* Every step that overtakes nothing is one of SystemOrder, or leaves it as it is.
LEMMA OrderStep ==
  ASSUME IInv, [Next]_vars, ~overtaken'
  PROVE  [Order!Next]_(Order!vars)
<1>1. ~overtaken
  BY DEF Next, vars, Run, Seed, Finish, WorkerStep, Begin, Return, Panic, Release, Retire
<1>2. ASSUME called' = called, returned' = returned, panicked' = panicked
      PROVE  UNCHANGED Order!vars
  BY <1>2, OrderSystemsKept DEF Order!vars
<1>3. CASE Run
  BY <1>3, OrderRun DEF Order!Next
<1>4. ASSUME NEW w \in pool, NEW s \in Systems, Begin(w, s)
      PROVE  Order!Next
  BY <1>1, <1>4, OrderBegin DEF Order!Next
<1>5. ASSUME NEW w \in pool, Return(w) \/ Panic(w)
      PROVE  Order!Next
  BY <1>1, <1>5, OrderEnd DEF Order!Next
<1>6. CASE Seed \/ Finish
  BY <1>2, <1>6 DEF Seed, Finish
<1>7. ASSUME NEW w \in pool, Release(w) \/ Retire(w)
      PROVE  UNCHANGED Order!vars
  BY <1>2, <1>7 DEF Release, Retire
<1>8. CASE UNCHANGED vars
  BY <1>2, <1>8 DEF vars
<1> QED
  BY <1>3, <1>4, <1>5, <1>6, <1>7, <1>8 DEF Next, WorkerStep

\* For every list of schedules, on every pool and for any number of runs, the state
\* of the scheduler has its type: no count leaves 32 bits, and only called systems return.
THEOREM SchedulerTypes == Spec => []TypeOK
<1>1. IInv => TypeOK
  BY DEF IInv
<1> QED
  BY <1>1, InitOK, InvariantKept, PTL DEF Spec

\* The fetch_sub of run_system never finds a count at 0 for any schedule, as long as
\* no task overtakes the loop of Scheduler::run.
THEOREM CountersNeverWrap == Spec => []NoCounterWraps
<1>1. IInv => NoCounterWraps
  BY NoCounterWrapsOK
<1> QED
  BY <1>1, InitOK, InvariantKept, PTL DEF Spec

\* When a call of Scheduler::run ends, every system was called that does not wait, over
\* any number of edges, for itself or for one that panicked; even if a task overtook the
\* loop. Unless one did, no other was.
THEOREM RunsComplete == Spec => []RunIsComplete
<1>1. Init => RunIsComplete
  BY DEF Init, RunIsComplete
<1>2. IInv /\ RunIsComplete /\ [Next]_vars => RunIsComplete'
  BY CompleteKept
<1> QED
  BY <1>1, <1>2, InitOK, InvariantKept, PTL DEF Spec

\* The builder's edges and the counts keep the promised order for every schedule: unless
\* a task overtakes the loop, run_system calls each system once, after those before it
\* that it conflicts with have returned, and no two calls that conflict overlap.
THEOREM RunsInOrder == Spec => OrderKept
<1>1. IInv /\ [Next]_vars => [~overtaken' => [Order!Next]_(Order!vars)]_vars
  BY OrderStep
<1> QED
  BY <1>1, InitOK, InvariantKept, PTL DEF Spec, OrderKept
=============================================================================
