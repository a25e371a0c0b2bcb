------------------------------- MODULE Queries -------------------------------
(***************************************************************************)
(* A query of a system (query/query.rs, iter.rs and par_iter.rs) over the  *)
(* tables of a World that changes between the runs of the system.  The     *)
(* query caches the tables that match it; when the system runs, it         *)
(* iterates over their rows from one end or both, or in parallel with      *)
(* producers that rayon splits.                                            *)
(*                                                                         *)
(* While a system runs, the world has no `&mut` operation: tables and rows *)
(* stay as they are.  Archetypal filters only: the iterators meet a dynamic *)
(* one with a todo!.  The debug build is modelled: the subtraction that    *)
(* would wrap panics.                                                      *)
(***************************************************************************)
EXTENDS World, Filters

CONSTANT QueryTypes  \* the data and filter of each query: a set of types, and a filter

ASSUME QueryAssumption ==
  QueryTypes \subseteq [data : SUBSET Components, filter : FilterTrees]

VARIABLES
  query,      \* the query: one of QueryTypes
  state,      \* QueryState: cache, next_scan and generation
  phase,      \* what the system does with the query
  iter,       \* QueryIter
  producers,  \* the TableProducers of a parallel iteration that have not ended
  yielded     \* how often each row was returned in this iteration

queryVars == <<vars, query, state, phase, iter, producers, yielded>>

TableIndices == DOMAIN archetypes.tables
RowCount(i) == Len(archetypes.tables[i].entities)

-----------------------------------------------------------------------------
(* The cache.                                                               *)

\* The test that cache_tables makes of one signature.
Matches(sig) == query.data \subseteq sig /\ Applies(query.filter, sig)

EmptyState == [cache |-> <<>>, next_scan |-> 1, generation |-> 0]

\* The cache with the matching tables from next_scan on.
Scanned(s) ==
  LET cache[n \in 0 .. Len(archetypes.tables) - s.next_scan + 1] ==
        IF n = 0 THEN s.cache
        ELSE IF Matches(archetypes.tables[s.next_scan + n - 1].signature)
             THEN Append(cache[n - 1], s.next_scan + n - 1)
             ELSE cache[n - 1]
  IN  cache[Len(archetypes.tables) - s.next_scan + 1]

\* Mutant: the last table that was scanned is scanned again.
CacheTablesAgain(s) ==
  [cache |-> Scanned(s), next_scan |-> Len(archetypes.tables), generation |-> archetypes.generation]

\* Archetypes::cache_tables, and the generation that its callers take over.
CacheTables(s) ==
  [cache      |-> Scanned(s),
   next_scan  |-> Len(archetypes.tables) + 1,
   generation |-> archetypes.generation]

\* get_base_ptrs expects a column for every type of the query; a table that a removal
\* created may match and have none.
MissesColumn(s) ==
  \E i \in s.next_scan .. Len(archetypes.tables) :
    /\ Matches(archetypes.tables[i].signature)
    /\ ~(query.data \subseteq ColumnTypes(archetypes.tables[i]))

-----------------------------------------------------------------------------
(* A window is what is left of one table: `remaining` rows after `base`.    *)

Window(i, base, remaining) == [table |-> i, base |-> base, remaining |-> remaining]
WholeTable(i) == Window(i, 0, RowCount(i))
NoTable == Window(0, 0, 0)

WindowRows(w) == {w.table} \X (w.base + 1 .. w.base + w.remaining)

First(w) == <<w.table, w.base + 1>>
LastRow(w) == <<w.table, w.base + w.remaining>>
AfterFirst(w) == Window(w.table, w.base + 1, w.remaining - 1)
BeforeLast(w) == Window(w.table, w.base, w.remaining - 1)

\* Mutant: the right half begins where the table does.
HalvesOverlapping(w) ==
  LET left == (w.remaining + 1) \div 2
  IN  {Window(w.table, w.base, left), Window(w.table, left, w.remaining \div 2)}

\* TableProducer::split.
Halves(w) ==
  LET left == (w.remaining + 1) \div 2
  IN  {Window(w.table, w.base, left), Window(w.table, w.base + left, w.remaining \div 2)}

NoIter == [window |-> NoTable, rest |-> <<>>, reversed |-> FALSE]

\* QueryIter::unfiltered_len.
IterLen(it) ==
  LET rows[n \in 0 .. Len(it.rest)] ==
        IF n = 0 THEN it.window.remaining ELSE rows[n - 1] + RowCount(it.rest[n])
  IN  rows[Len(it.rest)]

\* Mutant: a jump passes over a table.
JumpedFar(it) ==
  LET rest == IF Len(it.rest) > 1 /\ it.window # NoTable THEN Tail(it.rest) ELSE it.rest
  IN  [it EXCEPT !.window = WholeTable(Head(rest)), !.rest = Tail(rest)]

\* QueryIter::jump.
Jumped(it) == [it EXCEPT !.window = WholeTable(Head(it.rest)), !.rest = Tail(it.rest)]

Yield(row) == yielded' = yielded (+) SetToBag({row})

-----------------------------------------------------------------------------
QueryInit ==
  /\ Init
  /\ query \in QueryTypes
  /\ state = EmptyState
  /\ phase = "new"
  /\ iter = NoIter
  /\ producers = {}
  /\ yielded = EmptyBag

\* An operation on the world, between two runs of the system.
WorldStep ==
  /\ phase \in {"new", "idle"}
  /\ Next
  /\ UNCHANGED <<query, state, phase, iter, producers, yielded>>

\* SysArg::init.
InitQuery ==
  /\ phase = "new"
  /\ \/ /\ ~MissesColumn(EmptyState)
        /\ state' = CacheTables(EmptyState)
        /\ phase' = "idle"
        /\ UNCHANGED vars
     \/ MissesColumn(EmptyState) /\ Panic /\ UNCHANGED <<state, phase>>
  /\ UNCHANGED <<query, iter, producers, yielded>>

\* SysArg::before_update: the cache is refreshed when the generation changed.
BeforeUpdate ==
  LET stale == state.generation # archetypes.generation
  IN  /\ phase = "idle"
      /\ \/ /\ ~(stale /\ MissesColumn(state))
            /\ state' = IF stale THEN CacheTables(state) ELSE state
            /\ phase' = "running"
            /\ UNCHANGED vars
         \/ stale /\ MissesColumn(state) /\ Panic /\ UNCHANGED <<state, phase>>
      /\ UNCHANGED <<query, iter, producers, yielded>>

\* The system returns; an iterator may be dropped before its end.
AfterUpdate ==
  /\ phase \in {"running", "iterating", "exhausted", "parallel"}
  /\ producers = {}
  /\ phase' = "idle"
  /\ iter' = NoIter
  /\ yielded' = EmptyBag
  /\ UNCHANGED <<vars, query, state, producers>>

\* Query::iter: the iterator is at the first cached table.
Iter ==
  /\ phase = "running"
  /\ phase' = "iterating"
  /\ iter' = IF state.cache = <<>> THEN NoIter ELSE Jumped([NoIter EXCEPT !.rest = state.cache])
  /\ UNCHANGED <<vars, query, state, producers, yielded>>

\* Iterator::next: one jump at most, after which a row is taken whether or not the
\* table has one.
NextItem ==
  LET jumps == iter.window.remaining = 0 /\ iter.rest # <<>>
      at    == IF jumps THEN Jumped(iter) ELSE iter
  IN  /\ phase \in {"iterating", "exhausted"}
      /\ \/ /\ at.window.remaining > 0
            /\ Yield(First(at.window))
            /\ iter' = [at EXCEPT !.window = AfterFirst(@)]
            /\ phase' = "iterating"
            /\ UNCHANGED vars
         \/ /\ at.window.remaining = 0 /\ jumps
            /\ panicked' = TRUE
            /\ UNCHANGED <<entities, archetypes, released, phase, iter, yielded>>
         \/ /\ at.window.remaining = 0 /\ ~jumps
            /\ phase' = "exhausted"
            /\ UNCHANGED <<vars, iter, yielded>>
      /\ UNCHANGED <<query, state, producers>>

\* DoubleEndedIterator::next_back never jumps: it ends with the current table, and
\* next() may find rows after it.
NextBackItem ==
  /\ phase = "iterating"
  /\ \/ /\ iter.window.remaining > 0
        /\ Yield(LastRow(iter.window))
        /\ iter' = [iter EXCEPT !.window = BeforeLast(@), !.reversed = TRUE]
        /\ UNCHANGED phase
     \/ /\ iter.window.remaining = 0
        /\ iter' = [iter EXCEPT !.reversed = TRUE]
        /\ phase' = "exhausted"
        /\ UNCHANGED yielded
  /\ UNCHANGED <<vars, query, state, producers>>

\* Query::par_iter: rayon makes one producer for each cached table.
ParIter ==
  /\ phase = "running"
  /\ phase' = "parallel"
  /\ producers' = {[window |-> WholeTable(state.cache[i]), folding |-> FALSE] :
                     i \in DOMAIN state.cache}
  /\ UNCHANGED <<vars, query, state, iter, yielded>>

\* UnindexedProducer::split, if rayon chooses to: only a single row is refused.
Split(p) ==
  /\ ~p.folding /\ p.window.remaining # 1
  /\ producers' = (producers \ {p}) \union
                    {[window |-> w, folding |-> FALSE] : w \in Halves(p.window)}
  /\ UNCHANGED <<vars, query, state, phase, iter, yielded>>

\* SequentialTableIter::next, in fold_with.
Fold(p) ==
  /\ \/ /\ p.window.remaining > 0
        /\ Yield(First(p.window))
        /\ producers' = (producers \ {p}) \union
                          {[window |-> AfterFirst(p.window), folding |-> TRUE]}
     \/ /\ p.window.remaining = 0
        /\ producers' = producers \ {p}
        /\ UNCHANGED yielded
  /\ UNCHANGED <<vars, query, state, phase, iter>>

SystemStep ==
  \/ InitQuery \/ BeforeUpdate \/ AfterUpdate
  \/ Iter \/ NextItem \/ NextBackItem
  \/ ParIter \/ \E p \in producers : Split(p) \/ Fold(p)

QueryNext ==
  /\ ~panicked
  /\ WorldStep \/ SystemStep

QuerySpec == QueryInit /\ [][QueryNext]_queryVars

-----------------------------------------------------------------------------
(* Type invariant.                                                          *)
Windows == [table : Nat, base : Nat, remaining : Nat]

QueryTypeOK ==
  /\ TypeOK
  /\ query \in QueryTypes
  /\ state \in [cache : Seq(Nat), next_scan : Nat \ {0}, generation : Nat]
  /\ phase \in {"new", "idle", "running", "iterating", "exhausted", "parallel"}
  /\ iter \in [window : Windows, rest : Seq(Nat), reversed : BOOLEAN]
  /\ producers \subseteq [window : Windows, folding : BOOLEAN]
  /\ IsABag(yielded)

\* What filter.rs says of each filter: Not holds "as long as at least one of the
\* contained filters returns false", Xor "if and only if an odd number" match.
Means(f, sig) ==
  LET means[g \in FilterTrees] ==
        LET holding == {i \in DOMAIN g.of : means[g.of[i]]}
        IN  \/ g.op = "unit"
            \/ g.op = "with" /\ \A c \in g.types : c \in sig
            \/ g.op = "without" /\ \A c \in g.types : c \notin sig
            \/ g.op = "or" /\ holding # {}
            \/ g.op = "not" /\ holding # DOMAIN g.of
            \/ g.op = "xor" /\ Cardinality(holding) % 2 = 1
  IN  means[f]

\* Where no Xor holds more than one filter, the code does what filter.rs says.
SingleXors == \A f \in FilterTrees : f.op = "xor" => DOMAIN f.of = {1}

MatchingTables ==
  {i \in TableIndices : /\ query.data \subseteq archetypes.tables[i].signature
                        /\ Means(query.filter, archetypes.tables[i].signature)}

MatchingRows == UNION {WindowRows(WholeTable(i)) : i \in MatchingTables}

\* A cache of the current generation lists exactly the tables that the query's data
\* and filter ask for, each once, although each scan looks only at tables added
\* since the last one; and a system never runs with an older cache.
CacheCurrent ==
  /\ phase # "new" /\ state.generation = archetypes.generation =>
       IsInjective(state.cache) /\ ToSet(state.cache) = MatchingTables
  /\ phase \notin {"new", "idle"} => state.generation = archetypes.generation

\* In how many places a row is: returned, to be returned by the iterator, or by
\* one of the producers.
Places(row) ==
  (IF BagIn(row, yielded) THEN yielded[row] ELSE 0)
    + Cardinality({p \in producers : row \in WindowRows(p.window)})
    + (IF row \in WindowRows(iter.window) THEN 1 ELSE 0)
    + Cardinality({k \in DOMAIN iter.rest : row \in WindowRows(WholeTable(iter.rest[k]))})

\* Every matching row has been returned once or will be, whichever ends the caller
\* takes rows from and however rayon splits: no row is lost, none is returned
\* twice (a `&mut` twice), none is held by two producers.
RowsAccounted ==
  phase \in {"iterating", "exhausted", "parallel"} =>
    /\ \A row \in MatchingRows : Places(row) = 1
    /\ BagToSet(yielded) \subseteq MatchingRows
    /\ \A p \in producers : WindowRows(p.window) \subseteq MatchingRows

\* ExactSizeIterator::len is the number of rows that are left, from whichever ends they
\* are taken; and taken from the front, the iterator ends when none is left.
IterationComplete ==
  /\ phase \in {"iterating", "exhausted"} =>
       IterLen(iter) = Cardinality(MatchingRows \ BagToSet(yielded))
  /\ phase = "exhausted" /\ ~iter.reversed => BagToSet(yielded) = MatchingRows

\* query.rs:89 "Creates an iterator that iterates over all components matching this
\* query": taken from the front, it reaches its end, with every row returned.
IteratesOverAll ==
  phase \in {"iterating", "exhausted"} /\ ~iter.reversed =>
    /\ ~panicked
    /\ phase = "exhausted" => BagToSet(yielded) = MatchingRows

=============================================================================
