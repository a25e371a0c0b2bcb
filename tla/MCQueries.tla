----------------------------- MODULE MCQueries -----------------------------
(* Instances of Queries for TLC: two component types and queries with all    *)
(* kinds of archetypal filters.                                              *)
EXTENDS Queries

CONSTANTS A, B

MCComponents == {A, B}

WithA == With({A})
WithB == With({B})
WithoutB == Without({B})
WithoutBoth == Without({A, B})
Either == Or(<<WithA, WithB>>)
NotBoth == Not(<<WithA, WithB>>)
BWithoutA == Not(<<Or(<<WithA, WithoutB>>)>>)
OddB == Xor(<<WithB>>)

MCFilterTrees ==
  {Unit, WithA, WithB, WithoutB, WithoutBoth, Either, NotBoth, Or(<<WithA, WithoutB>>),
   BWithoutA, OddB}

Query(data, filter) == [data |-> data, filter |-> filter]

MCQueryTypes ==
  {Query({}, Unit), Query({A}, Unit), Query({A}, WithoutB), Query({}, WithoutBoth),
   Query({}, Either), Query({}, NotBoth), Query({B}, BWithoutA), Query({A}, OddB)}
OneQuery == {Query({A}, Unit)}

ASSUME MCQueriesAssumption == SingleXors

NoBundles == {}
OnlyB == {<<B>>}
OneOrBoth == {<<A>>, <<A, B>>}
AnyBundle == {<<A>>, <<B>>, <<A, B>>}

\* The bound on the world: four entities in one table, or up to three in several.
FourInOneTable == Cardinality(Live(entities)) = 4 => Len(archetypes.tables) = 1
=============================================================================
