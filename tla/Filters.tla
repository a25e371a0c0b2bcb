------------------------------- MODULE Filters -------------------------------
(***************************************************************************)
(* The archetypal part of query filters (crates/core/src/query/filter.rs): *)
(* which tables a query caches.  A filter is a tree: With and Without name *)
(* a bundle, Or, Not and Xor hold a tuple of filters, `()` accepts all.    *)
(***************************************************************************)
EXTENDS Sequences

CONSTANT FilterTrees  \* the filters there are, with all their parts

Unit == [op |-> "unit"]
With(types) == [op |-> "with", types |-> types]
Without(types) == [op |-> "without", types |-> types]
Or(fs) == [op |-> "or", of |-> fs]
Not(fs) == [op |-> "not", of |-> fs]
Xor(fs) == [op |-> "xor", of |-> fs]

\* Mutant: Without rejects only the tables that have the whole bundle.
AppliesOverlapping(f, sig) ==
  LET holds[g \in FilterTrees] ==
        \/ g.op = "unit"
        \/ g.op = "with" /\ g.types \subseteq sig
        \/ g.op = "without" /\ ~(g.types \subseteq sig)
        \/ g.op = "or" /\ \E i \in DOMAIN g.of : holds[g.of[i]]
        \/ g.op = "not" /\ \E i \in DOMAIN g.of : ~holds[g.of[i]]
        \/ g.op = "xor" /\ \A i \in DOMAIN g.of : holds[g.of[i]]
  IN  holds[f]

\* Filter::apply_archetypal.  Xor asks its group for the conjunction, which is one
\* truth value, and counts that: it accepts when all of its parts do.
Applies(f, sig) ==
  LET holds[g \in FilterTrees] ==
        \/ g.op = "unit"
        \/ g.op = "with" /\ g.types \subseteq sig
        \/ g.op = "without" /\ g.types \intersect sig = {}
        \/ g.op = "or" /\ \E i \in DOMAIN g.of : holds[g.of[i]]
        \/ g.op = "not" /\ \E i \in DOMAIN g.of : ~holds[g.of[i]]
        \/ g.op = "xor" /\ \A i \in DOMAIN g.of : holds[g.of[i]]
  IN  holds[f]

=============================================================================
